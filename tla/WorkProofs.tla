----------------------------- MODULE WorkProofs -----------------------------
(***************************************************************************)
(* Proofs about the students' work: the confinement of the runs of an       *)
(* exercise, the registers that the teacher's pages show and store, the     *)
(* assignments that the pages record and distribute, the files that a       *)
(* distribution meets, the grades of what was delivered, and what the       *)
(* installation of a classroom machine and its removal leave of it.  The    *)
(* inductive invariant of each component comes first, then the lemmas on    *)
(* its actions.                                                             *)
(***************************************************************************)
EXTENDS RuntimeRuns, Registers, Assigning, Scaffold, Grading, Installation,
        FiniteSetTheorems, TLAPS

-----------------------------------------------------------------------------
(***************************************************************************)
(* The runs of an exercise (RuntimeRuns)                                    *)
(***************************************************************************)

RunStages == {"idle", "context", "plugin", "supports", "backend", "docker", "remove",
              "cleanup error", "result"}
AnyPlugin == {None} \cup [version : Nat, offers : SUBSET Capabilities]
AnyNeeds == {None} \cup SUBSET Capabilities

RunTypeOK ==
    /\ published \in AnyNeeds
    /\ upgrades \in Nat
    /\ installed \in AnyPlugin
    /\ registry \in AnyPlugin
    /\ run \in [pc : RunStages, backend : Backends \cup {None, "docker"}, asked : Backends \cup {None},
                needs : AnyNeeds, plugin : AnyPlugin, outcome : {"none", "exited", "timeout"},
                isolated : BOOLEAN]

\* What a stage of a run may rely on: no report is shown while a run goes on; once a
\* backend is chosen the plugin was found to support the Activity and is run in this
\* process only when it has no sandbox and none was asked for; and a container is
\* confirmed gone before its output counts.
RunInv ==
    /\ RunsAreConfined
    /\ run.pc # "idle" => runReport = None
    /\ run.pc \in {"context", "plugin", "supports"} => run.backend = run.asked
    /\ run.pc \in {"backend", "docker", "remove", "result"} =>
          /\ run.needs \subseteq run.plugin.offers
          /\ run.backend = "local" => "sandbox-plan.v1" \notin run.plugin.offers
          /\ run.asked = "docker" => run.backend = "docker"
    /\ run.pc = "docker" => run.backend = "docker"
    /\ run.isolated <=> run.pc \in {"remove", "result", "cleanup error"}
    /\ run.pc = "result" => container = "absent"

LEMMA RunTypeStep == RunTypeOK /\ [RunNext]_runVars => RunTypeOK'
<1> USE DEF RunTypeOK, RunStages
<1> SUFFICES ASSUME RunTypeOK, [RunNext]_runVars PROVE RunTypeOK'
    OBVIOUS
<1>0. None \in AnyNeeds /\ None \in AnyPlugin
    BY DEF AnyNeeds, AnyPlugin
<1>00. NoRun \in [pc : RunStages, backend : Backends \cup {None, "docker"}, asked : Backends \cup {None},
                needs : AnyNeeds, plugin : AnyPlugin, outcome : {"none", "exited", "timeout"},
                isolated : BOOLEAN]
    BY <1>0 DEF NoRun
<1>1. ASSUME NEW b \in Backends, run_runtime_assignment(b) PROVE RunTypeOK'
    BY <1>0, <1>1 DEF run_runtime_assignment, NoRun
<1>2. CASE runtime_context
    BY <1>0, <1>00, <1>2 DEF runtime_context, Error, RunEnds, OnlyRun, In
<1>3. CASE registry_get
    BY <1>0, <1>00, <1>3 DEF registry_get, Error, RunEnds, In
<1>4. CASE probe_runtime
    BY <1>0, <1>00, <1>4 DEF probe_runtime, Error, RunEnds, OnlyRun, In, student_runtime_backend
<1>5. CASE run_runtime
    BY <1>0, <1>00, <1>5 DEF run_runtime, Error, RunEnds, In
<1>6. CASE prepare_sandbox_runtime
    BY <1>0, <1>00, <1>6 DEF prepare_sandbox_runtime, Error, RunEnds, OnlyRun, In
<1>7. CASE run_container
    BY <1>0, <1>00, <1>7 DEF run_container, Error, RunEnds, In
<1>8. CASE remove_container
    BY <1>0, <1>00, <1>8 DEF remove_container, remove_checked, In
<1>9. CASE cleanup_error
    BY <1>0, <1>00, <1>9 DEF cleanup_error, Error, RunEnds, In
<1>10. CASE finalize_sandbox_runtime
    BY <1>0, <1>00, <1>10 DEF finalize_sandbox_runtime, Error, RunEnds, In
<1>11. ASSUME NEW needs \in {None} \cup SUBSET Capabilities, publish(needs) PROVE RunTypeOK'
    BY <1>11 DEF publish, AnyNeeds
<1>12. ASSUME NEW offers \in SUBSET Capabilities, install(offers) PROVE RunTypeOK'
  <2>0. upgrades \in Nat
    OBVIOUS
  <2>00. upgrades + 1 \in Nat
    BY ONLY <2>0
  <2>1. [version |-> upgrades + 1, offers |-> offers] \in AnyPlugin
    BY <2>00 DEF AnyPlugin
  <2> QED
    BY <1>12, <2>00, <2>1 DEF install
<1>13. CASE restart_terminal
    BY <1>0, <1>00, <1>13 DEF restart_terminal
<1>14. CASE UNCHANGED runVars
    BY <1>14 DEF runVars, runState
<1> QED
    BY <1>1, <1>2, <1>3, <1>4, <1>5, <1>6, <1>7, <1>8, <1>9, <1>10, <1>11, <1>12, <1>13, <1>14
    DEF RunNext

LEMMA ErrorKeepsRunInv == ASSUME RunTypeOK, RunInv, Error, run.pc # "remove" PROVE RunInv'
<1>1. /\ runReport'.status = "runtime-unavailable"
      /\ run'.pc = "idle" /\ run'.isolated = FALSE
      /\ container' = container
    BY DEF Error, RunEnds, NoRun
<1>2. container # "created"
    BY DEF RunInv, RunsAreConfined
<1> QED
    BY <1>1, <1>2 DEF RunInv, RunsAreConfined

\* A run that ends otherwise.
LEMMA EndKeepsRunInv ==
    ASSUME RunTypeOK, RunInv, NEW status, NEW passed, RunEnds(status, passed), container' = container,
           run.pc # "remove",
           status = "completed" =>
              /\ run.needs \subseteq run.plugin.offers
              /\ "sandbox-plan.v1" \in run.plugin.offers => run.isolated
              /\ run.asked = "docker" => run.isolated,
           run.isolated => container = "absent"
    PROVE  RunInv'
<1>1. /\ runReport'.status = status /\ runReport'.isolated = run.isolated
      /\ runReport'.needs = run.needs /\ runReport'.plugin = run.plugin
      /\ runReport'.asked = run.asked
      /\ run'.pc = "idle" /\ run'.isolated = FALSE
    BY DEF RunEnds, NoRun
<1>2. container # "created"
    BY DEF RunInv, RunsAreConfined
<1>3. status = "completed" =>
          /\ runReport'.needs \subseteq runReport'.plugin.offers
          /\ "sandbox-plan.v1" \in runReport'.plugin.offers => runReport'.isolated
          /\ runReport'.asked = "docker" => runReport'.isolated
    BY <1>1
<1>4. runReport'.isolated => container' = "absent"
    BY <1>1
<1>5. RunsAreConfined'
    BY <1>1, <1>2, <1>3, <1>4 DEF RunsAreConfined
<1> QED
    BY <1>1, <1>5 DEF RunInv

LEMMA RunInvStep == RunTypeOK /\ RunInv /\ [RunNext]_runVars => RunInv'
<1> USE DEF RunInv, RunsAreConfined, RunTypeOK, RunStages
<1> SUFFICES ASSUME RunTypeOK, RunInv, [RunNext]_runVars PROVE RunInv'
    OBVIOUS
<1>1. ASSUME NEW b \in Backends, run_runtime_assignment(b) PROVE RunInv'
    BY <1>1 DEF run_runtime_assignment, NoRun, In
<1>2. CASE runtime_context
    BY <1>2, ErrorKeepsRunInv DEF runtime_context, OnlyRun, In
<1>3. CASE registry_get
    BY <1>3, ErrorKeepsRunInv DEF registry_get, In
<1>4. CASE probe_runtime
    BY <1>4, ErrorKeepsRunInv DEF probe_runtime, OnlyRun, In, student_runtime_backend,
                assert_runtime_supports_activity
<1>5. CASE run_runtime
  <2>1. ~run.isolated
    BY <1>5 DEF run_runtime, In
  <2>2. ASSUME NEW passed \in BOOLEAN, RunEnds("completed", passed), container' = container PROVE RunInv'
    BY <1>5, <2>1, <2>2, EndKeepsRunInv DEF run_runtime, In
  <2> QED
    BY <1>5, <2>2, ErrorKeepsRunInv DEF run_runtime, In
<1>6. CASE prepare_sandbox_runtime
    BY <1>6, ErrorKeepsRunInv DEF prepare_sandbox_runtime, OnlyRun, In
<1>7. CASE run_container
    BY <1>7, ErrorKeepsRunInv DEF run_container, In
<1>8. CASE remove_container
    BY <1>8 DEF remove_container, remove_checked, In
<1>9. CASE cleanup_error
    BY <1>9, ErrorKeepsRunInv DEF cleanup_error, In
<1>10. CASE finalize_sandbox_runtime
  <2>1. /\ run.pc = "result" /\ run.isolated /\ container = "absent"
        /\ run.needs \subseteq run.plugin.offers
    BY <1>10 DEF finalize_sandbox_runtime, In
  <2>2. ASSUME NEW status \in {"timeout", "completed"}, NEW passed \in BOOLEAN,
               RunEnds(status, passed), container' = container
        PROVE  RunInv'
    BY <2>1, <2>2, EndKeepsRunInv
  <2> QED
    BY <1>10, <2>1, <2>2, ErrorKeepsRunInv DEF finalize_sandbox_runtime
<1>11. ASSUME NEW needs \in {None} \cup SUBSET Capabilities, publish(needs) PROVE RunInv'
    BY <1>11 DEF publish
<1>12. ASSUME NEW offers \in SUBSET Capabilities, install(offers) PROVE RunInv'
    BY <1>12 DEF install
<1>13. CASE restart_terminal
    BY <1>13 DEF restart_terminal, NoRun
<1>14. CASE UNCHANGED runVars
    BY <1>14 DEF runVars, runState
<1> QED
    BY <1>1, <1>2, <1>3, <1>4, <1>5, <1>6, <1>7, <1>8, <1>9, <1>10, <1>11, <1>12, <1>13, <1>14
    DEF RunNext

\* A completed run was made by a plugin that offers what the Activity needs and was
\* confined when it can be, and a run is reported only when its container is confirmed
\* gone, however the Activity and the installed plugin changed while it went on.
THEOREM RunsAreConfinedAlways == RunSpec => []RunsAreConfined
<1>1. RunInit => RunTypeOK /\ RunInv
    BY DEF RunInit, NoRun, RunTypeOK, RunStages, AnyPlugin, AnyNeeds, RunInv, RunsAreConfined
<1>2. RunInv => RunsAreConfined
    BY DEF RunInv
<1> QED
    BY <1>1, <1>2, RunTypeStep, RunInvStep, PTL DEF RunSpec

-----------------------------------------------------------------------------
(***************************************************************************)
(* The registers and the pages that show them (Registers)                   *)
(***************************************************************************)

PageCalls == [kind : {"none", "load", "generate", "review"}, tab : Tabs \cup {None},
              name : Names \cup {None},
              pc : {"free", "sent", "tracked", "writing", "ok", "error"},
              fresh : BOOLEAN, requested : BOOLEAN, decision : Decisions \cup {"none"},
              row : ReportRows \cup {None}, before : ReportRows \cup {None}]

Views == [select : Names \cup {None}, name : Names \cup {None}, shown : ReportRows \cup {None},
          pending : BOOLEAN, generating : BOOLEAN]

\* A decision in a row was taken beside the package of the row.
Decided(row) ==
    delivering /\ row.feedback.status \in {"approved", "rejected"} => row.feedback.on = row.package

FilesHold ==
    /\ delivering \in BOOLEAN
    /\ received \in Nat /\ selected \in Nat /\ writes \in Nat
    /\ register \in [Names -> ReportRows \cup {None}]
    /\ \A n \in Names : register[n] # None => Decided(register[n]) /\ register[n].write <= writes
    /\ cli \in {None} \cup [name : Names, row : ReportRows]
    /\ cli # None => Decided(cli.row)

\* What a request has computed or read may be written or shown.
CallHolds(r) ==
    /\ r \in PageCalls
    /\ r.kind # "none" => r.tab \in Tabs /\ r.name \in Names
    /\ r.before # None => Decided(r.before)
    /\ r.kind = "review" /\ r.pc = "writing" => r.before # None
    /\ r.kind = "generate" /\ r.pc \in {"tracked", "writing"} => r.row # None /\ r.row.feedback = Placeholder
    /\ r.kind # "none" /\ r.pc = "ok" =>
          r.row # None /\ register[r.name] # None /\ r.row.write <= register[r.name].write
    /\ r.kind = "generate" => ~r.fresh

\* A page is never ahead of the file it shows.
ViewHolds(p) ==
    /\ p \in Views
    /\ p.shown # None => p.name \in Names /\ register[p.name] # None /\ p.shown.write <= register[p.name].write

\* An answer to the last request of a page is not older than what the page shows.
Fits(r, p) ==
    r.fresh /\ r.pc = "ok" /\ p.shown # None /\ p.name = r.name => p.shown.write <= r.row.write

\* A page has one request that is its last and one that generates.
Alone(r, s) ==
    /\ r.kind # "none" /\ s.kind # "none" /\ r.tab = s.tab
    /\ (r.fresh /\ s.fresh) \/ (r.kind = "generate" /\ s.kind = "generate")

PageRequestsHold ==
    /\ call \in [Calls -> PageCalls] /\ tab \in [Tabs -> Views]
    /\ \A c \in Calls : CallHolds(call[c])
    /\ \A t \in Tabs : ViewHolds(tab[t])
    /\ \A c \in Calls : call[c].kind # "none" => Fits(call[c], tab[call[c].tab])
    /\ \A c \in Calls : call[c].kind = "generate" => tab[call[c].tab].generating
    /\ \A c, d \in Calls : Alone(call[c], call[d]) => c = d

RegisterInv == FilesHold /\ PageRequestsHold

\* The part of RegistersAreCurrent about the pages.
PagesStay ==
    \A t \in Tabs :
        /\ tab[t].shown # None /\ tab'[t].shown # None
        /\ tab'[t].name = tab[t].name
        /\ tab'[t].shown.write < tab[t].shown.write
        => tab[t].generating /\ ~tab'[t].generating

\* No register is lost, and none gets older.
Grows ==
    \A n \in Names : register[n] # None =>
        register'[n] # None /\ register[n].write <= register'[n].write

-----------------------------------------------------------------------------
\* The files.

LEMMA FilesStay ==
    ASSUME FilesHold, UNCHANGED << delivering, received, selected, register, writes >>, cli' = cli \/ cli' = None
    PROVE  FilesHold' /\ Grows
<1>1. \A n \in Names : register[n] # None => register[n].write \in Nat
    BY DEF FilesHold, ReportRows
<1> QED
    BY <1>1 DEF FilesHold, Grows, Decided

LEMMA WriteHolds ==
    ASSUME FilesHold, NEW n \in Names, NEW row \in ReportRows, Decided(row), row.write = writes + 1,
           register' = [register EXCEPT ![n] = row], writes' = writes + 1,
           UNCHANGED << delivering, received, selected >>, cli' = cli \/ cli' = None
    PROVE  FilesHold' /\ Grows /\ register'[n] = row /\ row # None
<1>1. register'[n] = row /\ \A m \in Names \ {n} : register'[m] = register[m]
    BY DEF FilesHold
<1>2. register' \in [Names -> ReportRows \cup {None}]
    BY DEF FilesHold
<1>3. writes \in Nat /\ writes' \in Nat
    BY DEF FilesHold
<1>4. \A m \in Names : register[m] # None => register[m] \in ReportRows /\ register[m].write \in Nat
    BY DEF FilesHold, ReportRows
<1>5. ASSUME NEW m \in Names, register'[m] # None
      PROVE  Decided(register[m])' /\ register'[m].write <= writes'
  <2>1. CASE m = n
    BY <1>1, <1>3, <2>1 DEF Decided
  <2>2. CASE m # n
    <3>1. register'[m] = register[m] /\ register[m] # None
      BY <1>1, <1>5, <2>2
    <3>2. Decided(register[m]) /\ register[m].write <= writes
      BY <3>1 DEF FilesHold
    <3> QED
      BY <1>3, <1>4, <3>1, <3>2 DEF Decided
  <2> QED
    BY <2>1, <2>2
<1>6. (cli \in {None} \cup [name : Names, row : ReportRows] /\ (cli # None => Decided(cli.row)))'
    BY DEF FilesHold, Decided
<1>7. FilesHold'
    BY <1>2, <1>3, <1>5, <1>6 DEF FilesHold
<1>9. row # None
    BY NoneIsNoRow
<1>8. ASSUME NEW m \in Names, register[m] # None
      PROVE  register'[m] # None /\ register[m].write <= register'[m].write
  <2>1. register[m].write <= writes
    BY <1>8 DEF FilesHold
  <2>2. CASE m = n
    BY <1>1, <1>3, <1>4, <1>8, <1>9, <2>1, <2>2
  <2>3. CASE m # n
    BY <1>1, <1>4, <1>8, <2>3
  <2> QED
    BY <2>2, <2>3
<1> QED
    BY <1>1, <1>7, <1>8, <1>9 DEF Grows

-----------------------------------------------------------------------------
\* The requests and the pages while the files grow.

\* What holds of a request or a page keeps holding.
LEMMA CallStays ==
    ASSUME FilesHold, FilesHold', Grows, delivering' = delivering, NEW r, CallHolds(r)
    PROVE  CallHolds(r)'
<1>1. ASSUME r.kind # "none", r.pc = "ok"
      PROVE  r.row # None /\ register'[r.name] # None /\ r.row.write <= register'[r.name].write
  <2>1. /\ r.name \in Names /\ r.row # None /\ register[r.name] # None
        /\ r.row.write <= register[r.name].write
        /\ r.row \in ReportRows /\ register[r.name] \in ReportRows
    BY <1>1 DEF CallHolds, PageCalls, FilesHold
  <2>2. register'[r.name] # None /\ register[r.name].write <= register'[r.name].write
        /\ register'[r.name] \in ReportRows
    BY <2>1 DEF Grows, FilesHold
  <2> QED
    BY <2>1, <2>2 DEF ReportRows
<1> QED
    BY <1>1 DEF CallHolds, Decided

LEMMA ViewStays ==
    ASSUME FilesHold, FilesHold', Grows, NEW p, ViewHolds(p)
    PROVE  ViewHolds(p)'
<1>1. ASSUME p.shown # None
      PROVE  p.name \in Names /\ register'[p.name] # None /\ p.shown.write <= register'[p.name].write
  <2>1. /\ p.name \in Names /\ register[p.name] # None /\ p.shown.write <= register[p.name].write
        /\ p.shown \in ReportRows /\ register[p.name] \in ReportRows
    BY <1>1 DEF ViewHolds, Views, FilesHold
  <2>2. register'[p.name] # None /\ register[p.name].write <= register'[p.name].write
        /\ register'[p.name] \in ReportRows
    BY <2>1 DEF Grows, FilesHold
  <2> QED
    BY <2>1, <2>2 DEF ReportRows
<1> QED
    BY <1>1 DEF ViewHolds

\* A step of the server for one request.
LEMMA ServedHolds ==
    ASSUME RegisterInv, FilesHold', Grows, delivering' = delivering, NEW c \in Calls, NEW r,
           call' = [call EXCEPT ![c] = r], tab' = tab,
           CallHolds(r)', call[c].kind # "none",
           r.kind = call[c].kind, r.tab = call[c].tab, r.name = call[c].name, r.fresh = call[c].fresh,
           r.pc = "ok" => r.row = register'[r.name]
    PROVE  RegisterInv' /\ PagesStay
<1>1. /\ call'[c] = r /\ \A d \in Calls \ {c} : call'[d] = call[d]
      /\ call' \in [Calls -> PageCalls]
    BY DEF RegisterInv, PageRequestsHold, CallHolds
<1>2. ASSUME NEW d \in Calls PROVE CallHolds(call[d])'
  <2>1. CASE d = c
    BY <1>1, <2>1 DEF CallHolds, Decided
  <2>2. CASE d # c
    BY <1>1, <2>2, CallStays DEF RegisterInv, PageRequestsHold, CallHolds, Decided
  <2> QED
    BY <2>1, <2>2
<1>3. ASSUME NEW t \in Tabs PROVE ViewHolds(tab[t])'
    BY ViewStays DEF RegisterInv, PageRequestsHold, ViewHolds
<1>4. ASSUME NEW d \in Calls, call'[d].kind # "none" PROVE Fits(call[d], tab[call[d].tab])'
  <2>1. CASE d = c
    <3>1. r.tab \in Tabs /\ ViewHolds(tab[r.tab])'
      BY <1>3, <2>1, <1>1, <1>4 DEF CallHolds
    <3> QED
      BY <1>1, <2>1, <3>1 DEF Fits, ViewHolds
  <2>2. CASE d # c
    BY <1>1, <1>4, <2>2 DEF RegisterInv, PageRequestsHold, Fits
  <2> QED
    BY <2>1, <2>2
<1>5. ASSUME NEW d \in Calls, call'[d].kind = "generate" PROVE tab'[call'[d].tab].generating
    BY <1>1, <1>5 DEF RegisterInv, PageRequestsHold
<1>6. ASSUME NEW d \in Calls, NEW e \in Calls, Alone(call'[d], call'[e]) PROVE d = e
  <2>1. \A f \in Calls : /\ call'[f].kind = call[f].kind /\ call'[f].tab = call[f].tab
                         /\ call'[f].fresh = call[f].fresh
    BY <1>1
  <2>2. Alone(call[d], call[e])
    BY <1>6, <2>1 DEF Alone
  <2> QED
    BY <2>2 DEF RegisterInv, PageRequestsHold
<1>7. PagesStay
    BY DEF PagesStay, RegisterInv, PageRequestsHold, ViewHolds, Views, ReportRows
<1>8. tab' \in [Tabs -> Views]
    BY DEF RegisterInv, PageRequestsHold
<1> QED
    BY <1>1, <1>2, <1>3, <1>4, <1>5, <1>6, <1>7, <1>8 DEF RegisterInv, PageRequestsHold

-----------------------------------------------------------------------------
\* The rows that are computed, reviewed and written.

LEMMA ComputedRow ==
    ASSUME FilesHold, NEW row \in track_assignments
    PROVE  [package |-> row.package, status |-> row.status, feedback |-> Placeholder,
            whole |-> TRUE, write |-> 0] \in ReportRows
<1>1. row.package \in Nat /\ row.status \in {"missing", "submitted", "unbound", "unknown"}
    BY DEF track_assignments, apply_delivery_to_student, Tracked, canonical_tracking_report_result,
           selected_final_report, FilesHold
<1> QED
    BY <1>1 DEF ReportRows, Placeholder

LEMMA StampedRow ==
    ASSUME FilesHold, NEW row \in ReportRows, Decided(row)
    PROVE  Stamped(row) \in ReportRows /\ Decided(Stamped(row)) /\ Stamped(row).write = writes + 1
<1>1. writes + 1 \in Nat
    BY DEF FilesHold
<1> QED
    BY <1>1 DEF Stamped, ReportRows, Decided

LEMMA ReviewedRow ==
    ASSUME NEW row \in ReportRows, NEW d
    PROVE  /\ review_feedback_in_register(row, d) \in ReportRows
           /\ Decided(review_feedback_in_register(row, d))
           /\ apply_feedback_to_register(row) \in ReportRows
           /\ Decided(apply_feedback_to_register(row))
    BY DEF review_feedback_in_register, apply_feedback_to_register, ReportRows, Decided

\* A regenerated row keeps a decision only beside the package it was taken for.
LEMMA PreservedRow ==
    ASSUME NEW previous \in ReportRows, Decided(previous), NEW row \in ReportRows
    PROVE  LET kept == [row EXCEPT !.feedback = preserve_assignment_ai_feedback(previous, row)]
           IN kept \in ReportRows /\ Decided(kept)
<1> DEFINE f == preserve_assignment_ai_feedback(previous, row)
           kept == [row EXCEPT !.feedback = f]
<1>1. \/ f = Placeholder
      \/ f = previous.feedback /\ (delivering => previous.package = row.package)
    BY DEF preserve_assignment_ai_feedback
<1>2. f \in [status : {"not_generated", "draft", "approved", "rejected"}, on : Nat]
    BY <1>1 DEF ReportRows, Placeholder
<1> HIDE DEF f
<1>3. kept \in ReportRows /\ kept.feedback = f /\ kept.package = row.package
    BY <1>2 DEF ReportRows
<1>4. Decided(kept)
    BY <1>1, <1>3 DEF Decided, Placeholder
<1> QED
    BY <1>3, <1>4 DEF f

\* A request of the server that goes on or is answered.
LEMMA CallBecomes ==
    ASSUME RegisterInv, NEW c \in Calls
    PROVE  call[c] \in PageCalls /\ CallHolds(call[c])
    BY DEF RegisterInv, PageRequestsHold

\* An answer of the row that is in the file, or of none.
LEMMA ReplyHolds ==
    ASSUME RegisterInv, FilesHold', Grows, delivering' = delivering, NEW c \in Calls, NEW row,
           call[c].kind # "none", Reply(c, row), tab' = tab,
           Readable(row) => row = register'[call[c].name]
    PROVE  RegisterInv' /\ PagesStay
<1>0. call[c] \in PageCalls /\ CallHolds(call[c]) /\ call[c].name \in Names
    BY CallBecomes DEF CallHolds
<1> DEFINE answer == IF Readable(row) THEN row ELSE None
           next == [call[c] EXCEPT !.pc = IF Readable(row) THEN "ok" ELSE "error",
                                   !.row = answer, !.before = None]
<1>1. answer \in ReportRows \cup {None}
    BY <1>0 DEF FilesHold
<1>2. Readable(row) => answer # None /\ answer = register'[call[c].name] /\ register'[call[c].name] \in ReportRows
    BY <1>0 DEF FilesHold, Readable
<1>3. call' = [call EXCEPT ![c] = next]
    BY <1>0 DEF Reply, PageCalls, RegisterInv, PageRequestsHold
<1> HIDE DEF answer
<1>4. /\ next \in PageCalls /\ next.kind = call[c].kind /\ next.tab = call[c].tab
      /\ next.name = call[c].name /\ next.fresh = call[c].fresh /\ next.before = None
      /\ next.row = answer /\ next.pc = IF Readable(row) THEN "ok" ELSE "error"
    BY <1>0, <1>1 DEF PageCalls
<1> HIDE DEF next
<1>5. PICK r : r = next
    OBVIOUS
<1>6. /\ r \in PageCalls /\ r.kind # "none" /\ r.tab \in Tabs /\ r.name \in Names
      /\ r.before = None /\ r.pc \in {"ok", "error"} /\ (r.kind = "generate" => ~r.fresh)
    BY <1>0, <1>4, <1>5 DEF CallHolds
<1>7. r.pc = "ok" => r.row # None /\ r.row = register'[r.name] /\ register'[r.name] \in ReportRows
    BY <1>2, <1>4, <1>5
<1>8. CallHolds(r)'
    BY <1>6, <1>7 DEF CallHolds, ReportRows
<1> QED
    BY <1>3, <1>4, <1>5, <1>7, <1>8, ServedHolds

\* A request that goes on: its stage and what it has computed or read.
LEMMA GoesOn ==
    ASSUME RegisterInv, UNCHANGED << delivering, received, selected, register, cli, writes, tab >>,
           NEW c \in Calls, call[c].kind # "none", NEW r \in PageCalls, call' = [call EXCEPT ![c] = r],
           r.kind = call[c].kind, r.tab = call[c].tab, r.name = call[c].name, r.fresh = call[c].fresh,
           r.pc \in {"tracked", "writing"},
           r.before # None => Decided(r.before),
           r.kind = "review" /\ r.pc = "writing" => r.before # None,
           r.kind = "generate" => r.row # None /\ r.row.feedback = Placeholder
    PROVE  RegisterInv' /\ PagesStay
<1>1. FilesHold' /\ Grows
    BY FilesStay DEF RegisterInv
<1>2. CallHolds(r)'
    BY CallBecomes DEF CallHolds, Decided
<1> QED
    BY <1>1, <1>2, ServedHolds

LEMMA ReadKeepsRegister ==
    ASSUME RegisterInv, NEW c \in Calls,
           read_assignment_report(c) \/ track(c) \/ read_previous(c) \/ read_for_review(c)
    PROVE  RegisterInv' /\ PagesStay
<1>0. /\ call[c] \in PageCalls /\ CallHolds(call[c]) /\ call[c].kind # "none" /\ call[c].name \in Names
      /\ UNCHANGED << delivering, received, selected, register, cli, writes, tab >>
    BY CallBecomes DEF CallHolds, read_assignment_report, track, read_previous, read_for_review, Serve
<1>1. FilesHold' /\ Grows
    BY <1>0, FilesStay DEF RegisterInv
<1>2. register[call[c].name] \in ReportRows \cup {None}
      /\ (register[call[c].name] # None => Decided(register[call[c].name]))
    BY <1>0 DEF RegisterInv, FilesHold
<1>3. CASE read_assignment_report(c)
    BY <1>0, <1>1, <1>3, ReplyHolds DEF read_assignment_report
<1>4. CASE track(c)
  <2>1. PICK row \in track_assignments :
           call' = [call EXCEPT ![c].pc = "tracked",
                                ![c].row = [package |-> row.package, status |-> row.status,
                                            feedback |-> Placeholder, whole |-> TRUE, write |-> 0]]
    BY <1>4 DEF track
  <2> DEFINE new == [package |-> row.package, status |-> row.status,
                     feedback |-> Placeholder, whole |-> TRUE, write |-> 0]
             r == [call[c] EXCEPT !.pc = "tracked", !.row = new]
  <2>2. new \in ReportRows /\ new # None /\ new.feedback = Placeholder
    BY ComputedRow, NoneIsNoRow DEF RegisterInv
  <2>3. call' = [call EXCEPT ![c] = r]
    BY <2>1, <1>0 DEF PageCalls, RegisterInv, PageRequestsHold
  <2> HIDE DEF new
  <2>4. /\ r \in PageCalls /\ r.kind = call[c].kind /\ r.tab = call[c].tab /\ r.name = call[c].name
        /\ r.fresh = call[c].fresh /\ r.before = call[c].before /\ r.row = new /\ r.pc = "tracked"
    BY <1>0, <2>2 DEF PageCalls
  <2>5. r.before # None => Decided(r.before)
    BY <1>0, <2>4 DEF CallHolds
  <2> HIDE DEF r
  <2> QED
    BY <1>0, <2>2, <2>3, <2>4, <2>5, GoesOn
<1>5. ASSUME call[c].kind = "review" => register[call[c].name] # None,
             call[c].kind = "generate" => call[c].pc = "tracked",
             call' = [call EXCEPT ![c].pc = "writing", ![c].before = register[call[c].name]]
      PROVE  RegisterInv' /\ PagesStay
  <2> DEFINE old == register[call[c].name]
             r == [call[c] EXCEPT !.pc = "writing", !.before = old]
  <2>3. call' = [call EXCEPT ![c] = r]
    BY <1>5, <1>0 DEF PageCalls, RegisterInv, PageRequestsHold
  <2>1. call[c].kind = "review" => old # None
    BY <1>5
  <2>2. call[c].kind = "generate" => call[c].row # None /\ call[c].row.feedback = Placeholder
    BY <1>0, <1>5 DEF CallHolds
  <2> HIDE DEF old
  <2>4. /\ r \in PageCalls /\ r.kind = call[c].kind /\ r.tab = call[c].tab /\ r.name = call[c].name
        /\ r.fresh = call[c].fresh /\ r.before = old /\ r.row = call[c].row /\ r.pc = "writing"
    BY <1>0, <1>2 DEF PageCalls, old
  <2>5. r.before # None => Decided(r.before)
    BY <1>2, <2>4 DEF old
  <2> HIDE DEF r
  <2> QED
    BY <1>0, <2>1, <2>2, <2>3, <2>4, <2>5, GoesOn
<1>6. ASSUME Reply(c, None) PROVE RegisterInv' /\ PagesStay
    BY <1>0, <1>1, <1>6, ReplyHolds DEF Readable
<1> QED
    BY <1>3, <1>4, <1>5, <1>6 DEF read_previous, read_for_review, Serve, Readable

LEMMA WriteKeepsRegister ==
    ASSUME RegisterInv, NEW c \in Calls, write_tracking_index(c) \/ review_assignment_ai_feedback(c)
    PROVE  RegisterInv' /\ PagesStay
<1>0. /\ call[c] \in PageCalls /\ CallHolds(call[c]) /\ call[c].kind # "none" /\ call[c].name \in Names
      /\ FilesHold
      /\ UNCHANGED << delivering, received, selected, cli, tab >> /\ writes' = writes + 1
    BY CallBecomes DEF CallHolds, write_tracking_index, review_assignment_ai_feedback, Serve, RegisterInv
<1> DEFINE n == call[c].name
<1>1. ASSUME NEW row \in ReportRows, Decided(row), row.write = writes + 1,
             register' = [register EXCEPT ![n] = row], Reply(c, row) \/ Reply(c, None)
      PROVE  RegisterInv' /\ PagesStay
  <2>1. FilesHold' /\ Grows /\ register'[n] = row
    BY <1>0, <1>1, WriteHolds
  <2> QED
    BY <1>0, <1>1, <2>1, ReplyHolds DEF Readable
<1>2. CASE write_tracking_index(c)
  <2> DEFINE fresh == call[c].row
             before == call[c].before
             new == [fresh EXCEPT !.feedback =
                        IF before = None THEN @ ELSE preserve_assignment_ai_feedback(before, fresh)]
             row == Stamped(new)
             torn == [row EXCEPT !.whole = FALSE]
  <2>1. fresh \in ReportRows /\ fresh.feedback = Placeholder
    BY <1>0, <1>2 DEF CallHolds, PageCalls, write_tracking_index, Serve
  <2>2. new \in ReportRows /\ Decided(new)
    <3>1. CASE before = None
      <4>1. new \in ReportRows /\ new.feedback = Placeholder
        BY <2>1, <3>1 DEF ReportRows
      <4> QED
        BY <4>1 DEF Decided, Placeholder
    <3>2. CASE before # None
      <4>1. before \in ReportRows /\ Decided(before)
        BY <1>0, <3>2 DEF CallHolds, PageCalls
      <4>2. new = [fresh EXCEPT !.feedback = preserve_assignment_ai_feedback(before, fresh)]
        BY <3>2
      <4> QED
        BY <2>1, <4>1, <4>2, PreservedRow
    <3> QED
      BY <3>1, <3>2
  <2>3. \/ register' = [register EXCEPT ![n] = row] /\ Reply(c, row)
        \/ register' = [register EXCEPT ![n] = torn] /\ Reply(c, None)
    BY <1>2 DEF write_tracking_index
  <2> HIDE DEF new
  <2>4. row \in ReportRows /\ Decided(row) /\ row.write = writes + 1
    BY <1>0, <2>2, StampedRow
  <2> HIDE DEF row
  <2>5. torn \in ReportRows /\ Decided(torn) /\ torn.write = writes + 1
    BY <2>4 DEF ReportRows, Decided
  <2> HIDE DEF torn
  <2> QED
    BY <1>1, <2>3, <2>4, <2>5
<1>3. CASE review_assignment_ai_feedback(c)
  <2> DEFINE new == review_feedback_in_register(call[c].before, call[c].decision)
             row == Stamped(new)
  <2>1. call[c].before \in ReportRows
    BY <1>0, <1>3 DEF CallHolds, PageCalls, review_assignment_ai_feedback, Serve
  <2>2. new \in ReportRows /\ Decided(new)
    BY <2>1, ReviewedRow
  <2>3. register' = [register EXCEPT ![n] = row] /\ Reply(c, row)
    BY <1>3 DEF review_assignment_ai_feedback
  <2> HIDE DEF new
  <2>4. row \in ReportRows /\ Decided(row) /\ row.write = writes + 1
    BY <1>0, <2>2, StampedRow
  <2> HIDE DEF row
  <2> QED
    BY <1>1, <2>3, <2>4
<1> QED
    BY <1>2, <1>3

-----------------------------------------------------------------------------
\* The pages.

\* A step that leaves the requests and the pages alone.
LEMMA PagesKeep ==
    ASSUME RegisterInv, FilesHold', Grows, UNCHANGED << delivering, call, tab >>
    PROVE  RegisterInv' /\ PagesStay
<1>1. ASSUME NEW c \in Calls PROVE CallHolds(call[c])'
    BY CallStays DEF RegisterInv, PageRequestsHold, CallHolds, Decided
<1>2. ASSUME NEW t \in Tabs PROVE ViewHolds(tab[t])'
    BY ViewStays DEF RegisterInv, PageRequestsHold, ViewHolds
<1>3. ASSUME NEW c \in Calls, call'[c].kind # "none" PROVE Fits(call[c], tab[call[c].tab])'
    BY <1>3 DEF RegisterInv, PageRequestsHold, Fits
<1>4. ASSUME NEW c \in Calls, NEW d \in Calls, Alone(call'[c], call'[d]) PROVE c = d
    BY <1>4 DEF RegisterInv, PageRequestsHold
<1>5. PagesStay
    BY DEF PagesStay, RegisterInv, PageRequestsHold, ViewHolds, Views, ReportRows
<1> QED
    BY <1>1, <1>2, <1>3, <1>4, <1>5 DEF RegisterInv, PageRequestsHold

LEMMA OthersKeepInv ==
    ASSUME RegisterInv,
           \/ deliver \/ (\E k \in 1 .. MaxPackage : select_final(k))
           \/ (\E n \in Names, d \in Decisions \cup {"apply"} : cli_read(n, d)) \/ cli_write
           \/ UNCHANGED registerVars
    PROVE  RegisterInv' /\ PagesStay
<1>1. UNCHANGED << delivering, call, tab >>
    BY DEF deliver, select_final, cli_read, cli_write, registerVars, registerState
<1>2. CASE deliver \/ (\E k \in 1 .. MaxPackage : select_final(k))
  <2>1. received' \in Nat /\ selected' \in Nat
    BY <1>2 DEF deliver, select_final, RegisterInv, FilesHold
  <2>2. UNCHANGED << register, writes, cli >>
    BY <1>2 DEF deliver, select_final
  <2>4. \A n \in Names : register[n] # None => register[n].write \in Nat
    BY DEF RegisterInv, FilesHold, ReportRows
  <2>3. FilesHold' /\ Grows
    BY <1>1, <2>1, <2>2, <2>4 DEF RegisterInv, FilesHold, Grows, Decided
  <2> QED
    BY <1>1, <2>3, PagesKeep
<1>3. ASSUME NEW n \in Names, NEW d \in Decisions \cup {"apply"}, cli_read(n, d)
      PROVE  RegisterInv' /\ PagesStay
  <2>1. register[n] \in ReportRows
    BY <1>3 DEF cli_read, Readable, RegisterInv, FilesHold
  <2> DEFINE row == IF d = "apply" THEN apply_feedback_to_register(register[n])
                    ELSE review_feedback_in_register(register[n], d)
  <2>2. row \in ReportRows /\ Decided(row)
    BY <2>1, ReviewedRow
  <2>3. /\ cli' = [name |-> n, row |-> row]
        /\ UNCHANGED << received, selected, register, writes >>
    BY <1>3 DEF cli_read
  <2> HIDE DEF row
  <2>4. \A m \in Names : register[m] # None => register[m].write \in Nat
    BY DEF RegisterInv, FilesHold, ReportRows
  <2>5. FilesHold' /\ Grows
    BY <1>1, <2>2, <2>3, <2>4 DEF RegisterInv, FilesHold, Grows, Decided
  <2> QED
    BY <1>1, <2>5, PagesKeep
<1>4. CASE cli_write
  <2>1. cli.name \in Names /\ cli.row \in ReportRows /\ Decided(cli.row) /\ FilesHold
    BY <1>4 DEF cli_write, RegisterInv, FilesHold
  <2>2. Stamped(cli.row) \in ReportRows /\ Decided(Stamped(cli.row)) /\ Stamped(cli.row).write = writes + 1
    BY <2>1, StampedRow
  <2>3. FilesHold' /\ Grows
    BY <1>4, <2>1, <2>2, WriteHolds DEF cli_write
  <2> QED
    BY <1>1, <2>3, PagesKeep
<1>5. CASE UNCHANGED registerVars
    BY <1>1, <1>5, FilesStay, PagesKeep DEF registerVars, registerState, RegisterInv
<1> QED
    BY <1>2, <1>3, <1>4, <1>5

\* The requests after a step of a page that asks nothing: some are dropped, some are
\* no longer its last.
LEMMA FewerCalls ==
    ASSUME RegisterInv, NEW f,
           \A d \in Calls : f[d] = call[d] \/ f[d] = NoCall \/ f[d] = [call[d] EXCEPT !.fresh = FALSE]
    PROVE  /\ \A d \in Calls : CallHolds(f[d]) /\ f[d] \in PageCalls
           /\ \A d, e \in Calls : Alone(f[d], f[e]) => d = e
           /\ \A d \in Calls : f[d].kind # "none" =>
                 /\ Fits(f[d], tab[f[d].tab])
                 /\ f[d].kind = call[d].kind /\ f[d].tab = call[d].tab
<1>1. ASSUME NEW d \in Calls
      PROVE  /\ CallHolds(f[d]) /\ f[d] \in PageCalls
             /\ f[d].kind # "none" =>
                   /\ f[d].kind = call[d].kind /\ f[d].tab = call[d].tab
                   /\ f[d].fresh => f[d] = call[d]
  <2>1. call[d] \in PageCalls /\ CallHolds(call[d])
    BY CallBecomes
  <2>2. CASE f[d] = call[d]
    BY <2>1, <2>2
  <2>3. CASE f[d] = NoCall
    <3>1. /\ NoCall \in PageCalls /\ NoCall.kind = "none" /\ NoCall.before = None
          /\ NoCall.pc = "free" /\ NoCall.fresh = FALSE
      BY DEF NoCall, PageCalls
    <3> QED
      BY <2>3, <3>1 DEF CallHolds
  <2>4. CASE f[d] = [call[d] EXCEPT !.fresh = FALSE]
    <3>1. /\ f[d] \in PageCalls /\ f[d].kind = call[d].kind /\ f[d].tab = call[d].tab
          /\ f[d].name = call[d].name /\ f[d].pc = call[d].pc /\ f[d].fresh = FALSE
          /\ f[d].row = call[d].row /\ f[d].before = call[d].before
      BY <2>1, <2>4 DEF PageCalls
    <3> QED
      BY <2>1, <3>1 DEF CallHolds
  <2> QED
    BY <2>2, <2>3, <2>4
<1>2. ASSUME NEW d \in Calls, NEW e \in Calls, Alone(f[d], f[e]) PROVE d = e
  <2>1. Alone(call[d], call[e])
    BY <1>1, <1>2 DEF Alone
  <2> QED
    BY <2>1 DEF RegisterInv, PageRequestsHold
<1>3. ASSUME NEW d \in Calls, f[d].kind # "none" PROVE Fits(f[d], tab[f[d].tab])
    BY <1>1, <1>3 DEF Fits, RegisterInv, PageRequestsHold
<1> QED
    BY <1>1, <1>2, <1>3

\* The requests f beside the page t that becomes p.
RequestsFit(f, t, p) ==
    /\ f \in [Calls -> PageCalls]
    /\ \A d \in Calls : CallHolds(f[d])
    /\ \A d, e \in Calls : Alone(f[d], f[e]) => d = e
    /\ \A d \in Calls : f[d].kind # "none" /\ f[d].tab = t =>
          Fits(f[d], p) /\ (f[d].kind = "generate" => p.generating)
    /\ \A d \in Calls : f[d].kind # "none" /\ f[d].tab # t =>
          /\ Fits(f[d], tab[f[d].tab])
          /\ f[d].kind = call[d].kind /\ f[d].tab = call[d].tab

\* The page t that becomes p does not go back, or has just been generated.
NotBack(t, p) ==
    /\ tab[t].shown # None /\ p.shown # None /\ p.name = tab[t].name
    /\ p.shown.write < tab[t].shown.write
    => tab[t].generating /\ ~p.generating

\* A step of a page: what it shows fits the file and the answers still to come.
LEMMA PageStep ==
    ASSUME RegisterInv, UNCHANGED << delivering, received, selected, register, cli, writes >>,
           NEW t \in Tabs, NEW p, ViewHolds(p), tab' = [tab EXCEPT ![t] = p],
           NEW f, call' = f, RequestsFit(f, t, p), NotBack(t, p)
    PROVE  RegisterInv' /\ PagesStay
<1> USE DEF RequestsFit, NotBack
<1>1. FilesHold' /\ Grows
    BY FilesStay DEF RegisterInv
<1>2. /\ tab'[t] = p /\ \A u \in Tabs \ {t} : tab'[u] = tab[u]
      /\ tab' \in [Tabs -> Views]
    BY DEF RegisterInv, PageRequestsHold, ViewHolds
<1>3. ASSUME NEW d \in Calls PROVE CallHolds(call[d])'
    BY DEF CallHolds, Decided
<1>4. ASSUME NEW u \in Tabs PROVE ViewHolds(tab[u])'
    BY <1>2 DEF RegisterInv, PageRequestsHold, ViewHolds
<1>5. ASSUME NEW d \in Calls, call'[d].kind # "none"
      PROVE  Fits(call[d], tab[call[d].tab])' /\ (call'[d].kind = "generate" => tab'[call'[d].tab].generating)
  <2>1. call'[d] = f[d] /\ f[d].tab \in Tabs
    BY <1>5 DEF CallHolds
  <2>2. CASE f[d].tab = t
    BY <1>2, <1>5, <2>1, <2>2 DEF Fits
  <2>3. CASE f[d].tab # t
    <3>1. tab'[f[d].tab] = tab[f[d].tab]
      BY <1>2, <2>1, <2>3
    <3>2. f[d].kind = "generate" => tab[f[d].tab].generating
      BY <1>5, <2>1, <2>3 DEF RegisterInv, PageRequestsHold
    <3> QED
      BY <1>5, <2>1, <2>3, <3>1, <3>2 DEF Fits
  <2> QED
    BY <2>2, <2>3
<1>6. PagesStay
  <2> SUFFICES ASSUME NEW u \in Tabs, tab[u].shown # None, tab'[u].shown # None, tab'[u].name = tab[u].name,
                      tab'[u].shown.write < tab[u].shown.write
               PROVE  tab[u].generating /\ ~tab'[u].generating
    BY DEF PagesStay
  <2>1. CASE u = t
    BY <1>2, <2>1
  <2>2. CASE u # t
    BY <1>2, <2>2 DEF RegisterInv, PageRequestsHold, ViewHolds, Views, ReportRows
  <2> QED
    BY <2>1, <2>2
<1>7. \A d, e \in Calls : Alone(call[d], call[e])' => d = e
    BY DEF Alone
<1> QED
    BY <1>1, <1>2, <1>3, <1>4, <1>5, <1>6, <1>7 DEF RegisterInv, PageRequestsHold

\* A page whose selection, progress or emptiness changes.
LEMMA ViewChanges ==
    ASSUME RegisterInv, NEW t \in Tabs, NEW p \in Views,
           p.shown = None \/ (p.shown = tab[t].shown /\ p.name = tab[t].name)
    PROVE  /\ ViewHolds(p)
           /\ \A r : Fits(r, tab[t]) => Fits(r, p)
           /\ ~(/\ tab[t].shown # None /\ p.shown # None /\ p.name = tab[t].name
                /\ p.shown.write < tab[t].shown.write)
<1>1. ViewHolds(tab[t])
    BY DEF RegisterInv, PageRequestsHold
<1> QED
    BY <1>1 DEF ViewHolds, Fits, Views, ReportRows

LEMMA Invalidated ==
    ASSUME RegisterInv, NEW t
    PROVE  /\ \A d \in Calls : \/ invalidateReportLoads(call, t)[d] = call[d]
                               \/ invalidateReportLoads(call, t)[d] = [call[d] EXCEPT !.fresh = FALSE]
           /\ \A d \in Calls : call[d].tab = t => ~invalidateReportLoads(call, t)[d].fresh
<1>1. ASSUME NEW d \in Calls
      PROVE  invalidateReportLoads(call, t)[d] =
               IF call[d].tab = t THEN [call[d] EXCEPT !.fresh = FALSE] ELSE call[d]
    BY DEF invalidateReportLoads
<1>2. ASSUME NEW d \in Calls PROVE call[d] \in PageCalls
    BY CallBecomes
<1> QED
    BY <1>1, <1>2 DEF PageCalls

\* The page asks: the new request is its last, or the one that generates.
LEMMA AskHolds ==
    ASSUME RegisterInv, UNCHANGED << delivering, received, selected, register, cli, writes >>,
           NEW t \in Tabs, NEW p \in Views, p.shown = tab[t].shown, p.name = tab[t].name,
           tab' = [tab EXCEPT ![t] = p],
           NEW c \in Calls, call[c] = NoCall, NEW r \in PageCalls, r.tab = t, r.name \in Names,
           r.pc = "sent", r.before = None,
           \/ /\ r.kind \in {"load", "review"} /\ p.generating = tab[t].generating
              /\ call' = [invalidateReportLoads(call, t) EXCEPT ![c] = r]
           \/ /\ r.kind = "generate" /\ ~r.fresh /\ ~tab[t].generating /\ p.generating
              /\ call' = [call EXCEPT ![c] = r]
    PROVE  RegisterInv' /\ PagesStay
<1>0. PICK g : /\ call' = [g EXCEPT ![c] = r] /\ DOMAIN g = Calls
               /\ \A d \in Calls : g[d] = call[d] \/ g[d] = [call[d] EXCEPT !.fresh = FALSE]
               /\ r.kind \in {"load", "review"} => \A d \in Calls : call[d].tab = t => ~g[d].fresh
  <2>1. CASE r.kind \in {"load", "review"}
    <3> DEFINE h == invalidateReportLoads(call, t)
    <3>1. call' = [h EXCEPT ![c] = r] /\ DOMAIN h = Calls
      BY <2>1 DEF invalidateReportLoads
    <3>2. /\ \A d \in Calls : h[d] = call[d] \/ h[d] = [call[d] EXCEPT !.fresh = FALSE]
          /\ \A d \in Calls : call[d].tab = t => ~h[d].fresh
      BY Invalidated
    <3> HIDE DEF h
    <3> QED
      BY <3>1, <3>2
  <2>2. CASE r.kind = "generate"
    <3>1. call' = [call EXCEPT ![c] = r] /\ DOMAIN call = Calls
      BY <2>2 DEF RegisterInv, PageRequestsHold
    <3> QED
      BY <2>2, <3>1
  <2> QED
    BY <2>1, <2>2
<1> DEFINE f == [g EXCEPT ![c] = r]
<1>1. f[c] = r /\ \A d \in Calls \ {c} : f[d] = g[d]
    BY <1>0
<1>2. /\ \A d \in Calls : CallHolds(g[d]) /\ g[d] \in PageCalls
      /\ \A d, e \in Calls : Alone(g[d], g[e]) => d = e
      /\ \A d \in Calls : g[d].kind # "none" =>
            /\ Fits(g[d], tab[g[d].tab])
            /\ g[d].kind = call[d].kind /\ g[d].tab = call[d].tab
  <2>1. \A d \in Calls : g[d] = call[d] \/ g[d] = NoCall \/ g[d] = [call[d] EXCEPT !.fresh = FALSE]
    BY <1>0
  <2> HIDE <1>0
  <2> QED
    BY <2>1, FewerCalls
<1>3. CallHolds(r)
    BY DEF CallHolds
<1>4. f \in [Calls -> PageCalls] /\ call' = f
  <2>1. DOMAIN f = Calls /\ (\A d \in Calls : f[d] \in PageCalls) /\ f = [d \in Calls |-> f[d]]
    BY <1>0, <1>1, <1>2
  <2> QED
    BY <1>0, <2>1
<1> HIDE DEF f
<1>5. ASSUME NEW d \in Calls \ {c} PROVE ~Alone(r, f[d]) /\ ~Alone(f[d], r)
  <2>1. f[d] = g[d] /\ (g[d].kind # "none" => g[d].kind = call[d].kind /\ g[d].tab = call[d].tab)
        /\ CallHolds(g[d])
    BY <1>1, <1>2
  <2>2. CASE r.kind \in {"load", "review"}
    BY <1>0, <2>1, <2>2 DEF Alone
  <2>3. CASE r.kind = "generate"
    <3>1. ~r.fresh /\ ~tab[t].generating
      BY <2>3
    <3>2. call[d].kind = "generate" => tab[call[d].tab].generating
      BY DEF RegisterInv, PageRequestsHold
    <3> QED
      BY <2>1, <2>3, <3>1, <3>2 DEF Alone
  <2> QED
    BY <2>2, <2>3
<1>6. \A d, e \in Calls : Alone(f[d], f[e]) => d = e
    BY <1>1, <1>2, <1>5
<1>7. /\ ViewHolds(p)
      /\ \A s : Fits(s, tab[t]) => Fits(s, p)
      /\ ~(/\ tab[t].shown # None /\ p.shown # None /\ p.name = tab[t].name
           /\ p.shown.write < tab[t].shown.write)
    BY ViewChanges
<1>8. \A d \in Calls : f[d].kind # "none" /\ f[d].tab = t =>
              Fits(f[d], p) /\ (f[d].kind = "generate" => p.generating)
  <2> SUFFICES ASSUME NEW d \in Calls, f[d].kind # "none", f[d].tab = t
               PROVE  Fits(f[d], p) /\ (f[d].kind = "generate" => p.generating)
    OBVIOUS
  <2>1. CASE d = c
    BY <1>1, <2>1 DEF Fits
  <2>2. CASE d # c
    <3>1. f[d] = g[d] /\ Fits(g[d], tab[t]) /\ g[d].kind = call[d].kind /\ call[d].tab = t
      BY <1>1, <1>2, <2>2
    <3>2. g[d].kind = "generate" => tab[t].generating
      BY <3>1 DEF RegisterInv, PageRequestsHold
    <3> QED
      BY <1>7, <3>1, <3>2
  <2> QED
    BY <2>1, <2>2
<1>9. \A d \in Calls : f[d].kind # "none" /\ f[d].tab # t =>
              /\ Fits(f[d], tab[f[d].tab])
              /\ f[d].kind = call[d].kind /\ f[d].tab = call[d].tab
    BY <1>1, <1>2
<1>10. \A d \in Calls : CallHolds(f[d])
    BY <1>1, <1>2, <1>3
<1>11. RequestsFit(f, t, p) /\ NotBack(t, p)
    BY <1>4, <1>6, <1>7, <1>8, <1>9, <1>10 DEF RequestsFit, NotBack
<1> QED
    BY <1>4, <1>7, <1>11, PageStep

LEMMA LoadKeepsInv ==
    ASSUME RegisterInv, NEW t \in Tabs, NEW c \in Calls, NEW n \in Names, NEW requested \in BOOLEAN,
           load(t, c, n, requested)
    PROVE  RegisterInv' /\ PagesStay
<1> DEFINE p == [tab[t] EXCEPT !.select = n]
           r == [[NoCall EXCEPT !.kind = "load", !.tab = t, !.name = n, !.pc = "sent",
                                !.requested = requested] EXCEPT !.fresh = TRUE]
<1>0. tab[t] \in Views
    BY DEF RegisterInv, PageRequestsHold
<1>1. p \in Views /\ p.shown = tab[t].shown /\ p.name = tab[t].name /\ p.generating = tab[t].generating
    BY <1>0 DEF Views
<1>2. r \in PageCalls /\ r.tab = t /\ r.name = n /\ r.pc = "sent" /\ r.before = None /\ r.kind = "load"
    BY DEF NoCall, PageCalls
<1>3. tab' = [tab EXCEPT ![t] = p] /\ call[c] = NoCall /\ call' = [invalidateReportLoads(call, t) EXCEPT ![c] = r]
      /\ UNCHANGED << delivering, received, selected, register, cli, writes >>
    BY <1>0 DEF load, SendLast, Views, RegisterInv, PageRequestsHold
<1> HIDE DEF p, r
<1> QED
    BY <1>1, <1>2, <1>3, AskHolds

LEMMA GenerateKeepsInv ==
    ASSUME RegisterInv, NEW t \in Tabs, NEW c \in Calls, NEW n \in Names, generate(t, c, n)
    PROVE  RegisterInv' /\ PagesStay
<1> DEFINE p == [tab[t] EXCEPT !.generating = TRUE]
           r == [NoCall EXCEPT !.kind = "generate", !.tab = t, !.name = n, !.pc = "sent"]
<1>0. tab[t] \in Views
    BY DEF RegisterInv, PageRequestsHold
<1>1. p \in Views /\ p.shown = tab[t].shown /\ p.name = tab[t].name /\ p.generating
    BY <1>0 DEF Views
<1>2. r \in PageCalls /\ r.tab = t /\ r.name = n /\ r.pc = "sent" /\ r.before = None /\ r.kind = "generate" /\ ~r.fresh
    BY DEF NoCall, PageCalls
<1>3. tab' = [tab EXCEPT ![t] = p] /\ call[c] = NoCall /\ call' = [call EXCEPT ![c] = r] /\ ~tab[t].generating
      /\ UNCHANGED << delivering, received, selected, register, cli, writes >>
    BY <1>0 DEF generate, Send, Views, RegisterInv, PageRequestsHold
<1> HIDE DEF p, r
<1> QED
    BY <1>1, <1>2, <1>3, AskHolds

LEMMA DecideKeepsInv ==
    ASSUME RegisterInv, NEW t \in Tabs, NEW c \in Calls, NEW d \in Decisions, review_delivery(t, c, d)
    PROVE  RegisterInv' /\ PagesStay
<1> DEFINE p == [tab[t] EXCEPT !.pending = TRUE]
           r == [[NoCall EXCEPT !.kind = "review", !.tab = t, !.name = tab[t].name, !.pc = "sent",
                                !.decision = d] EXCEPT !.fresh = TRUE]
<1>0. tab[t] \in Views /\ tab[t].name \in Names
    BY DEF RegisterInv, PageRequestsHold, ViewHolds, review_delivery, Readable
<1>1. p \in Views /\ p.shown = tab[t].shown /\ p.name = tab[t].name /\ p.generating = tab[t].generating
    BY <1>0 DEF Views
<1>2. /\ r \in PageCalls /\ r.tab = t /\ r.name \in Names /\ r.pc = "sent" /\ r.before = None
      /\ r.kind = "review"
    BY <1>0 DEF NoCall, PageCalls
<1>3. tab' = [tab EXCEPT ![t] = p] /\ call[c] = NoCall /\ call' = [invalidateReportLoads(call, t) EXCEPT ![c] = r]
      /\ UNCHANGED << delivering, received, selected, register, cli, writes >>
    BY <1>0 DEF review_delivery, SendLast, Views, RegisterInv, PageRequestsHold
<1> HIDE DEF p, r
<1> QED
    BY <1>1, <1>2, <1>3, AskHolds

\* The page drops requests and shows less, the answer of the request it drops, or
\* what it showed.
LEMMA DropHolds ==
    ASSUME RegisterInv, UNCHANGED << delivering, received, selected, register, cli, writes >>,
           NEW t \in Tabs, NEW p, ViewHolds(p), tab' = [tab EXCEPT ![t] = p], NotBack(t, p),
           NEW f, f = [d \in Calls |-> f[d]], call' = f,
           \A d \in Calls : f[d] = call[d] \/ f[d] = NoCall \/ f[d] = [call[d] EXCEPT !.fresh = FALSE],
           \A d \in Calls : f[d].kind # "none" /\ call[d].tab = t =>
              Fits(f[d], p) /\ (call[d].kind = "generate" => p.generating)
    PROVE  RegisterInv' /\ PagesStay
<1>1. /\ \A d \in Calls : CallHolds(f[d]) /\ f[d] \in PageCalls
      /\ \A d, e \in Calls : Alone(f[d], f[e]) => d = e
      /\ \A d \in Calls : f[d].kind # "none" =>
            /\ Fits(f[d], tab[f[d].tab])
            /\ f[d].kind = call[d].kind /\ f[d].tab = call[d].tab
    BY FewerCalls
<1>2. f \in [Calls -> PageCalls]
    BY <1>1
<1>3. RequestsFit(f, t, p)
    BY <1>1, <1>2 DEF RequestsFit
<1> QED
    BY <1>3, PageStep

LEMMA DeselectKeepsInv ==
    ASSUME RegisterInv, NEW t \in Tabs, deselect(t)
    PROVE  RegisterInv' /\ PagesStay
<1> DEFINE p == [tab[t] EXCEPT !.select = None, !.name = None, !.shown = None]
           f == invalidateReportLoads(call, t)
<1>0. tab[t] \in Views /\ tab \in [Tabs -> Views]
    BY DEF RegisterInv, PageRequestsHold
<1>1. p \in Views /\ p.shown = None /\ p.generating = tab[t].generating
    BY <1>0 DEF Views
<1>2. /\ tab' = [tab EXCEPT ![t] = p] /\ call' = f
      /\ UNCHANGED << delivering, received, selected, register, cli, writes >>
    BY <1>0 DEF deselect
<1>3. /\ f = [d \in Calls |-> f[d]]
      /\ \A d \in Calls : f[d] = call[d] \/ f[d] = [call[d] EXCEPT !.fresh = FALSE]
    BY Invalidated DEF invalidateReportLoads
<1>4. \A d \in Calls : call[d].kind = "generate" => tab[call[d].tab].generating
    BY DEF RegisterInv, PageRequestsHold
<1> HIDE DEF p, f
<1>5. ViewHolds(p) /\ NotBack(t, p) /\ \A r : Fits(r, p)
    BY <1>1 DEF ViewHolds, NotBack, Fits
<1>6. \A d \in Calls : f[d] = call[d] \/ f[d] = NoCall \/ f[d] = [call[d] EXCEPT !.fresh = FALSE]
    BY <1>3
<1>7. \A d \in Calls : f[d].kind # "none" /\ call[d].tab = t =>
              Fits(f[d], p) /\ (call[d].kind = "generate" => p.generating)
    BY <1>1, <1>4, <1>5
<1> HIDE <1>3
<1> QED
    BY <1>2, <1>3, <1>5, <1>6, <1>7, DropHolds

\* An answer comes back: its request is dropped.
LEMMA Answered ==
    ASSUME RegisterInv, NEW c \in Calls, call[c].kind # "none",
           UNCHANGED << delivering, received, selected, register, cli, writes >>,
           NEW p, ViewHolds(p), tab' = [tab EXCEPT ![call[c].tab] = p], NotBack(call[c].tab, p),
           p.generating = tab[call[c].tab].generating \/ call[c].kind = "generate",
           \/ /\ call' = [call EXCEPT ![c] = NoCall]
              /\ \/ \A r : Fits(r, tab[call[c].tab]) => Fits(r, p)
                 \/ call[c].fresh
           \/ call' = [invalidateReportLoads(call, call[c].tab) EXCEPT ![c] = NoCall]
    PROVE  RegisterInv' /\ PagesStay
<1> DEFINE t == call[c].tab
<1>0. /\ call[c] \in PageCalls /\ t \in Tabs /\ DOMAIN call = Calls
    BY CallBecomes DEF CallHolds, RegisterInv, PageRequestsHold
<1>1. PICK g : /\ call' = [g EXCEPT ![c] = NoCall] /\ DOMAIN g = Calls
               /\ \A d \in Calls : g[d] = call[d] \/ g[d] = [call[d] EXCEPT !.fresh = FALSE]
               /\ \/ \A r : Fits(r, tab[t]) => Fits(r, p)
                  \/ call[c].fresh
                  \/ \A d \in Calls : call[d].tab = t => ~g[d].fresh
  <2>1. CASE call' = [call EXCEPT ![c] = NoCall] /\ ((\A r : Fits(r, tab[t]) => Fits(r, p)) \/ call[c].fresh)
    BY <1>0, <2>1
  <2>2. CASE call' = [invalidateReportLoads(call, t) EXCEPT ![c] = NoCall]
    <3> DEFINE h == invalidateReportLoads(call, t)
    <3>1. call' = [h EXCEPT ![c] = NoCall] /\ DOMAIN h = Calls
      BY <2>2 DEF invalidateReportLoads
    <3>2. /\ \A d \in Calls : h[d] = call[d] \/ h[d] = [call[d] EXCEPT !.fresh = FALSE]
          /\ \A d \in Calls : call[d].tab = t => ~h[d].fresh
      BY Invalidated
    <3> HIDE DEF h
    <3> QED
      BY <3>1, <3>2
  <2> QED
    BY <2>1, <2>2
<1> DEFINE f == [g EXCEPT ![c] = NoCall]
<1>2. f[c] = NoCall /\ NoCall.kind = "none" /\ f = [d \in Calls |-> f[d]] /\ call' = f
      /\ \A d \in Calls \ {c} : f[d] = g[d]
    BY <1>1 DEF NoCall
<1> HIDE DEF f
<1>3. \A d \in Calls : f[d] = call[d] \/ f[d] = NoCall \/ f[d] = [call[d] EXCEPT !.fresh = FALSE]
    BY <1>1, <1>2
<1>31. \A d \in Calls : f[d].kind # "none" => /\ Fits(f[d], tab[f[d].tab])
                                            /\ f[d].kind = call[d].kind /\ f[d].tab = call[d].tab
    BY <1>3, FewerCalls, ZenonT(60)
<1>4. ASSUME NEW d \in Calls, f[d].kind # "none", call[d].tab = t
      PROVE  Fits(f[d], p) /\ (call[d].kind = "generate" => p.generating)
  <2>1. d # c /\ f[d] = g[d]
    BY <1>2, <1>4
  <2>2. call[d] \in PageCalls
    BY CallBecomes
  <2>3. Fits(f[d], tab[t]) /\ f[d].kind = call[d].kind
    BY <1>31, <1>4
  <2>4. call[c].fresh => ~call[d].fresh
    BY <1>4, <2>1, <2>3 DEF RegisterInv, PageRequestsHold, Alone
  <2>5. call[c].fresh => ~f[d].fresh
    BY <1>1, <2>1, <2>2, <2>4 DEF PageCalls
  <2>6. Fits(f[d], p)
    BY <1>1, <1>4, <2>1, <2>3, <2>5 DEF Fits
  <2>7. call[d].kind = "generate" => p.generating
    <3>1. ASSUME call[d].kind = "generate" PROVE tab[t].generating /\ call[c].kind # "generate"
      BY <1>4, <2>1, <3>1 DEF RegisterInv, PageRequestsHold, Alone
    <3> QED
      BY <3>1
  <2> QED
    BY <2>6, <2>7
<1> QED
    BY <1>0, <1>2, <1>3, <1>4, DropHolds, ZenonT(60)

\* A page that keeps its register, or none.
LEMMA LostAnswer ==
    ASSUME RegisterInv, NEW c \in Calls, call[c].kind # "none",
           UNCHANGED << delivering, received, selected, register, cli, writes >>,
           call' = [call EXCEPT ![c] = NoCall],
           NEW p \in Views, p.shown = None \/ (p.shown = tab[call[c].tab].shown /\ p.name = tab[call[c].tab].name),
           p.generating = tab[call[c].tab].generating \/ call[c].kind = "generate",
           tab' = [tab EXCEPT ![call[c].tab] = p]
    PROVE  RegisterInv' /\ PagesStay
<1>0. call[c].tab \in Tabs
    BY CallBecomes DEF CallHolds
<1>1. ViewHolds(p) /\ NotBack(call[c].tab, p) /\ \A r : Fits(r, tab[call[c].tab]) => Fits(r, p)
    BY <1>0, ViewChanges DEF NotBack
<1> QED
    BY <1>1, Answered

\* The page shows the answer.
LEMMA ShownAnswer ==
    ASSUME RegisterInv, NEW c \in Calls, call[c].kind # "none", call[c].pc = "ok",
           UNCHANGED << delivering, received, selected, register, cli, writes >>,
           NEW p \in Views, p.shown = call[c].row, p.name = call[c].name,
           tab' = [tab EXCEPT ![call[c].tab] = p],
           \/ /\ call[c].fresh /\ p.generating = tab[call[c].tab].generating
              /\ call' = [call EXCEPT ![c] = NoCall]
           \/ /\ call[c].kind = "generate" /\ ~p.generating
              /\ call' = [invalidateReportLoads(call, call[c].tab) EXCEPT ![c] = NoCall]
    PROVE  RegisterInv' /\ PagesStay
<1>0. call[c].tab \in Tabs /\ call[c].name \in Names /\ CallHolds(call[c]) /\ FilesHold
      /\ Fits(call[c], tab[call[c].tab]) /\ ViewHolds(tab[call[c].tab])
      /\ (call[c].kind = "generate" => tab[call[c].tab].generating)
    BY CallBecomes DEF CallHolds, RegisterInv, PageRequestsHold
<1>1. ViewHolds(p)
    BY <1>0 DEF ViewHolds, CallHolds
<1>2. NotBack(call[c].tab, p)
    BY <1>0 DEF NotBack, Fits, Views, ReportRows, ViewHolds
<1> QED
    BY <1>1, <1>2, Answered

LEMMA AnswerKeepsRegister ==
    ASSUME RegisterInv, NEW c \in Calls, loaded(c) \/ generated(c) \/ reviewed(c)
    PROVE  RegisterInv' /\ PagesStay
<1> DEFINE t == call[c].tab
           old == tab[t]
<1>0. /\ call[c].kind # "none" /\ t \in Tabs /\ call[c].name \in Names /\ old \in Views
      /\ call[c] \in PageCalls /\ tab \in [Tabs -> Views]
      /\ UNCHANGED << delivering, received, selected, register, cli, writes >>
      /\ call[c].pc = "ok" => call[c].row \in ReportRows
    BY CallBecomes DEF CallHolds, PageCalls, RegisterInv, PageRequestsHold,
       loaded, generated, reviewed, Back, Outcome
<1>1. CASE loaded(c)
  <2> DEFINE p == [old EXCEPT !.shown = call[c].row, !.name = call[c].name]
             q == [old EXCEPT !.shown = None, !.name = None, !.select = None]
  <2>1. /\ call' = [call EXCEPT ![c] = NoCall]
        /\ \/ tab' = tab
           \/ call[c].pc = "ok" /\ call[c].fresh /\ tab' = [tab EXCEPT ![t] = p]
           \/ tab' = [tab EXCEPT ![t] = q]
    BY <1>0, <1>1 DEF loaded, Outcome, Current
  <2>2. CASE tab' = tab
    <3>1. tab' = [tab EXCEPT ![t] = old]
      BY <1>0, <2>2
    <3> QED
      BY <1>0, <2>1, <3>1, LostAnswer
  <2>3. CASE call[c].pc = "ok" /\ call[c].fresh /\ tab' = [tab EXCEPT ![t] = p]
    <3>1. p \in Views /\ p.shown = call[c].row /\ p.name = call[c].name /\ p.generating = old.generating
      BY <1>0, <2>3 DEF Views
    <3> HIDE DEF p
    <3> QED
      BY <1>0, <2>1, <2>3, <3>1, ShownAnswer
  <2>4. CASE tab' = [tab EXCEPT ![t] = q]
    <3>1. q \in Views /\ q.shown = None /\ q.generating = old.generating
      BY <1>0 DEF Views
    <3> HIDE DEF q
    <3> QED
      BY <1>0, <2>1, <2>4, <3>1, LostAnswer
  <2> QED
    BY <2>1, <2>2, <2>3, <2>4
<1>2. CASE generated(c)
  <2> DEFINE p == [old EXCEPT !.shown = call[c].row, !.name = call[c].name,
                              !.select = call[c].name, !.generating = FALSE]
             q == [old EXCEPT !.generating = FALSE]
             shorter == [invalidateReportLoads(call, t) EXCEPT ![c] = NoCall]
  <2>0. call[c].kind = "generate" /\ faults \in {faults}
    BY <1>2 DEF generated, Back
  <2>1. \/ /\ call[c].pc = "ok" /\ tab' = [tab EXCEPT ![t] = p] /\ faults' = faults
           /\ call' = shorter
        \/ /\ tab' = [tab EXCEPT ![t] = q]
           /\ call' = [call EXCEPT ![c] = NoCall] \/ call' = shorter
    BY <1>0, <1>2 DEF generated, Outcome, NoFault
  <2>2. CASE call[c].pc = "ok" /\ tab' = [tab EXCEPT ![t] = p] /\ call' = shorter
    <3>1. p \in Views /\ p.shown = call[c].row /\ p.name = call[c].name /\ ~p.generating
      BY <1>0, <2>2 DEF Views
    <3> HIDE DEF p
    <3> QED
      BY <1>0, <2>0, <2>2, <3>1, ShownAnswer
  <2>3. ASSUME tab' = [tab EXCEPT ![t] = q], call' = [call EXCEPT ![c] = NoCall] \/ call' = shorter
        PROVE  RegisterInv' /\ PagesStay
    <3>1. q \in Views /\ q.shown = old.shown /\ q.name = old.name
      BY <1>0 DEF Views
    <3> HIDE DEF q
    <3>2. ViewHolds(q) /\ NotBack(t, q) /\ \A r : Fits(r, old) => Fits(r, q)
      BY <1>0, <3>1, ViewChanges DEF NotBack
    <3> QED
      BY <1>0, <2>0, <2>3, <3>2, Answered
  <2> QED
    BY <2>1, <2>2, <2>3
<1>3. CASE reviewed(c)
  <2> DEFINE p == [old EXCEPT !.shown = call[c].row, !.pending = FALSE]
             q == [old EXCEPT !.pending = FALSE]
  <2>1. /\ call' = [call EXCEPT ![c] = NoCall]
        /\ \/ /\ call[c].pc = "ok" /\ call[c].fresh /\ old.name = call[c].name
              /\ tab' = [tab EXCEPT ![t] = p]
           \/ tab' = [tab EXCEPT ![t] = q]
    BY <1>0, <1>3 DEF reviewed, Outcome, Current
  <2>2. CASE call[c].pc = "ok" /\ call[c].fresh /\ old.name = call[c].name /\ tab' = [tab EXCEPT ![t] = p]
    <3>1. p \in Views /\ p.shown = call[c].row /\ p.name = call[c].name /\ p.generating = old.generating
      BY <1>0, <2>2 DEF Views
    <3> HIDE DEF p
    <3> QED
      BY <1>0, <2>1, <2>2, <3>1, ShownAnswer
  <2>3. CASE tab' = [tab EXCEPT ![t] = q]
    <3>1. q \in Views /\ q.shown = old.shown /\ q.name = old.name /\ q.generating = old.generating
      BY <1>0 DEF Views
    <3> HIDE DEF q
    <3> QED
      BY <1>0, <2>1, <2>3, <3>1, LostAnswer
  <2> QED
    BY <2>1, <2>2, <2>3
<1> QED
    BY <1>1, <1>2, <1>3

LEMMA RegisterStart == RegisterInit => RegisterInv
<1> SUFFICES ASSUME RegisterInit PROVE RegisterInv
    OBVIOUS
<1>1. FilesHold
  <2>1. Unsent \in ReportRows /\ Decided(Unsent) /\ Unsent.write = 0
    BY DEF Unsent, ReportRows, Decided
  <2> QED
    BY <2>1 DEF RegisterInit, FilesHold
<1>2. Blank \in Views /\ Blank.shown = None
    BY DEF Blank, Views
<1>3. /\ NoCall \in PageCalls /\ NoCall.kind = "none" /\ NoCall.before = None
    BY DEF NoCall, PageCalls
<1>4. CallHolds(NoCall) /\ ViewHolds(Blank)
    BY <1>2, <1>3 DEF CallHolds, ViewHolds
<1> QED
    BY <1>1, <1>2, <1>3, <1>4 DEF RegisterInit, RegisterInv, PageRequestsHold, Alone

LEMMA RegisterStep == RegisterInv /\ [RegisterNext]_registerVars => RegisterInv' /\ PagesStay
<1> SUFFICES ASSUME RegisterInv, [RegisterNext]_registerVars PROVE RegisterInv' /\ PagesStay
    OBVIOUS
<1> QED
    BY OthersKeepInv, LoadKeepsInv, GenerateKeepsInv, DeselectKeepsInv, DecideKeepsInv, ReadKeepsRegister,
       WriteKeepsRegister, AnswerKeepsRegister DEF RegisterNext

LEMMA DecidedRows == RegisterInv => DecisionIsForThisDelivery
    BY DEF RegisterInv, FilesHold, Decided, DecisionIsForThisDelivery, Readable

\* A decision stands beside the delivery it was taken for, whoever writes the register
\* last and in whatever order, and a page goes back to an older content only when its own
\* generate request answers late.
THEOREM RegistersAreCurrentAlways == RegisterSpec => RegistersAreCurrent
<1> DEFINE Step == /\ DecisionIsForThisDelivery'
                   /\ \A t \in Tabs :
                        /\ tab[t].shown # None /\ tab'[t].shown # None
                        /\ tab'[t].name = tab[t].name
                        /\ tab'[t].shown.write < tab[t].shown.write
                        => tab[t].generating /\ ~tab'[t].generating
<1>1. RegisterInv /\ [RegisterNext]_registerVars => RegisterInv' /\ Step
  <2>1. RegisterInv' => DecisionIsForThisDelivery'
    BY DecidedRows, PTL
  <2> QED
    BY <2>1, RegisterStep DEF PagesStay
<1>2. RegisterInv /\ [RegisterNext]_registerVars => RegisterInv'
    BY <1>1
<1>3. RegisterInv /\ [RegisterNext]_registerVars => [Step]_registerVars
    BY <1>1
<1> QED
    BY <1>2, <1>3, RegisterStart, PTL DEF RegisterSpec, RegistersAreCurrent

-----------------------------------------------------------------------------
(***************************************************************************)
(* Records and distributions of assignments (Assigning)                     *)
(***************************************************************************)

PageRequests == [kind : {"none", "save", "distribute", "delete"}, form : Forms \cup {None},
             id : Ids \cup {None}, pc : {"none", "sent", "ok", "error"}, fresh : BOOLEAN]

Wizards == [form : Forms, recordSaved : BOOLEAN, distributed : BOOLEAN, listed : SUBSET Forms,
            chosen : Ids \cup {None}, confirm : PageRequests, delete : PageRequests,
            rosters : SUBSET Labels, stored : Forms \cup {None}, sent : Forms \cup {None}]

\* An answer that may still confirm a page is of the form that the page shows.
WizardHolds(w) ==
    /\ w.recordSaved => w.form = w.stored
    /\ w.distributed => w.form = w.sent
    /\ w.confirm.pc = "sent" => w.confirm.form \in Forms
    /\ w.confirm.fresh /\ w.confirm.pc \in {"sent", "ok"} => w.confirm.form = w.form
    /\ w.delete.pc = "sent" => w.delete.id \in Ids

PagesHold == page \in [Pages -> Wizards] /\ \A p \in Pages : WizardHolds(page[p])

\* The bindings of any two records together, of one record too, are unambiguous.
RecordsHold ==
    /\ recordOf \in [Ids -> Forms \cup {None}]
    /\ \A i, j \in Ids : recordOf[i] # None /\ recordOf[j] # None =>
          ~Ambiguous(assignment_target_bindings(recordOf[i]) \cup assignment_target_bindings(recordOf[j]))

AssigningInv == PagesHold /\ RecordsHold

LEMMA ListedAreForms == ASSUME RecordsHold PROVE Listed \in SUBSET Forms
    BY DEF RecordsHold, Listed

LEMMA NoRequestTyped == NoRequest \in PageRequests
    BY DEF NoRequest, PageRequests

\* A page that moves to a wizard that holds.
LEMMA BecomesHolds ==
    ASSUME PagesHold, NEW p \in Pages, NEW w \in Wizards, WizardHolds(w), page' = [page EXCEPT ![p] = w]
    PROVE  PagesHold'
    BY DEF PagesHold, WizardHolds

LEMMA WizardStays ==
    ASSUME PagesHold, NEW p \in Pages
    PROVE  page[p] \in Wizards /\ WizardHolds(page[p])
    BY DEF PagesHold

\* A change of the form leaves no confirmation standing and none to come.
LEMMA ResetHolds ==
    ASSUME NEW w \in Wizards, w.delete.pc = "sent" => w.delete.id \in Ids,
           w.confirm.pc = "sent" => w.confirm.form \in Forms
    PROVE  resetAssignmentConfirmStatus(w) \in Wizards /\ WizardHolds(resetAssignmentConfirmStatus(w))
<1> DEFINE c == [w.confirm EXCEPT !.fresh = FALSE, !.form = IF w.confirm.pc = "ok" THEN None ELSE @]
           v == [w EXCEPT !.recordSaved = FALSE, !.distributed = FALSE, !.confirm = c,
                          !.stored = None, !.sent = None]
<1>1. c \in PageRequests /\ c.pc = w.confirm.pc /\ c.fresh = FALSE
      /\ (c.pc # "ok" => c.form = w.confirm.form)
    BY DEF Wizards, PageRequests
<1>2. resetAssignmentConfirmStatus(w) = v
    BY DEF resetAssignmentConfirmStatus, Wizards, PageRequests
<1> HIDE DEF c
<1>3. v \in Wizards /\ v.confirm = c /\ v.delete = w.delete /\ v.recordSaved = FALSE /\ v.distributed = FALSE
    BY <1>1 DEF Wizards
<1> HIDE DEF v
<1>4. WizardHolds(v)
    BY <1>1, <1>3 DEF WizardHolds
<1> QED
    BY <1>2, <1>3, <1>4

LEMMA FormStep ==
    ASSUME AssigningInv, NEW p \in Pages, NEW w \in Wizards,
           w.delete.pc = "sent" => w.delete.id \in Ids,
           w.confirm.pc = "sent" => w.confirm.form \in Forms,
           Becomes(p, resetAssignmentConfirmStatus(w))
    PROVE  AssigningInv'
<1>1. PagesHold'
    BY ResetHolds, BecomesHolds DEF Becomes, AssigningInv
<1> QED
    BY <1>1 DEF AssigningInv, RecordsHold, Becomes

LEMMA FormKeepsRecords ==
    ASSUME AssigningInv, NEW p \in Pages
    PROVE  /\ \A form \in Forms : change(p, form) => AssigningInv'
           /\ \A a \in Activities : selectCoverageActivity(p, a) => AssigningInv'
           /\ \A form \in page[p].listed : applyAssignmentToGenerateForm(p, form) => AssigningInv'
           /\ \A l \in Labels : applyRosterToGenerateForm(p, l) => AssigningInv'
           /\ deleted(p) => AssigningInv'
<1>0. page[p] \in Wizards /\ WizardHolds(page[p])
    BY WizardStays DEF AssigningInv
<1>00. /\ page[p].delete.pc = "sent" => page[p].delete.id \in Ids
       /\ page[p].confirm.pc = "sent" => page[p].confirm.form \in Forms
    BY <1>0 DEF WizardHolds
<1>1. ASSUME NEW form \in Forms, change(p, form) PROVE AssigningInv'
  <2> DEFINE w == [page[p] EXCEPT !.form = form, !.chosen = None]
  <2>1. w \in Wizards /\ w.delete = page[p].delete /\ w.confirm = page[p].confirm
    BY <1>0 DEF Wizards
  <2>2. Becomes(p, resetAssignmentConfirmStatus(w))
    BY <1>1 DEF change
  <2> HIDE DEF w
  <2> QED
    BY <1>00, <2>1, <2>2, FormStep
<1>2. ASSUME NEW a \in Activities, selectCoverageActivity(p, a) PROVE AssigningInv'
  <2> DEFINE w == [page[p] EXCEPT !.form.activity = a]
  <2>1. w \in Wizards /\ w.delete = page[p].delete /\ w.confirm = page[p].confirm
    BY <1>0 DEF Wizards, Forms
  <2>2. Becomes(p, resetAssignmentConfirmStatus(w))
    BY <1>2 DEF selectCoverageActivity
  <2> HIDE DEF w
  <2> QED
    BY <1>00, <2>1, <2>2, FormStep
<1>3. ASSUME NEW form \in page[p].listed, applyAssignmentToGenerateForm(p, form) PROVE AssigningInv'
  <2> DEFINE w == [page[p] EXCEPT !.form = form, !.chosen = build_assignment_id(form)]
  <2>0. form \in Forms /\ build_assignment_id(form) \in Ids
    BY <1>0 DEF Wizards, Forms, build_assignment_id, Ids
  <2>1. w \in Wizards /\ w.delete = page[p].delete /\ w.confirm = page[p].confirm
    BY <1>0, <2>0 DEF Wizards
  <2>2. Becomes(p, resetAssignmentConfirmStatus(w))
    BY <1>3 DEF applyAssignmentToGenerateForm
  <2> HIDE DEF w
  <2> QED
    BY <1>00, <2>1, <2>2, FormStep
<1>4. ASSUME NEW l \in Labels, applyRosterToGenerateForm(p, l) PROVE AssigningInv'
  <2> DEFINE w == [page[p] EXCEPT !.rosters = @ \ {l}, !.chosen = None,
                                  !.form.label = l, !.form.targets = Roster[l]]
  <2>1. w \in Wizards /\ w.delete = page[p].delete /\ w.confirm = page[p].confirm
    BY <1>0, RosterAssumption DEF Wizards, Forms
  <2>2. Becomes(p, resetAssignmentConfirmStatus(w))
    BY <1>4 DEF applyRosterToGenerateForm
  <2> HIDE DEF w
  <2> QED
    BY <1>00, <2>1, <2>2, FormStep
<1>5. ASSUME deleted(p) PROVE AssigningInv'
  <2> DEFINE w == [page[p] EXCEPT !.delete = NoRequest, !.chosen = None, !.listed = Listed]
  <2>1. w \in Wizards /\ w.delete = NoRequest /\ w.confirm = page[p].confirm
    BY <1>0, ListedAreForms, NoRequestTyped DEF Wizards, AssigningInv
  <2>2. Becomes(p, resetAssignmentConfirmStatus(w))
    BY <1>5 DEF deleted
  <2> HIDE DEF w
  <2> QED
    BY <1>00, <2>1, <2>2, FormStep DEF NoRequest
<1> QED
    BY <1>1, <1>2, <1>3, <1>4, <1>5

\* Asking for a roster and the three buttons.
LEMMA AskingKeepsRecords ==
    ASSUME AssigningInv, NEW p \in Pages,
           \/ \E l \in Labels : loadSelectedClassRoster(p, l)
           \/ saveAssignmentRecord(p) \/ distributeAssignment(p) \/ deleteSelectedAssignment(p)
    PROVE  AssigningInv'
<1>0. page[p] \in Wizards /\ WizardHolds(page[p])
    BY WizardStays DEF AssigningInv
<1>r. RecordsHold'
    BY DEF AssigningInv, RecordsHold, Becomes, loadSelectedClassRoster, saveAssignmentRecord,
           distributeAssignment, deleteSelectedAssignment
<1>1. ASSUME NEW l \in Labels, loadSelectedClassRoster(p, l) PROVE PagesHold'
  <2> DEFINE w == [page[p] EXCEPT !.rosters = @ \cup {l}]
  <2>1. w \in Wizards /\ WizardHolds(w)
    BY <1>0 DEF Wizards, WizardHolds
  <2> QED
    BY <1>1, <2>1, BecomesHolds DEF loadSelectedClassRoster, Becomes, AssigningInv
<1>2. CASE saveAssignmentRecord(p)
  <2> DEFINE c == Asking("save", page[p].form, None)
             w == [page[p] EXCEPT !.recordSaved = FALSE, !.distributed = FALSE,
                                  !.stored = None, !.sent = None, !.confirm = c]
  <2>1. c \in PageRequests /\ c.form = page[p].form /\ c.form \in Forms
    BY <1>0 DEF Asking, PageRequests, Wizards
  <2>3. page' = [page EXCEPT ![p] = w]
    BY <1>2 DEF saveAssignmentRecord, Becomes
  <2> HIDE DEF c
  <2>2. w \in Wizards /\ WizardHolds(w)
    BY <1>0, <2>1 DEF Wizards, WizardHolds
  <2> QED
    BY <1>r, <2>2, <2>3, BecomesHolds DEF AssigningInv
<1>3. CASE distributeAssignment(p)
  <2> DEFINE c == Asking("distribute", page[p].form, None)
             w == [page[p] EXCEPT !.confirm = c]
  <2>1. c \in PageRequests /\ c.form = page[p].form /\ c.form \in Forms
    BY <1>0 DEF Asking, PageRequests, Wizards
  <2>3. page' = [page EXCEPT ![p] = w]
    BY <1>3 DEF distributeAssignment, Becomes
  <2> HIDE DEF c
  <2>2. w \in Wizards /\ WizardHolds(w)
    BY <1>0, <2>1 DEF Wizards, WizardHolds
  <2> QED
    BY <1>r, <2>2, <2>3, BecomesHolds DEF AssigningInv
<1>4. CASE deleteSelectedAssignment(p)
  <2> DEFINE c == Asking("delete", None, page[p].chosen)
             w == [page[p] EXCEPT !.delete = c]
  <2>1. c \in PageRequests /\ c.id \in Ids
    BY <1>0, <1>4 DEF Asking, PageRequests, Wizards, deleteSelectedAssignment
  <2>3. page' = [page EXCEPT ![p] = w]
    BY <1>4 DEF deleteSelectedAssignment, Becomes
  <2> HIDE DEF c
  <2>2. w \in Wizards /\ WizardHolds(w)
    BY <1>0, <2>1 DEF Wizards, WizardHolds
  <2> QED
    BY <1>r, <2>2, <2>3, BecomesHolds DEF AssigningInv
<1> QED
    BY <1>r, <1>1, <1>2, <1>3, <1>4 DEF AssigningInv

-----------------------------------------------------------------------------
LEMMA StoreKeepsRecords ==
    ASSUME RecordsHold, NEW form \in Forms, NEW overwrite \in BOOLEAN, CanSave(form, overwrite),
           recordOf' = [recordOf EXCEPT ![build_assignment_id(form)] = form]
    PROVE  RecordsHold'
<1> DEFINE id == build_assignment_id(form)
           b(f) == assignment_target_bindings(f)
<1>1. id \in Ids
    BY DEF build_assignment_id, Ids, Forms
<1>2. ~Ambiguous(b(form))
      /\ \A i \in Ids \ {id} : recordOf[i] # None => ~Ambiguous(b(form) \cup b(recordOf[i]))
    BY DEF CanSave, validate_global_assignment_target_bindings
<1>3. recordOf' \in [Ids -> Forms \cup {None}] /\ recordOf'[id] = form
      /\ \A i \in Ids \ {id} : recordOf'[i] = recordOf[i]
    BY <1>1 DEF RecordsHold
<1>4. ASSUME NEW i \in Ids, NEW j \in Ids, recordOf'[i] # None, recordOf'[j] # None
      PROVE  ~Ambiguous(b(recordOf'[i]) \cup b(recordOf'[j]))
  <2> HIDE DEF id, b
  <2>1. CASE i = id /\ j = id
    <3>1. b(form) \cup b(form) = b(form)
      OBVIOUS
    <3> QED
      BY <1>2, <1>3, <2>1, <3>1
  <2>2. CASE i = id /\ j # id
    BY <1>2, <1>3, <1>4, <2>2
  <2>3. CASE i # id /\ j = id
    <3>1. b(recordOf[i]) \cup b(form) = b(form) \cup b(recordOf[i])
      OBVIOUS
    <3> QED
      BY <1>2, <1>3, <1>4, <2>3, <3>1
  <2>4. CASE i # id /\ j # id
    BY <1>3, <1>4, <2>4 DEF RecordsHold, b
  <2> QED
    BY <2>1, <2>2, <2>3, <2>4
<1> QED
    BY <1>3, <1>4 DEF RecordsHold, assignment_target_bindings

LEMMA FinishHolds ==
    ASSUME PagesHold, NEW p \in Pages, NEW pc \in {"ok", "error"}, Finish(p, pc), page[p].confirm.pc = "sent"
    PROVE  PagesHold'
<1>0. page[p] \in Wizards /\ WizardHolds(page[p])
    BY WizardStays
<1> DEFINE f == IF pc = "ok" /\ page[p].confirm.fresh THEN page[p].confirm.form ELSE None
           c == [page[p].confirm EXCEPT !.pc = pc, !.form = f]
           w == [page[p] EXCEPT !.confirm = c]
<1>1. f \in Forms \cup {None}
    BY <1>0 DEF Wizards, PageRequests
<1>2. c \in PageRequests /\ c.pc = pc /\ c.form = f /\ c.fresh = page[p].confirm.fresh
    BY <1>0, <1>1 DEF Wizards, PageRequests
<1>3. page' = [page EXCEPT ![p] = w]
    BY <1>0 DEF Finish, Wizards, PageRequests, PagesHold
<1> HIDE DEF c
<1>4. w \in Wizards /\ WizardHolds(w)
    BY <1>0, <1>2 DEF Wizards, WizardHolds
<1> QED
    BY <1>3, <1>4, BecomesHolds

LEMMA ServerKeepsRecords ==
    ASSUME AssigningInv, NEW p \in Pages,
           save_assignment_record(p) \/ distribute_activity_assignment(p) \/ delete_assignment(p)
    PROVE  AssigningInv'
<1>0. page[p] \in Wizards /\ WizardHolds(page[p])
    BY WizardStays DEF AssigningInv
<1>1. CASE save_assignment_record(p)
  <2>1. page[p].confirm.pc = "sent" /\ page[p].confirm.form \in Forms
    BY <1>0, <1>1 DEF save_assignment_record, WizardHolds
  <2>2. PagesHold'
    BY <1>1, <2>1, FinishHolds DEF save_assignment_record, AssigningInv
  <2>3. RecordsHold'
    BY <1>1, <2>1, StoreKeepsRecords DEF save_assignment_record, AssigningInv, RecordsHold
  <2> QED
    BY <2>2, <2>3 DEF AssigningInv
<1>2. CASE distribute_activity_assignment(p)
  <2>1. page[p].confirm.pc = "sent" /\ UNCHANGED recordOf /\ (Finish(p, "ok") \/ Finish(p, "error"))
    BY <1>2 DEF distribute_activity_assignment
  <2>2. PagesHold'
    BY <2>1, FinishHolds DEF AssigningInv
  <2> QED
    BY <2>1, <2>2 DEF AssigningInv, RecordsHold
<1>3. CASE delete_assignment(p)
  <2> DEFINE c == [page[p].delete EXCEPT !.pc = "ok"]
             w == [page[p] EXCEPT !.delete = c]
  <2>0. page[p].delete.id \in Ids
    BY <1>0, <1>3 DEF delete_assignment, WizardHolds
  <2>1. c \in PageRequests /\ c.pc = "ok"
    BY <1>0 DEF Wizards, PageRequests
  <2>2. page' = [page EXCEPT ![p] = w]
    BY <1>0, <1>3 DEF delete_assignment, Wizards, PageRequests, AssigningInv, PagesHold
  <2> HIDE DEF c
  <2>3. w \in Wizards /\ WizardHolds(w)
    BY <1>0, <2>1 DEF Wizards, WizardHolds
  <2>4. RecordsHold'
    BY <1>3, <2>0 DEF delete_assignment, AssigningInv, RecordsHold
  <2> QED
    BY <2>2, <2>3, <2>4, BecomesHolds DEF AssigningInv
<1> QED
    BY <1>1, <1>2, <1>3

LEMMA AnswerKeepsRecords ==
    ASSUME AssigningInv, NEW p \in Pages, confirmedForm(p) \/ notConfirmed(p)
    PROVE  AssigningInv'
<1>0. page[p] \in Wizards /\ WizardHolds(page[p])
    BY WizardStays DEF AssigningInv
<1>1. RecordsHold'
    BY DEF confirmedForm, notConfirmed, Becomes, AssigningInv, RecordsHold
<1>2. Listed \in SUBSET Forms /\ NoRequest \in PageRequests
      /\ NoRequest.pc = "none" /\ NoRequest.fresh = FALSE
    BY ListedAreForms, NoRequestTyped DEF AssigningInv, NoRequest
<1>3. CASE notConfirmed(p)
  <2> DEFINE w == [page[p] EXCEPT !.confirm = NoRequest]
  <2>1. w \in Wizards /\ WizardHolds(w)
    BY <1>0, <1>2 DEF Wizards, WizardHolds
  <2> QED
    BY <1>1, <1>3, <2>1, BecomesHolds DEF notConfirmed, AssigningInv
<1>4. CASE confirmedForm(p)
  <2> DEFINE old == page[p]
             done == [old EXCEPT !.confirm = NoRequest]
             listed == [done EXCEPT !.listed = Listed, !.chosen = None,
                                   !.stored = IF old.confirm.fresh THEN old.confirm.form ELSE @,
                                   !.recordSaved = @ \/ old.confirm.fresh,
                                   !.distributed = @ /\ ~old.confirm.fresh]
             spread == [done EXCEPT !.sent = IF old.confirm.fresh THEN old.confirm.form ELSE @,
                                    !.distributed = @ \/ old.confirm.fresh]
  <2>1. /\ page' = [page EXCEPT ![p] = listed] \/ page' = [page EXCEPT ![p] = spread]
        /\ old.confirm.pc = "ok"
    BY <1>4 DEF confirmedForm, Becomes
  <2>2. old.confirm.fresh => old.confirm.form = old.form /\ old.form \in Forms
    BY <1>0, <2>1 DEF WizardHolds, Wizards
  <2>3. old.confirm.fresh \in BOOLEAN
    BY <1>0 DEF Wizards, PageRequests
  <2>4. listed \in Wizards /\ WizardHolds(listed)
    BY <1>0, <1>2, <2>2, <2>3, ZenonT(60) DEF Wizards, WizardHolds
  <2>5. spread \in Wizards /\ WizardHolds(spread)
    BY <1>0, <1>2, <2>2, <2>3 DEF Wizards, WizardHolds
  <2> HIDE DEF listed, spread
  <2> QED
    BY <1>1, <2>1, <2>4, <2>5, BecomesHolds DEF AssigningInv
<1> QED
    BY <1>3, <1>4

\* What the page calls stored or distributed is the form it shows, and no two stored
\* assignments bind one student to two repositories, in whatever order changes of the
\* form, rosters and answers arrive and whoever else saves, overwrites or deletes.
THEOREM AssignmentsAreConsistentAlways == AssigningSpec => []AssignmentsAreConsistent
<1>1. AssigningInit => AssigningInv
  <2> SUFFICES ASSUME AssigningInit PROVE AssigningInv
    OBVIOUS
  <2>1. PICK a \in Activities, l \in Labels :
          page = [p \in Pages |-> [form |-> [activity |-> a, label |-> l, targets |-> {}],
                                   recordSaved |-> FALSE, distributed |-> FALSE,
                                   listed |-> {}, chosen |-> None,
                                   confirm |-> NoRequest, delete |-> NoRequest, rosters |-> {},
                                   stored |-> None, sent |-> None]]
    BY DEF AssigningInit
  <2>2. [activity |-> a, label |-> l, targets |-> {}] \in Forms
    BY DEF Forms
  <2>3. PagesHold
    BY <2>1, <2>2, NoRequestTyped DEF PagesHold, Wizards, WizardHolds, NoRequest
  <2>4. RecordsHold
    BY DEF AssigningInit, RecordsHold
  <2> QED
    BY <2>3, <2>4 DEF AssigningInv
<1>2. AssigningInv /\ [AssigningNext]_assigningVars => AssigningInv'
  <2> SUFFICES ASSUME AssigningInv, [AssigningNext]_assigningVars PROVE AssigningInv'
    OBVIOUS
  <2>1. CASE UNCHANGED assigningVars
    BY <2>1 DEF assigningVars, assigningState, AssigningInv, PagesHold, RecordsHold, WizardHolds
  <2>2. ASSUME NEW form \in Forms, save_elsewhere(form) PROVE AssigningInv'
    BY <2>2, StoreKeepsRecords DEF save_elsewhere, AssigningInv, PagesHold, WizardHolds
  <2>3. ASSUME NEW a \in Activities, retire(a) PROVE AssigningInv'
    BY <2>3 DEF retire, AssigningInv, PagesHold, RecordsHold, WizardHolds
  <2> QED
    BY <2>1, <2>2, <2>3, FormKeepsRecords, AskingKeepsRecords, ServerKeepsRecords, AnswerKeepsRecords DEF AssigningNext
<1>3. AssigningInv => AssignmentsAreConsistent
  <2> SUFFICES ASSUME AssigningInv PROVE AssignmentsAreConsistent
    OBVIOUS
  <2>1. ConfirmedIsCurrent
    BY DEF AssigningInv, PagesHold, WizardHolds, ConfirmedIsCurrent
  <2>2. ASSUME NEW b \in UNION {assignment_target_bindings(form) : form \in Listed},
               NEW c \in UNION {assignment_target_bindings(form) : form \in Listed},
               b[1] = c[1]
        PROVE  b[2] = c[2]
    <3>1. PICK i \in Ids : recordOf[i] # None /\ b \in assignment_target_bindings(recordOf[i])
      BY DEF Listed
    <3>2. PICK j \in Ids : recordOf[j] # None /\ c \in assignment_target_bindings(recordOf[j])
      BY DEF Listed
    <3>3. ~Ambiguous(assignment_target_bindings(recordOf[i]) \cup assignment_target_bindings(recordOf[j]))
      BY <3>1, <3>2 DEF AssigningInv, RecordsHold
    <3> QED
      BY <2>2, <3>1, <3>2, <3>3 DEF Ambiguous
  <2>3. OneRepositoryPerStudent
    BY <2>2 DEF OneRepositoryPerStudent, Ambiguous
  <2> QED
    BY <2>1, <2>3 DEF AssignmentsAreConsistent
<1> QED
    BY <1>1, <1>2, <1>3, PTL DEF AssigningSpec

-----------------------------------------------------------------------------
(***************************************************************************)
(* The files that a distribution meets (Scaffold)                           *)
(***************************************************************************)

\* A step that puts a file only in place of files that are not the student's, but for
\* the source that is to be overwritten.
LEMMA PutKeepsWork ==
    ASSUME NEW names, NEW file,
           \A p \in names : files[Target][p] # Mine \/ (p = SourceName /\ job.overwriteSource),
           files' = Put(Target, names, file)
    PROVE  \A r \in DOMAIN files, p \in FileNames :
              files[r][p] = Mine => files'[r][p] = Mine \/ (p = SourceName /\ job.overwriteSource)
    BY DEF Put

\* A distribution leaves what a student wrote, whatever runs were forced, broken off and
\* repeated before it and whatever the manifest says.
THEOREM StudentWorkSurvivesAlways == ScaffoldSpec => StudentWorkSurvives
<1> DEFINE Kept == job # Idle =>
         \A r \in DOMAIN files, p \in FileNames :
            files[r][p] = Mine => files'[r][p] = Mine \/ (p = SourceName /\ job.overwriteSource)
<1>1. ASSUME [ScaffoldNext]_scaffoldVars PROVE Kept
  <2>1. CASE UNCHANGED files
    BY <2>1
  <2>2. CASE remove_stale_managed_assets
    <3>1. \A p \in Stale(Target) : files[Target][p] # Mine
      BY DEF Stale, Intact, Copy, Mine
    <3>2. PICK names \in SUBSET Stale(Target) : files' = Put(Target, names, Absent)
      BY <2>2 DEF remove_stale_managed_assets
    <3> QED
      BY <3>1, <3>2, PutKeepsWork
  <2>3. CASE copy_student_assets
    <3>1. \A p \in ToCopy(Target) : files[Target][p] # Mine \/ (p = SourceName /\ job.overwriteSource)
      BY DEF ToCopy, Intact, Copy, Mine, Absent
    <3>2. PICK names \in SUBSET ToCopy(Target) : files' = Put(Target, names, Copy(activity.revision))
      BY <2>3 DEF copy_student_assets
    <3> QED
      BY <3>1, <3>2, PutKeepsWork
  <2>4. CASE starter_source
    <3>1. ASSUME files' = Put(Target, {SourceName}, Starter),
                 job.overwriteSource \/ files[Target][SourceName] = Absent
          PROVE  Kept
      <4>1. \A p \in {SourceName} : files[Target][p] # Mine \/ (p = SourceName /\ job.overwriteSource)
        BY <3>1 DEF Absent, Mine
      <4> QED
        BY <3>1, <4>1, PutKeepsWork
    <3> QED
      BY <2>1, <2>4, <3>1 DEF starter_source
  <2>5. ASSUME job = Idle PROVE Kept
    BY <2>5
  <2> QED
    BY <1>1, <2>1, <2>2, <2>3, <2>4, <2>5 DEF ScaffoldNext, scaffoldVars, scaffoldState, revise, edit,
       build_assignment_plan, load_managed_assets, write_activity, write_managed_assets
<1>2. [ScaffoldNext]_scaffoldVars => [Kept]_scaffoldVars
    BY <1>1
<1> QED
    BY <1>2, PTL DEF ScaffoldSpec, StudentWorkSurvives

-----------------------------------------------------------------------------
(***************************************************************************)
(* Grading a delivery and recording a review (Grading)                      *)
(***************************************************************************)

Outcomes == {"none", "error", "terminal", "pass", "fail"}

GradingType ==
    [pc : {"idle", "lock", "job", "state", "start", "client", "remove", "inspect", "report", "sync",
           "error"},
     kind : {"none", "grade", "review", "register"}, reports : Seq(Outcomes),
     answer : Outcomes, tries : {0, 1}]

Deliveries ==
    [job : Jobs \cup {None}, state : {"none", "running", "error"}, result : Results \cup {None},
     review : Results \cup {None}]

\* What may be on disk: its result is of its job, its review is on its result.
DeliveryHolds(d) ==
    /\ d \in Deliveries
    /\ d.result # None => d.job = d.result.job
    /\ d.review # None => d.review = d.result

GradedDirectoryHolds ==
    /\ dir = [now |-> dir.now, after |-> dir.after]
    /\ dir.now \in dir.after
    /\ \A d \in dir.after : DeliveryHolds(d) /\ (\A r \in answered : d.result = r)
    /\ answered \subseteq Results

\* A call that has left the queue for the lock to grade.
Grades(g) == g.kind = "grade" /\ g.pc # "lock"

\* The stages that a request of each kind goes through.
StageHolds(g) ==
    /\ g \in GradingType
    /\ g.kind = "none" => g.pc = "idle"
    /\ g.kind = "review" => g.pc = "lock"
    /\ g.kind = "register" => g.pc \in {"start", "client", "remove", "inspect", "report"}
    /\ g.kind = "grade" => g.pc # "idle"

\* Who grades holds the lock, and met no result when it took it: until it links its own,
\* no grade was answered and no review was stored.
LockHolds ==
    /\ holder \in GradeCalls \cup {None}
    /\ \A c \in GradeCalls : Grades(grading[c]) <=> holder = c
    /\ holder # None =>
          /\ answered = {}
          /\ IF grading[holder].pc = "sync" THEN dir.now.result # None /\ dir.now.review = None
             ELSE dir.now.result = None

CallsHold ==
    /\ grading \in [GradeCalls -> GradingType]
    /\ \A c \in GradeCalls : StageHolds(grading[c])
    /\ producerImage \in Nat /\ stamp \in Nat

\* A container that is confirmed gone is not started again: its client is gone too.
BoxesHold ==
    /\ DOMAIN box = GradeCalls
    /\ \A c \in reaped : c \in GradeCalls /\ box[c] # "running" /\ ~GradeAt(c, "client")

GradingInv == GradedDirectoryHolds /\ CallsHold /\ LockHolds /\ BoxesHold

-----------------------------------------------------------------------------
LEMMA NoGradingHolds == StageHolds(NoGrading) /\ ~Grades(NoGrading) /\ NoGrading.pc = "idle"
    BY DEF StageHolds, NoGrading, GradingType, Outcomes, Grades

\* A call that takes a step, with the lock as it is.
LEMMA CallGoes ==
    ASSUME CallsHold, LockHolds, NEW c \in GradeCalls, NEW g, StageHolds(g),
           Grades(g) <=> Grades(grading[c]),
           holder = c => (g.pc = "sync" <=> grading[c].pc = "sync"),
           grading' = [grading EXCEPT ![c] = g], holder' = holder,
           dir'.now.result = dir.now.result, dir'.now.review = dir.now.review,
           UNCHANGED << answered, producerImage >>, stamp' \in Nat
    PROVE  CallsHold' /\ LockHolds'
<1>1. CallsHold'
  BY DEF CallsHold, StageHolds
<1>2. \A d \in GradeCalls : Grades(grading'[d]) <=> Grades(grading[d])
  BY DEF CallsHold
<1>3. \A d \in GradeCalls : holder = d => (grading'[d].pc = "sync" <=> grading[d].pc = "sync")
  BY DEF CallsHold
<1> QED
  BY <1>1, <1>2, <1>3, GradingAssumption DEF LockHolds

\* A call that ends, whatever it leaves of the directory.
LEMMA CallEnds ==
    ASSUME CallsHold, LockHolds, NEW c \in GradeCalls, Ends(c),
           holder \in {None, c} \/ (dir' = dir /\ answered' = answered),
           UNCHANGED producerImage, stamp' \in Nat
    PROVE  CallsHold' /\ LockHolds'
<1>1. CallsHold'
  BY NoGradingHolds DEF CallsHold, Ends, StageHolds
<1>2. grading'[c] = NoGrading /\ \A d \in GradeCalls : d # c => grading'[d] = grading[d]
  BY DEF Ends, CallsHold
<1>3. holder' # c
  BY GradingAssumption DEF Ends
<1>4. \A d \in GradeCalls : d # c => (holder' = d <=> holder = d)
  BY GradingAssumption DEF Ends
<1>5. \A d \in GradeCalls : Grades(grading'[d]) <=> holder' = d
  BY <1>2, <1>3, <1>4, NoGradingHolds DEF LockHolds
<1>6. holder' # None => holder' = holder /\ holder # c
  BY GradingAssumption DEF Ends
<1>7. holder' \in GradeCalls \cup {None}
  BY DEF Ends, LockHolds
<1>8. ASSUME holder' # None
      PROVE  /\ answered' = {}
             /\ IF grading'[holder'].pc = "sync" THEN dir'.now.result # None /\ dir'.now.review = None
                ELSE dir'.now.result = None
  BY <1>2, <1>6, <1>7, <1>8 DEF LockHolds
<1> QED
  BY <1>1, <1>5, <1>7, <1>8 DEF LockHolds

\* The directory after a write that goes on to disk, or may.
LEMMA WriteKeeps ==
    ASSUME GradedDirectoryHolds, NEW new, DeliveryHolds(new), \A r \in answered : new.result = r,
           answered' = answered, dir' = OnDisk(new) \/ dir' = Changed(dir, new)
    PROVE  GradedDirectoryHolds'
    BY DEF GradedDirectoryHolds, OnDisk, Changed

LEMMA ErrorStage ==
    /\ StageHolds([NoGrading EXCEPT !.pc = "error", !.kind = "grade"])
    /\ Grades([NoGrading EXCEPT !.pc = "error", !.kind = "grade"])
    /\ [NoGrading EXCEPT !.pc = "error", !.kind = "grade"].pc = "error"
<1>1. NoGrading \in GradingType
  BY NoGradingHolds DEF StageHolds
<1>2. [NoGrading EXCEPT !.pc = "error", !.kind = "grade"] \in GradingType
  BY <1>1 DEF GradingType
<1>3. /\ [NoGrading EXCEPT !.pc = "error", !.kind = "grade"].pc = "error"
      /\ [NoGrading EXCEPT !.pc = "error", !.kind = "grade"].kind = "grade"
  BY <1>1 DEF GradingType
<1> QED
  BY <1>2, <1>3 DEF StageHolds, Grades

\* A call whose tests fail to be run.
LEMMA CallRaises ==
    ASSUME CallsHold, LockHolds, NEW c \in GradeCalls, Raises(c),
           grading[c].pc \in {"start", "inspect", "report"},
           UNCHANGED << dir, answered, producerImage, stamp >>
    PROVE  CallsHold' /\ LockHolds'
<1>1. CASE grading[c].kind = "register"
  <2>1. Ends(c) /\ holder # c
    BY <1>1 DEF Raises, LockHolds, Grades
  <2> QED
    BY <2>1, CallEnds DEF CallsHold
<1>2. CASE grading[c].kind # "register"
  <2>1. Grades(grading[c])
    BY <1>2 DEF CallsHold, StageHolds, GradingType, Grades
  <2> QED
    BY <1>2, <2>1, ErrorStage, CallGoes DEF Raises, CallsHold
<1> QED
  BY <1>1, <1>2

\* The state of the calls' containers once calls have moved.
LEMMA BoxesStay ==
    ASSUME BoxesHold, box' = box, reaped' \subseteq reaped,
           \A c \in reaped' : grading'[c].pc = "client" => grading[c].pc = "client"
    PROVE  BoxesHold'
    BY DEF BoxesHold, GradeAt

LEMMA PcOf ==
    ASSUME CallsHold, NEW c \in GradeCalls, NEW pc, GradeGoes(c, pc)
    PROVE  /\ grading' = [grading EXCEPT ![c] = [grading[c] EXCEPT !.pc = pc]]
           /\ grading'[c].pc = pc /\ grading'[c].kind = grading[c].kind
           /\ \A d \in GradeCalls : d # c => grading'[d] = grading[d]
    BY DEF GradeGoes, CallsHold, GradingType

LEMMA RequestKeepsGrading ==
    ASSUME GradingInv, NEW c \in GradeCalls,
           (\E kind \in {"grade", "review"} : grade_student_delivery(c, kind)) \/ run_docker_grading(c)
    PROVE  GradingInv'
<1> USE DEF GradingInv
<1> DEFINE g == grading'[c]
<1>1. /\ grading' = [grading EXCEPT ![c] = g] /\ StageHolds(g)
      /\ ~Grades(g) /\ ~Grades(grading[c]) /\ g.pc # "client" /\ g.pc # "sync" /\ grading[c].pc = "idle"
      /\ UNCHANGED << dir, holder, answered, producerImage, stamp >>
  <2>0. NoGrading \in GradingType
    BY NoGradingHolds DEF StageHolds
  <2>1. ASSUME NEW kind \in {"grade", "review"}, grade_student_delivery(c, kind)
        PROVE  g \in GradingType /\ g.pc = "lock" /\ g.kind = kind
    BY <2>0, <2>1 DEF grade_student_delivery, CallsHold, GradingType
  <2>2. ASSUME run_docker_grading(c)
        PROVE  g \in GradingType /\ g.pc = "start" /\ g.kind = "register"
    BY <2>0, <2>2 DEF run_docker_grading, CallsHold, GradingType
  <2>3. StageHolds(g) /\ ~Grades(g) /\ g.pc # "client" /\ g.pc # "sync"
    BY <2>1, <2>2 DEF StageHolds, Grades
  <2>4. grading[c].pc = "idle" /\ ~Grades(grading[c])
    BY DEF grade_student_delivery, run_docker_grading, GradeAt, CallsHold, StageHolds, Grades
  <2> QED
    BY <2>1, <2>2, <2>3, <2>4 DEF grade_student_delivery, run_docker_grading, CallsHold
<1>2. CallsHold' /\ LockHolds'
  BY <1>1, CallGoes DEF CallsHold
<1>3. BoxesHold'
  <2>1. box' = box /\ reaped' = reaped \ {c}
    BY DEF grade_student_delivery, run_docker_grading
  <2> QED
    BY <1>1, <2>1, BoxesStay DEF CallsHold, BoxesHold
<1> QED
  BY <1>1, <1>2, <1>3 DEF GradedDirectoryHolds

\* The calls that leave the containers alone.
LEMMA BoxesRest ==
    ASSUME GradingInv, NEW c \in GradeCalls, NEW g, g.pc # "client",
           grading' = [grading EXCEPT ![c] = g], UNCHANGED << box, reaped >>
    PROVE  BoxesHold'
    BY BoxesStay DEF GradingInv, CallsHold, BoxesHold

LEMMA GradeKeepsGrading ==
    ASSUME GradingInv, NEW c \in GradeCalls, grade(c)
    PROVE  GradingInv'
<1> USE DEF GradingInv
<1>1. GradeAt(c, "lock") /\ grading[c].kind = "grade" /\ holder = None /\ grading[c].pc = "lock"
  BY DEF grade, GradeAt
<1>2. CASE dir.now.result # None /\ Ends(c)
  <2>1. CallsHold' /\ LockHolds'
    BY <1>1, <1>2, CallEnds DEF grade, CallsHold
  <2>2. BoxesHold'
    BY <1>2, NoGradingHolds, BoxesRest DEF grade, Ends
  <2>3. GradedDirectoryHolds'
    <3>1. CASE dir' = Synced(dir) /\ answered' = answered \cup {dir.now.result}
      BY <1>2, <3>1 DEF GradedDirectoryHolds, Synced, OnDisk, DeliveryHolds, Deliveries
    <3>2. CASE UNCHANGED << dir, answered >>
      BY <3>2 DEF GradedDirectoryHolds
    <3> QED
      BY <1>2, <3>1, <3>2 DEF grade
  <2> QED
    BY <2>1, <2>2, <2>3
<1>3. CASE /\ dir.now.result = None
           /\ holder' = c
           /\ GradeGoes(c, IF contract THEN "job" ELSE "error")
           /\ UNCHANGED << dir, answered >>
  <2> DEFINE pc == IF contract THEN "job" ELSE "error"
             g == [grading[c] EXCEPT !.pc = pc]
  <2>1. StageHolds(g) /\ Grades(g) /\ g.pc \in {"job", "error"}
    BY <1>1 DEF CallsHold, StageHolds, GradingType, Grades
  <2>2. grading' = [grading EXCEPT ![c] = g]
    BY <1>3, PcOf
  <2>3. answered = {}
    BY <1>3, GradingAssumption DEF GradedDirectoryHolds
  <2>4. CallsHold'
    BY <2>1, <2>2 DEF CallsHold, StageHolds, grade
  <2>5. LockHolds'
    <3>1. grading'[c] = g /\ \A d \in GradeCalls : d # c => grading'[d] = grading[d]
      BY <2>2 DEF CallsHold
    <3>2. \A d \in GradeCalls : d # c => ~Grades(grading[d])
      BY <1>1, GradingAssumption DEF LockHolds
    <3>3. \A d \in GradeCalls : Grades(grading'[d]) <=> holder' = d
      BY <1>3, <2>1, <3>1, <3>2
    <3> QED
      BY <1>3, <2>1, <2>3, <3>1, <3>3 DEF LockHolds
  <2>6. BoxesHold'
    BY <2>1, <2>2, BoxesRest DEF grade
  <2> QED
    BY <1>3, <2>4, <2>5, <2>6 DEF GradedDirectoryHolds
<1> QED
  BY <1>2, <1>3 DEF grade

\* Who grades is the holder of the lock.
LEMMA HolderGrades ==
    ASSUME GradingInv, NEW c \in GradeCalls, grading[c].pc \in {"job", "state", "error", "sync"}
    PROVE  /\ holder = c /\ grading[c].kind = "grade" /\ answered = {}
           /\ grading[c].pc # "sync" => dir.now.result = None /\ dir.now.review = None
           /\ grading[c].pc = "sync" => dir.now.result # None /\ dir.now.review = None
           /\ DeliveryHolds(dir.now)
<1>1. grading[c].kind = "grade"
  BY DEF GradingInv, CallsHold, StageHolds, GradingType
<1>2. holder = c /\ DeliveryHolds(dir.now)
  BY <1>1, GradingAssumption DEF GradingInv, LockHolds, Grades, GradedDirectoryHolds
<1> QED
  BY <1>1, <1>2, GradingAssumption DEF GradingInv, LockHolds, DeliveryHolds

LEMMA JobKeepsGrading ==
    ASSUME GradingInv, NEW c \in GradeCalls, write_job(c)
    PROVE  GradingInv'
<1> USE DEF GradingInv
<1> DEFINE made == [image |-> producerImage, at |-> stamp + 1]
           new == With("job", made)
<1>1. GradeAt(c, "job") /\ grading[c].pc = "job"
  BY DEF write_job, GradeAt
<1>2. /\ holder = c /\ grading[c].kind = "grade" /\ answered = {} /\ dir.now.result = None
      /\ dir.now.review = None /\ DeliveryHolds(dir.now) /\ stamp' \in Nat
  BY <1>1, HolderGrades DEF write_job, CallsHold
<1>3. DeliveryHolds(new) /\ new.result = dir.now.result /\ new.review = dir.now.review
  BY <1>2 DEF With, DeliveryHolds, Deliveries, Jobs, CallsHold
<1>4. \/ dir' = dir \/ dir' = OnDisk(new) \/ dir' = Changed(Changed(dir, new), dir.now)
  BY DEF write_job, Written, WithdrawnWrite
<1>5. GradedDirectoryHolds' /\ dir'.now.result = dir.now.result /\ dir'.now.review = dir.now.review
  BY <1>2, <1>3, <1>4 DEF write_job, GradedDirectoryHolds, OnDisk, Changed
<1>6. CASE Ends(c)
  <2>1. CallsHold' /\ LockHolds'
    BY <1>2, <1>6, CallEnds DEF write_job
  <2>2. BoxesHold'
    BY <1>6, NoGradingHolds, BoxesRest DEF write_job, Ends
  <2> QED
    BY <1>5, <2>1, <2>2
<1>7. CASE GradeGoes(c, "state") /\ holder' = holder
  <2>1. grading' = [grading EXCEPT ![c] = [grading[c] EXCEPT !.pc = "state"]]
    BY <1>7, PcOf
  <2>2. StageHolds([grading[c] EXCEPT !.pc = "state"]) /\ Grades([grading[c] EXCEPT !.pc = "state"])
        /\ Grades(grading[c]) /\ [grading[c] EXCEPT !.pc = "state"].pc = "state"
    BY <1>1, <1>2 DEF CallsHold, StageHolds, GradingType, Grades
  <2>3. CallsHold' /\ LockHolds'
    BY <1>1, <1>2, <1>5, <1>7, <2>1, <2>2, CallGoes DEF write_job
  <2>4. BoxesHold'
    BY <2>1, <2>2, BoxesRest DEF write_job
  <2> QED
    BY <1>5, <2>3, <2>4
<1> QED
  BY <1>6, <1>7 DEF write_job

\* The state file is beside the point: whatever is left of it, job and result are as they were.
LEMMA StateKeepsGrading ==
    ASSUME GradingInv, NEW c \in GradeCalls, write_state(c) \/ write_error(c)
    PROVE  GradingInv'
<1> USE DEF GradingInv
<1>1. grading[c].pc \in {"state", "error"} /\ stamp' \in Nat
  BY DEF write_state, write_error, GradeAt, CallsHold
<1>2. /\ holder = c /\ grading[c].kind = "grade" /\ answered = {} /\ dir.now.result = None
      /\ dir.now.review = None /\ DeliveryHolds(dir.now)
  BY <1>1, HolderGrades
<1>3. PICK state \in {"running", "error"} :
         dir' = dir \/ dir' = OnDisk(With("state", state)) \/ dir' = Changed(dir, With("state", state))
  BY DEF write_state, write_error, Written, WriteFails
<1>4. /\ DeliveryHolds(With("state", state)) /\ With("state", state).result = None
      /\ With("state", state).review = None
  BY <1>2 DEF With, DeliveryHolds, Deliveries
<1>5. GradedDirectoryHolds' /\ dir'.now.result = dir.now.result /\ dir'.now.review = dir.now.review
  BY <1>2, <1>3, <1>4 DEF write_state, write_error, GradedDirectoryHolds, OnDisk, Changed
<1>6. CASE Ends(c)
  <2>1. CallsHold' /\ LockHolds'
    BY <1>1, <1>2, <1>6, CallEnds DEF write_state, write_error
  <2>2. BoxesHold'
    BY <1>6, NoGradingHolds, BoxesRest DEF write_state, write_error, Ends
  <2> QED
    BY <1>5, <2>1, <2>2
<1>7. CASE GradeGoes(c, "start") /\ holder' = holder
  <2>1. grading' = [grading EXCEPT ![c] = [grading[c] EXCEPT !.pc = "start"]]
    BY <1>7, PcOf
  <2>2. StageHolds([grading[c] EXCEPT !.pc = "start"]) /\ Grades([grading[c] EXCEPT !.pc = "start"])
        /\ Grades(grading[c]) /\ [grading[c] EXCEPT !.pc = "start"].pc = "start"
    BY <1>1, <1>2 DEF CallsHold, StageHolds, GradingType, Grades
  <2>3. CallsHold' /\ LockHolds'
    BY <1>1, <1>2, <1>5, <1>7, <2>1, <2>2, CallGoes DEF write_state, write_error
  <2>4. BoxesHold'
    BY <2>1, <2>2, BoxesRest DEF write_state, write_error
  <2> QED
    BY <1>5, <2>3, <2>4
<1> QED
  BY <1>6, <1>7 DEF write_state, write_error

\* A step of the call's own that leaves the directory and the lock alone.
LEMMA RunKeepsGrading ==
    ASSUME GradingInv, NEW c \in GradeCalls, NEW g, StageHolds(g), g.kind = grading[c].kind,
           g.pc \notin {"idle", "lock", "sync"}, grading[c].pc \notin {"idle", "lock", "sync"},
           grading' = [grading EXCEPT ![c] = g],
           BoxesHold', UNCHANGED << dir, holder, answered, producerImage, stamp >>
    PROVE  GradingInv'
<1>1. CallsHold' /\ LockHolds'
  BY CallGoes DEF GradingInv, CallsHold, Grades
<1> QED
  BY <1>1 DEF GradingInv, GradedDirectoryHolds

LEMMA BoxKeepsGrading ==
    ASSUME GradingInv, NEW c \in GradeCalls, create(c) \/ start_container(c)
    PROVE  GradingInv'
<1>1. BoxesHold'
  BY DEF create, start_container, GradingInv, BoxesHold, GradeAt
<1>2. UNCHANGED << dir, holder, answered, producerImage, stamp, grading >>
  BY DEF create, start_container
<1> QED
  BY <1>1, <1>2 DEF GradingInv, GradedDirectoryHolds, CallsHold, LockHolds

LEMMA ClientKeepsGrading ==
    ASSUME GradingInv, NEW c \in GradeCalls,
           \/ producer_unavailable(c) \/ docker_run(c) \/ terminate_process_group(c) \/ docker_rm(c)
           \/ \E outcome \in worker_execution_report : exit(c, outcome)
    PROVE  GradingInv'
<1> USE DEF GradingInv
<1>1. CASE producer_unavailable(c)
  <2>1. Raises(c) /\ grading[c].pc = "start" /\ UNCHANGED << dir, answered, producerImage, stamp, box, reaped >>
    BY <1>1 DEF producer_unavailable, GradeAt
  <2>2. CallsHold' /\ LockHolds'
    BY <2>1, CallRaises
  <2>3. BoxesHold'
    BY <2>1, ErrorStage, NoGradingHolds, BoxesRest DEF Raises, Ends
  <2> QED
    BY <2>1, <2>2, <2>3 DEF GradedDirectoryHolds
<1>2. CASE docker_run(c)
  <2>1. grading[c].pc = "start" /\ grading' = [grading EXCEPT ![c] = [grading[c] EXCEPT !.pc = "client"]]
    BY <1>2, PcOf DEF docker_run, GradeAt
  <2>2. StageHolds([grading[c] EXCEPT !.pc = "client"]) /\ [grading[c] EXCEPT !.pc = "client"].pc = "client"
        /\ [grading[c] EXCEPT !.pc = "client"].kind = grading[c].kind
    BY <2>1 DEF CallsHold, StageHolds, GradingType
  <2>3. BoxesHold'
    BY <1>2, <2>1 DEF docker_run, BoxesHold, GradeAt, CallsHold
  <2> QED
    BY <1>2, <2>1, <2>2, <2>3, RunKeepsGrading DEF docker_run
<1>3. CASE terminate_process_group(c) \/ docker_rm(c) \/ \E outcome \in worker_execution_report : exit(c, outcome)
  <2>1. CASE grading' = grading
    <3>1. BoxesHold'
      BY <1>3, <2>1 DEF terminate_process_group, docker_rm, exit, BoxesHold, GradeAt
    <3>2. UNCHANGED << dir, holder, answered, producerImage, stamp >>
      BY <1>3 DEF terminate_process_group, docker_rm, exit
    <3> QED
      BY <2>1, <3>1, <3>2 DEF GradedDirectoryHolds, CallsHold, LockHolds
  <2>2. CASE grading' # grading
    <3>1. PICK pc \in {"remove", "inspect"}, answer \in Outcomes :
             grading' = [grading EXCEPT ![c].pc = pc, ![c].answer = answer]
      <4>1. "error" \in Outcomes /\ worker_execution_report \subseteq Outcomes
        BY DEF Outcomes, worker_execution_report, compile_c_source, run_test_case, run_command_test_case, run_sql_test_case
      <4>2. ASSUME docker_rm(c) PROVE grading' = [grading EXCEPT ![c].pc = "inspect", ![c].answer = grading[c].answer]
        BY <4>2 DEF docker_rm, GradeGoes, CallsHold, GradingType
      <4>3. grading[c].answer \in Outcomes
        BY DEF CallsHold, GradingType
      <4> QED
        BY <1>3, <2>2, <4>1, <4>2, <4>3 DEF terminate_process_group, exit
    <3>2. grading[c].pc \in {"client", "remove"}
      BY <1>3, <2>2 DEF terminate_process_group, docker_rm, exit, GradeAt
    <3> DEFINE g == [grading[c] EXCEPT !.pc = pc, !.answer = answer]
    <3>3. grading' = [grading EXCEPT ![c] = g]
      BY <3>1 DEF CallsHold
    <3>4. StageHolds(g) /\ g.pc = pc /\ g.kind = grading[c].kind
      BY <3>2 DEF CallsHold, StageHolds, GradingType
    <3>5. DOMAIN box' = GradeCalls /\ reaped' = reaped /\ \A d \in GradeCalls : box'[d] = "running" => box[d] = "running"
      BY <1>3 DEF terminate_process_group, docker_rm, exit, BoxesHold
    <3>6. BoxesHold'
      BY <3>3, <3>4, <3>5 DEF BoxesHold, GradeAt, CallsHold
    <3>7. UNCHANGED << dir, holder, answered, producerImage, stamp >>
      BY <1>3 DEF terminate_process_group, docker_rm, exit
    <3> QED
      BY <3>2, <3>3, <3>4, <3>6, <3>7, RunKeepsGrading
  <2> QED
    BY <2>1, <2>2
<1> QED
  BY <1>1, <1>2, <1>3

LEMMA InspectKeepsGrading ==
    ASSUME GradingInv, NEW c \in GradeCalls, remove_docker_container(c)
    PROVE  GradingInv'
<1> USE DEF GradingInv
<1>1. /\ grading[c].pc = "inspect" /\ UNCHANGED << dir, answered, producerImage, stamp, box >>
      /\ reaped' \in {reaped, reaped \cup {c}}
      /\ reaped' # reaped => box[c] # "running"
  BY DEF remove_docker_container, GradeAt, Present
<1>2. ASSUME NEW g, g.pc # "client", grading' = [grading EXCEPT ![c] = g] PROVE BoxesHold'
  BY <1>1, <1>2 DEF BoxesHold, GradeAt, CallsHold
<1>3. CASE Raises(c)
  <2>1. CallsHold' /\ LockHolds'
    BY <1>1, <1>3, CallRaises
  <2>2. BoxesHold'
    BY <1>2, <1>3, ErrorStage, NoGradingHolds DEF Raises, Ends
  <2> QED
    BY <1>1, <2>1, <2>2 DEF GradedDirectoryHolds
<1>4. CASE ~Raises(c)
  <2> DEFINE reports == Append(grading[c].reports, grading[c].answer)
  <2>1. grading[c].answer \in Outcomes /\ grading[c].reports \in Seq(Outcomes) /\ reports \in Seq(Outcomes)
    BY DEF CallsHold, GradingType
  <2>2. /\ holder' = holder
        /\ \/ grading' = [grading EXCEPT ![c].pc = "remove", ![c].tries = 1]
           \/ \E pc \in {"report", "start"} :
                 grading' = [grading EXCEPT ![c].reports = reports, ![c].answer = "none", ![c].tries = 0, ![c].pc = pc]
    BY <1>4 DEF remove_docker_container, NotConfirmed, Continues
  <2>3. CASE grading' = [grading EXCEPT ![c].pc = "remove", ![c].tries = 1]
    <3> DEFINE g == [grading[c] EXCEPT !.pc = "remove", !.tries = 1]
    <3>1. grading' = [grading EXCEPT ![c] = g]
      BY <2>3 DEF CallsHold
    <3>2. StageHolds(g) /\ g.pc = "remove" /\ g.kind = grading[c].kind
      BY <1>1 DEF CallsHold, StageHolds, GradingType
    <3> QED
      BY <1>1, <1>2, <2>2, <3>1, <3>2, RunKeepsGrading
  <2>4. ASSUME NEW pc \in {"report", "start"},
               grading' = [grading EXCEPT ![c].reports = reports, ![c].answer = "none", ![c].tries = 0, ![c].pc = pc]
        PROVE  GradingInv'
    <3> DEFINE g == [grading[c] EXCEPT !.reports = reports, !.answer = "none", !.tries = 0, !.pc = pc]
    <3>1. grading' = [grading EXCEPT ![c] = g]
      BY <2>4 DEF CallsHold
    <3> HIDE DEF reports
    <3>2. StageHolds(g) /\ g.pc = pc /\ g.kind = grading[c].kind
      BY <1>1, <2>1 DEF CallsHold, StageHolds, GradingType, Outcomes
    <3> QED
      BY <1>1, <1>2, <2>2, <3>1, <3>2, RunKeepsGrading
  <2> QED
    BY <2>2, <2>3, <2>4
<1> QED
  BY <1>3, <1>4

\* What is counted of the reports of a call.
LEMMA ReportCounts ==
    ASSUME NEW reports \in Seq(Outcomes)
    PROVE  /\ finalize_worker_report(reports).total \in Nat
           /\ finalize_worker_report(reports).right \in Nat
<1> DEFINE right == {i \in Tested(reports) : reports[i] = "pass"}
<1>1. IsFiniteSet(1 .. Len(reports)) /\ DOMAIN reports = 1 .. Len(reports)
  BY FS_Interval
<1>2. Tested(reports) \subseteq 1 .. Len(reports) /\ right \subseteq 1 .. Len(reports)
  BY <1>1 DEF Tested
<1> HIDE DEF right
<1>3. IsFiniteSet(Tested(reports)) /\ IsFiniteSet(right)
  BY <1>1, <1>2, FS_Subset
<1>4. Cardinality(Tested(reports)) \in Nat /\ Cardinality(right) \in Nat
  BY <1>3, FS_CardinalityType
<1> QED
  BY <1>4 DEF finalize_worker_report, right

LEMMA ResultKeepsGrading ==
    ASSUME GradingInv, NEW c \in GradeCalls, write_result(c)
    PROVE  GradingInv'
<1> USE DEF GradingInv
<1> DEFINE final == finalize_worker_report(grading[c].reports)
           result == [job |-> dir.now.job, at |-> stamp + 1, right |-> final.right, total |-> final.total]
           new == With("result", result)
<1>1. /\ grading[c].pc = "report" /\ grading[c].kind = "grade" /\ Grades(grading[c])
      /\ UNCHANGED << producerImage, box, reaped, answered >>
  BY DEF write_result, GradeAt, Grades
<1>2. holder = c /\ answered = {} /\ dir.now.result = None /\ dir.now.review = None /\ DeliveryHolds(dir.now)
  <2>1. holder = c /\ DeliveryHolds(dir.now)
    BY <1>1 DEF LockHolds, GradedDirectoryHolds
  <2>2. answered = {} /\ dir.now.result = None
    BY <1>1, <2>1, GradingAssumption DEF LockHolds
  <2> QED
    BY <2>1, <2>2 DEF DeliveryHolds
<1>3. CASE Raises(c) /\ UNCHANGED << dir, stamp >>
  <2>1. CallsHold' /\ LockHolds'
    BY <1>1, <1>3, CallRaises
  <2>2. BoxesHold'
    BY <1>1, <1>3, ErrorStage, NoGradingHolds, BoxesRest DEF Raises, Ends
  <2> QED
    BY <1>1, <1>3, <2>1, <2>2 DEF GradedDirectoryHolds
<1>4. CASE stamp' = stamp + 1 /\ UNCHANGED dir /\ Ends(c)
  <2>1. CallsHold' /\ LockHolds'
    BY <1>1, <1>2, <1>4, CallEnds DEF CallsHold
  <2>2. BoxesHold'
    BY <1>1, <1>4, NoGradingHolds, BoxesRest DEF Ends
  <2> QED
    BY <1>1, <1>4, <2>1, <2>2 DEF GradedDirectoryHolds
<1>5. CASE stamp' = stamp + 1 /\ dir' = Changed(dir, new) /\ GradeGoes(c, "sync")
  <2> DEFINE g == [grading[c] EXCEPT !.pc = "sync"]
  <2>1. grading' = [grading EXCEPT ![c] = g]
    BY <1>5, PcOf
  <2>2. StageHolds(g) /\ Grades(g) /\ g.pc = "sync"
    BY <1>1 DEF CallsHold, StageHolds, GradingType, Grades
  <2>3. grading'[c] = g /\ \A d \in GradeCalls : d # c => grading'[d] = grading[d]
    BY <2>1 DEF CallsHold
  <2>4. result \in Results /\ result # None /\ result.job = dir.now.job
    <3>1. final.right \in Nat /\ final.total \in Nat
      BY ReportCounts DEF CallsHold, GradingType
    <3>2. stamp + 1 \in Nat /\ dir.now.job \in Jobs \cup {None}
      BY <1>2 DEF CallsHold, DeliveryHolds, Deliveries
    <3> HIDE DEF final
    <3>3. result \in Results
      BY <3>1, <3>2 DEF Results
    <3> QED
      BY <3>3, GradingAssumption
  <2> HIDE DEF result
  <2>5. DeliveryHolds(new) /\ new.result = result /\ new.review = None
    BY <1>2, <2>4 DEF With, DeliveryHolds, Deliveries
  <2> HIDE DEF new
  <2>6. GradedDirectoryHolds' /\ dir'.now = new
    BY <1>1, <1>2, <1>5, <2>5 DEF GradedDirectoryHolds, Changed
  <2>7. holder' = holder
    <3>1. grading'[c].pc = "sync"
      BY <2>2, <2>3
    <3>2. ~Raises(c)
      BY <1>1, <3>1, ErrorStage, NoGradingHolds DEF Raises, Ends, CallsHold
    <3>3. ~Ends(c)
      BY <3>1, NoGradingHolds DEF Ends, CallsHold
    <3> QED
      BY <3>1, <3>2, <3>3 DEF write_result
  <2>8. CallsHold' /\ LockHolds'
    <3>1. CallsHold'
      BY <1>1, <1>5, <2>1, <2>2 DEF CallsHold, StageHolds
    <3>2. \A d \in GradeCalls : Grades(grading'[d]) <=> holder' = d
      BY <1>1, <2>2, <2>3, <2>7 DEF LockHolds
    <3> QED
      BY <1>1, <1>2, <2>2, <2>3, <2>4, <2>5, <2>6, <2>7, <3>1, <3>2 DEF LockHolds
  <2>9. BoxesHold'
    BY <1>1, <2>1, <2>2, BoxesRest
  <2> QED
    BY <2>6, <2>8, <2>9
<1> QED
  BY <1>3, <1>4, <1>5 DEF write_result

LEMMA EndKeepsGrading ==
    ASSUME GradingInv, NEW c \in GradeCalls,
           \/ write_report(c) \/ sync_result(c)
           \/ \E result \in (answered \cup {dir.now.result}) \ {None} : review_report(c, result)
    PROVE  GradingInv'
<1> USE DEF GradingInv
<1>1. Ends(c) /\ stamp' \in Nat /\ UNCHANGED << producerImage, box, reaped >>
  BY DEF write_report, sync_result, review_report, CallsHold
<1>2. BoxesHold'
  BY <1>1, NoGradingHolds, BoxesRest DEF Ends
<1>3. CASE write_report(c)
  <2>1. CallsHold' /\ LockHolds'
    BY <1>1, <1>3, CallEnds DEF write_report
  <2> QED
    BY <1>2, <1>3, <2>1 DEF write_report, GradedDirectoryHolds
<1>4. CASE sync_result(c)
  <2>1. /\ holder = c /\ answered = {} /\ dir.now.result # None /\ dir.now.review = None
        /\ DeliveryHolds(dir.now)
    BY <1>4, HolderGrades DEF sync_result, GradeAt
  <2>2. CallsHold' /\ LockHolds'
    BY <1>1, <2>1, CallEnds
  <2>3. GradedDirectoryHolds'
    <3>1. CASE dir' = Synced(dir) /\ answered' = answered \cup {dir.now.result}
      BY <2>1, <3>1 DEF GradedDirectoryHolds, Synced, OnDisk, DeliveryHolds, Deliveries
    <3>2. CASE dir' = Changed(dir, With("result", None)) /\ UNCHANGED answered
      <4>1. DeliveryHolds(With("result", None))
        BY <2>1 DEF With, DeliveryHolds, Deliveries
      <4> QED
        BY <2>1, <3>2, <4>1, WriteKeeps
    <3> QED
      BY <1>4, <3>1, <3>2 DEF sync_result
  <2> QED
    BY <1>2, <2>2, <2>3
<1>5. ASSUME NEW result \in (answered \cup {dir.now.result}) \ {None}, review_report(c, result)
      PROVE  GradingInv'
  <2>1. holder = None /\ UNCHANGED answered
    BY <1>5 DEF review_report
  <2>2. CallsHold' /\ LockHolds'
    BY <1>1, <2>1, CallEnds
  <2>3. GradedDirectoryHolds'
    <3>1. CASE UNCHANGED dir
      BY <2>1, <3>1 DEF GradedDirectoryHolds
    <3>2. CASE dir' # dir
      <4>1. result = dir.now.result /\ DeliveryHolds(dir.now) /\ \A r \in answered : dir.now.result = r
        BY <1>5, <3>2 DEF review_report, GradedDirectoryHolds
      <4>2. DeliveryHolds(With("review", result)) /\ With("review", result).result = dir.now.result
        BY <1>5, <4>1 DEF With, DeliveryHolds, Deliveries
      <4> QED
        BY <1>5, <2>1, <3>2, <4>1, <4>2, WriteKeeps DEF review_report, Written, WriteFails
    <3> QED
      BY <3>1, <3>2
  <2> QED
    BY <1>2, <2>2, <2>3
<1> QED
  BY <1>3, <1>4, <1>5

LEMMA StopKeepsGrading ==
    ASSUME GradingInv, NEW disk, NEW boxes, stop_server(disk, boxes)
    PROVE  GradingInv'
<1> USE DEF GradingInv
<1>1. GradedDirectoryHolds'
  BY DEF stop_server, GradedDirectoryHolds, OnDisk
<1>2. CallsHold'
  BY NoGradingHolds DEF stop_server, CallsHold, StageHolds
<1>3. LockHolds'
  BY NoGradingHolds, GradingAssumption DEF stop_server, LockHolds
<1>4. BoxesHold'
  BY NoGradingHolds DEF stop_server, BoxesHold, GradeAt
<1> QED
  BY <1>1, <1>2, <1>3, <1>4

\* A grade once answered is the delivery's for good, after any crash too, and a
\* container that is confirmed gone does not run.
THEOREM GradingIsSettledAlways == GradingSpec => []GradingIsSettled
<1>1. GradingInit => GradingInv
  <2> SUFFICES ASSUME GradingInit PROVE GradingInv
    OBVIOUS
  <2>1. GradedDirectoryHolds
    BY DEF GradingInit, GradedDirectoryHolds, DeliveryHolds, Deliveries, OnDisk
  <2>2. CallsHold
    BY NoGradingHolds DEF GradingInit, CallsHold, StageHolds
  <2>3. LockHolds /\ BoxesHold
    BY NoGradingHolds, GradingAssumption DEF GradingInit, LockHolds, BoxesHold
  <2> QED
    BY <2>1, <2>2, <2>3 DEF GradingInv
<1>2. GradingInv /\ [GradingNext]_gradingVars => GradingInv'
  <2> SUFFICES ASSUME GradingInv, [GradingNext]_gradingVars PROVE GradingInv'
    OBVIOUS
  <2>1. CASE UNCHANGED gradingVars
    BY <2>1 DEF gradingVars, gradingState, GradingInv, GradedDirectoryHolds, CallsHold, LockHolds, BoxesHold, GradeAt
  <2>2. CASE upgrade \/ change_material
    BY <2>2 DEF upgrade, change_material, GradingInv, GradedDirectoryHolds, CallsHold, LockHolds, BoxesHold, GradeAt
  <2>3. CASE \E disk \in {dir} \cup {OnDisk(d) : d \in dir.after},
                boxes \in {box, [c \in GradeCalls |-> "absent"]} : stop_server(disk, boxes)
    BY <2>3, StopKeepsGrading
  <2>4. ASSUME NEW c \in GradeCalls,
               \/ \E kind \in {"grade", "review"} : grade_student_delivery(c, kind)
               \/ run_docker_grading(c)
               \/ grade(c) \/ write_job(c) \/ write_state(c) \/ write_error(c)
               \/ producer_unavailable(c) \/ docker_run(c) \/ create(c) \/ start_container(c)
               \/ \E outcome \in worker_execution_report : exit(c, outcome)
               \/ terminate_process_group(c) \/ docker_rm(c) \/ remove_docker_container(c)
               \/ write_report(c) \/ write_result(c) \/ sync_result(c)
               \/ \E result \in (answered \cup {dir.now.result}) \ {None} : review_report(c, result)
        PROVE  GradingInv'
    BY <2>4, RequestKeepsGrading, GradeKeepsGrading, JobKeepsGrading, StateKeepsGrading,
       ClientKeepsGrading, BoxKeepsGrading, InspectKeepsGrading, ResultKeepsGrading, EndKeepsGrading
  <2> QED
    BY <2>1, <2>2, <2>3, <2>4 DEF GradingNext
<1>3. GradingInv => GradingIsSettled
  BY DEF GradingInv, GradingIsSettled, GradeIsFinal, ConfirmedIsGone, GradedDirectoryHolds, DeliveryHolds, BoxesHold
<1> QED
  BY <1>1, <1>2, <1>3, PTL DEF GradingSpec

-----------------------------------------------------------------------------
(***************************************************************************)
(* The classroom machine (Installation)                                    *)
(*                                                                         *)
(* The records are kept truthful by what a script knows when it changes    *)
(* them: the bootstrap writes back all that it read, a component is taken  *)
(* from them after it is gone, and all of them are removed when nothing is *)
(* left of what they attribute but WSL.  Before a selection removes the    *)
(* project, each of its earlier stages has either removed the image or kept*)
(* the reference to it.                                                    *)
(***************************************************************************)

Components == Programs \cup {"project", "image", "vm", "distro", "data"}

Stages ==
    {"idle", "prerequisites", "save", "repository", "menu", "wsl", "wsl_log", "docker", "docker_log",
     "image", "finish", "cancelled", "backup", "data", "machine", "image_rm", "programs", "unregister",
     "unlog", "wsl_rm", "project", "remove", "state", "resume", "links", "stopped", "changed"}

Scripts ==
    [pc : Stages, mode : {None, "full", "reset", "select"}, want : SUBSET Components,
     held : Projects \cup {None}, seen : Projects \cup {None}, ref : BOOLEAN, left : SUBSET Programs,
     failed : BOOLEAN, memory : SUBSET Programs, missing : SUBSET Programs, cancel : BOOLEAN]

SetupTypeOK ==
    /\ programs \in SUBSET Programs /\ ours \in SUBSET programs
    /\ bootRecord \in (SUBSET Programs) \cup {None} /\ stepLog \in SUBSET Programs
    /\ checkout \in Projects \cup {None} /\ retained \in BOOLEAN
    /\ script \in Scripts

\* A script at rest, and one that installs: no removal is under way.
Still == {"idle", "cancelled", "stopped", "changed"}
Installing == Still \cup {"prerequisites", "save", "repository", "menu", "wsl", "wsl_log",
                            "docker", "docker_log", "image", "finish"}

\* The bootstrap knows the registry; a script of the menu has its manager.
InstallerHolds ==
    /\ script.pc \in {"prerequisites", "save"} /\ bootRecord # None => bootRecord \subseteq script.memory
    /\ script.pc \in {"menu", "wsl", "wsl_log", "docker", "docker_log", "image", "finish"} => launcher

\* What is taken from the records is gone, and an uninstaller of everything goes on
\* only when all that they attribute is.
UninstallerHolds ==
    /\ script.pc \notin Installing => script.mode \in {"full", "reset", "select"}
    /\ script.pc \in {"unregister", "unlog"} => script.mode = "select" /\ script.memory \cap ours = {}
    /\ Everything =>
          /\ script.pc \in {"backup", "data", "machine", "image_rm", "programs"} =>
                script.failed \/ ours \subseteq script.left \cup {"wsl"}
          /\ script.pc \in {"wsl_rm", "project", "remove", "state"} => ours \subseteq {"wsl"}
          /\ script.pc = "links" => ~runOnce

\* The stages of a removal, up to the one that removes the project.
ImageGone == {"programs", "unregister", "unlog", "wsl_rm", "project", "remove"}
DataGone == {"machine", "image_rm"} \cup ImageGone
Selecting == {"backup", "data"} \cup DataGone

\* All that was asked for is gone by now but WSL.
ProgramsGone ==
    \/ script.pc \in {"wsl_rm", "project", "remove"}
    \/ script.pc \in {"unregister", "unlog"} /\ "wsl" \in script.memory

\* What a selection has done about the work and the image.
SelectionHolds ==
    script.mode = "select" =>
      /\ script.pc \in Selecting =>
            /\ script.held # None => script.held.work \in saved
            /\ checkout # None => script.ref
            /\ "docker" \in script.want =>
                  "data" \in script.want /\ ("docker" \in script.left \/ script.failed \/ ~image)
      /\ script.pc \in DataGone /\ Selects("data") => "docker" \in script.want \/ ~image
      /\ script.pc \in ImageGone /\ Selects("image") => "data" \in script.want \/ ~image
      /\ ProgramsGone => ~script.failed /\ script.left \subseteq {"wsl"}
      /\ script.pc = "remove" => script.seen.work \in saved /\ (image => retained)

SetupInv ==
    /\ SetupTypeOK
    /\ OwnershipIsKept /\ ResumeHasManager
    /\ InstallerHolds /\ UninstallerHolds /\ SelectionHolds

LEMMA QuietIsAScript ==
    /\ Quiet \in Scripts /\ Quiet.pc = "idle"
    /\ \A pc \in Stages : [Quiet EXCEPT !.pc = pc] \in Scripts /\ [Quiet EXCEPT !.pc = pc].pc = pc
    /\ \A pc \in Stages, found \in SUBSET Programs :
          /\ [Quiet EXCEPT !.pc = pc, !.memory = found] \in Scripts
          /\ [Quiet EXCEPT !.pc = pc, !.memory = found].pc = pc
          /\ [Quiet EXCEPT !.pc = pc, !.memory = found].memory = found
          /\ [Quiet EXCEPT !.pc = pc, !.missing = found] \in Scripts
          /\ [Quiet EXCEPT !.pc = pc, !.missing = found].pc = pc
<1>1. Quiet \in Scripts /\ Quiet.pc = "idle"
    BY DEF Quiet, Scripts, Stages
<1>2. ASSUME NEW pc \in Stages PROVE [Quiet EXCEPT !.pc = pc] \in Scripts /\ [Quiet EXCEPT !.pc = pc].pc = pc
    BY <1>1 DEF Scripts
<1>3. ASSUME NEW pc \in Stages, NEW found \in SUBSET Programs
      PROVE /\ [Quiet EXCEPT !.pc = pc, !.memory = found] \in Scripts
            /\ [Quiet EXCEPT !.pc = pc, !.memory = found].pc = pc
            /\ [Quiet EXCEPT !.pc = pc, !.memory = found].memory = found
    BY <1>1 DEF Scripts
<1>4. ASSUME NEW pc \in Stages, NEW found \in SUBSET Programs
      PROVE /\ [Quiet EXCEPT !.pc = pc, !.missing = found] \in Scripts
            /\ [Quiet EXCEPT !.pc = pc, !.missing = found].pc = pc
    BY <1>1 DEF Scripts
<1> QED BY <1>1, <1>2, <1>3, <1>4

\* What is left as it was when a script goes on.
LEMMA ScriptGoesOn ==
    ASSUME script \in Scripts, NEW pc \in Stages, Continue(pc)
    PROVE  /\ script' \in Scripts /\ script'.pc = pc /\ script'.mode = script.mode
           /\ script'.want = script.want /\ script'.held = script.held /\ script'.seen = script.seen
           /\ script'.ref = script.ref /\ script'.left = script.left
           /\ script'.failed = script.failed /\ script'.memory = script.memory
    BY DEF Scripts, Continue

LEMMA ScriptExits == Exit => script' \in Scripts /\ script'.pc = "idle"
    BY QuietIsAScript DEF Exit

LEMMA PlanIsOver == PlanEnds => script' \in Scripts /\ script'.pc \in {"cancelled", "menu"}
<1>1. (IF script.cancel THEN "cancelled" ELSE "menu") \in {"cancelled", "menu"} /\ {"cancelled", "menu"} \subseteq Stages
    BY DEF Stages
<1>2. \A pc \in Stages : script' = [Quiet EXCEPT !.pc = pc] => script' \in Scripts /\ script'.pc = pc
    BY QuietIsAScript
<1> QED
    BY <1>1, <1>2 DEF PlanEnds

\* What the bootstrap and the plan read at their start.
LEMMA BootstrapReads ==
    ASSUME SetupTypeOK, Bootstraps
    PROVE  /\ script' \in Scripts /\ script'.pc = "prerequisites"
           /\ bootRecord # None => script'.memory = bootRecord
<1> DEFINE found == IF bootRecord = None THEN {} ELSE bootRecord
<1>1. found \in SUBSET Programs
  <2>1. CASE bootRecord = None
    BY <2>1
  <2>2. CASE bootRecord # None
    <3>1. bootRecord \in SUBSET Programs
        BY <2>2 DEF SetupTypeOK
    <3> QED
        BY <2>2, <3>1
  <2> QED
    BY <2>1, <2>2
<1>2. script' = [Quiet EXCEPT !.pc = "prerequisites", !.memory = found]
    BY DEF Bootstraps
<1>3. "prerequisites" \in Stages
    BY DEF Stages
<1> HIDE DEF found
<1>4. script' \in Scripts /\ script'.pc = "prerequisites" /\ script'.memory = found
    BY <1>1, <1>2, <1>3, QuietIsAScript
<1> QED
    BY <1>4 DEF found

LEMMA PlanReads ==
    ASSUME script' = [Quiet EXCEPT !.pc = "wsl", !.missing = {"wsl", "docker"} \ programs]
    PROVE  script' \in Scripts /\ script'.pc = "wsl"
<1>1. {"wsl", "docker"} \ programs \in SUBSET Programs /\ "wsl" \in Stages
    BY DEF Programs, Stages
<1> QED
    BY <1>1, QuietIsAScript

\* A removal begins.
LEMMA UninstallStarts ==
    ASSUME NEW mode \in {"full", "reset"}, NEW found \in SUBSET Programs, NEW known \in BOOLEAN,
           script' = [Quiet EXCEPT !.pc = "backup", !.mode = mode, !.left = found, !.ref = known]
    PROVE  script' \in Scripts /\ script'.pc = "backup" /\ script'.mode = mode /\ script'.left = found
<1>1. Quiet \in Scripts
    BY QuietIsAScript
<1> QED
    BY <1>1 DEF Scripts, Stages

LEMMA SelectionStarts ==
    ASSUME NEW want \in SUBSET Components, NEW known \in BOOLEAN,
           script' = [Quiet EXCEPT !.pc = "backup", !.mode = "select", !.want = want,
                                   !.left = want \cap Programs, !.ref = known]
    PROVE  /\ script' \in Scripts /\ script'.pc = "backup" /\ script'.mode = "select"
           /\ script'.want = want /\ script'.left = want \cap Programs /\ script'.ref = known
           /\ script'.held = None
<1>1. Quiet \in Scripts
    BY QuietIsAScript
<1>2. Quiet.held = None
    BY DEF Quiet
<1> QED
    BY <1>1, <1>2 DEF Scripts, Stages

\* No removal, no obligation of one.
LEMMA NothingIsRemoved ==
    ASSUME script'.pc \in Installing
    PROVE  UninstallerHolds' /\ SelectionHolds'
    BY DEF Installing, Still, UninstallerHolds, SelectionHolds, Selecting, DataGone, ImageGone, ProgramsGone,
           Everything

LEMMA NothingIsInstalled ==
    ASSUME script'.pc \notin Installing \/ script'.pc \in Still
    PROVE  InstallerHolds'
    BY DEF Installing, Still, InstallerHolds

LEMMA BootstrapKeepsSetupInv ==
    ASSUME SetupInv, bootstrap PROVE SetupInv'
<1>1. script' \in Scripts /\ script'.pc \in Installing
    BY BootstrapReads
    DEF bootstrap, At, SetupInv, SetupTypeOK, Stages, Installing, Still
<1>2. SetupTypeOK' /\ OwnershipIsKept'
    BY <1>1, SetupAssumption
    DEF bootstrap, At, Bootstraps, folder, links, machine, records, SetupInv, SetupTypeOK,
        Scripts, Projects, Programs, OwnershipIsKept, Attributed
<1>3. ResumeHasManager' /\ InstallerHolds'
    BY <1>1, BootstrapReads
    DEF bootstrap, At, Bootstraps, folder, links, machine, records, SetupInv, SetupTypeOK,
        Stages, ResumeHasManager, InstallerHolds
<1> QED
    BY <1>1, <1>2, <1>3, NothingIsRemoved DEF SetupInv, Installing, Still

LEMMA UpdateClassroomKeepsSetupInv ==
    ASSUME SetupInv, update_classroom PROVE SetupInv'
<1>1. script' \in Scripts /\ script'.pc \in Installing
    BY BootstrapReads
    DEF update_classroom, At, SetupInv, SetupTypeOK, Stages, Installing, Still
<1>2. SetupTypeOK' /\ OwnershipIsKept'
    BY <1>1, SetupAssumption
    DEF update_classroom, At, Bootstraps, folder, links, machine, records, SetupInv,
        SetupTypeOK, Scripts, Projects, Programs, OwnershipIsKept, Attributed
<1>3. ResumeHasManager' /\ InstallerHolds'
    BY <1>1, BootstrapReads
    DEF update_classroom, At, Bootstraps, folder, links, machine, records, SetupInv,
        SetupTypeOK, Stages, ResumeHasManager, InstallerHolds
<1> QED
    BY <1>1, <1>2, <1>3, NothingIsRemoved DEF SetupInv, Installing, Still

LEMMA InstallWingetPackageKeepsSetupInv ==
    ASSUME SetupInv, install_winget_package PROVE SetupInv'
<1>1. script \in Scripts
    BY DEF SetupInv, SetupTypeOK
<1>2. script' \in Scripts /\ script'.pc \in {"repository", "save", "idle"}
      /\ (script'.pc = "save" => script'.memory = script.memory \cup {"git"})
  <2>1. ASSUME script' = [script EXCEPT !.pc = "save", !.memory = @ \cup {"git"}]
        PROVE  script' \in Scripts /\ script'.pc = "save" /\ script'.memory = script.memory \cup {"git"}
    BY <1>1, <2>1 DEF Scripts, Stages, Programs
  <2>2. Continue("repository") => script' \in Scripts /\ script'.pc = "repository"
    BY <1>1, ScriptGoesOn DEF Stages
  <2> QED
    BY <2>1, <2>2, ScriptExits DEF install_winget_package
<1>3. SetupTypeOK' /\ OwnershipIsKept'
    BY <1>2, SetupAssumption
    DEF install_winget_package, At, folder, links, records, SetupInv, SetupTypeOK, Scripts,
        Projects, Programs, OwnershipIsKept, Attributed
<1>4. ResumeHasManager' /\ InstallerHolds'
    BY <1>1, <1>2
    DEF install_winget_package, At, folder, links, records, SetupInv, SetupTypeOK, Stages,
        ResumeHasManager, InstallerHolds
<1> QED
    BY <1>2, <1>3, <1>4, NothingIsRemoved DEF SetupInv, Installing, Still

LEMMA SaveBootstrapStateKeepsSetupInv ==
    ASSUME SetupInv, save_bootstrap_state PROVE SetupInv'
<1>1. script' \in Scripts /\ script'.pc \in Installing
    BY ScriptGoesOn
    DEF save_bootstrap_state, At, SetupInv, SetupTypeOK, Stages, Installing, Still
<1>2. SetupTypeOK' /\ OwnershipIsKept'
    BY <1>1, SetupAssumption
    DEF save_bootstrap_state, At, folder, links, machine, SetupInv, SetupTypeOK, Scripts,
        Projects, Programs, OwnershipIsKept, Attributed, InstallerHolds
<1>3. ResumeHasManager' /\ InstallerHolds'
    BY <1>1, ScriptGoesOn
    DEF save_bootstrap_state, At, folder, links, machine, SetupInv, SetupTypeOK, Stages,
        ResumeHasManager, InstallerHolds
<1> QED
    BY <1>1, <1>2, <1>3, NothingIsRemoved DEF SetupInv, Installing, Still

LEMMA InitializeClassroomRepositoryKeepsSetupInv ==
    ASSUME SetupInv, initialize_classroom_repository PROVE SetupInv'
<1>1. script' \in Scripts /\ script'.pc \in Installing
    BY ScriptGoesOn, ScriptExits
    DEF initialize_classroom_repository, At, SetupInv, SetupTypeOK, Stages, Installing,
        Still
<1>2. SetupTypeOK' /\ OwnershipIsKept'
  <2>1. checkout' \in Projects \cup {None}
    <3>1. [work |-> 0, vm |-> FALSE] \in Projects
        BY SetupAssumption DEF Projects
    <3> QED
        BY <3>1 DEF initialize_classroom_repository, SetupInv, SetupTypeOK
  <2> QED
    BY <1>1, <2>1 DEF initialize_classroom_repository, machine, records, SetupInv, SetupTypeOK, OwnershipIsKept,
                      Attributed
<1>3. ResumeHasManager' /\ InstallerHolds'
    BY <1>1, ScriptGoesOn, ScriptExits
    DEF initialize_classroom_repository, At, machine, records, SetupInv, SetupTypeOK,
        Stages, ResumeHasManager, InstallerHolds
<1> QED
    BY <1>1, <1>2, <1>3, NothingIsRemoved DEF SetupInv, Installing, Still

LEMMA ManageClassroomKeepsSetupInv ==
    ASSUME SetupInv, manage_classroom PROVE SetupInv'
<1>1. script' \in Scripts /\ script'.pc \in Installing
    BY ScriptGoesOn
    DEF manage_classroom, At, SetupInv, SetupTypeOK, Stages, Installing, Still
<1>2. SetupTypeOK' /\ OwnershipIsKept'
    BY <1>1, SetupAssumption
    DEF manage_classroom, At, folder, links, machine, records, SetupInv, SetupTypeOK,
        Scripts, Projects, Programs, OwnershipIsKept, Attributed
<1>3. ResumeHasManager' /\ InstallerHolds'
    BY <1>1, ScriptGoesOn
    DEF manage_classroom, At, folder, links, machine, records, SetupInv, SetupTypeOK,
        Stages, ResumeHasManager, InstallerHolds
<1> QED
    BY <1>1, <1>2, <1>3, NothingIsRemoved DEF SetupInv, Installing, Still

LEMMA StartSelectedKeepsSetupInv ==
    ASSUME SetupInv, start_selected PROVE SetupInv'
<1>1. script' \in Scripts /\ script'.pc \in Installing
    BY QuietIsAScript, PlanReads
    DEF start_selected, At, SetupInv, SetupTypeOK, Stages, Installing, Still
<1>2. SetupTypeOK' /\ OwnershipIsKept'
    BY <1>1, SetupAssumption
    DEF start_selected, At, folder, links, machine, SetupInv, SetupTypeOK, Scripts,
        Projects, Programs, OwnershipIsKept, Attributed
<1>3. ResumeHasManager' /\ InstallerHolds'
    BY <1>1, QuietIsAScript, PlanReads
    DEF start_selected, At, folder, links, machine, SetupInv, SetupTypeOK, Stages,
        ResumeHasManager, InstallerHolds
<1> QED
    BY <1>1, <1>2, <1>3, NothingIsRemoved DEF SetupInv, Installing, Still

LEMMA ResumeAfterRestartKeepsSetupInv ==
    ASSUME SetupInv, resume_after_restart PROVE SetupInv'
<1>1. script' \in Scripts /\ script'.pc \in {"wsl", "menu"}
  <2>1. CASE intent
    BY <2>1, PlanReads DEF resume_after_restart
  <2>2. CASE ~intent
    BY <2>2, QuietIsAScript, ZenonT(60) DEF resume_after_restart, Stages
  <2> QED
    BY <2>1, <2>2
<1>2. SetupTypeOK' /\ OwnershipIsKept'
    BY <1>1, SetupAssumption
    DEF resume_after_restart, At, folder, machine, records, SetupInv, SetupTypeOK, Scripts,
        Projects, Programs, OwnershipIsKept, Attributed
<1>3. ResumeHasManager' /\ InstallerHolds'
    BY <1>1
    DEF resume_after_restart, At, folder, machine, records, SetupInv, SetupTypeOK, Stages,
        ResumeHasManager, InstallerHolds
<1> QED
    BY <1>1, <1>2, <1>3, NothingIsRemoved DEF SetupInv, Installing, Still

LEMMA ConfirmInstallationCancelKeepsSetupInv ==
    ASSUME SetupInv, confirm_installation_cancel PROVE SetupInv'
<1>1. script' \in Scripts /\ script'.pc = script.pc /\ script.pc \in {"wsl", "docker", "image"}
    BY DEF confirm_installation_cancel, SetupInv, SetupTypeOK, Scripts
<1>2. SetupTypeOK' /\ OwnershipIsKept'
    BY <1>1, SetupAssumption
    DEF confirm_installation_cancel, folder, links, machine, records, SetupInv, SetupTypeOK,
        Scripts, Projects, Programs, OwnershipIsKept, Attributed
<1>3. ResumeHasManager' /\ InstallerHolds'
    BY <1>1
    DEF confirm_installation_cancel, folder, links, machine, records, SetupInv, SetupTypeOK,
        Stages, ResumeHasManager, InstallerHolds
<1> QED
    BY <1>1, <1>2, <1>3, NothingIsRemoved DEF SetupInv, Installing, Still

LEMMA SkipStepKeepsSetupInv ==
    ASSUME SetupInv, skip_step PROVE SetupInv'
<1>1. script' \in Scripts /\ script'.pc \in Installing
    BY ScriptGoesOn, PlanIsOver
    DEF skip_step, At, SetupInv, SetupTypeOK, Stages, Installing, Still
<1>2. SetupTypeOK' /\ OwnershipIsKept'
    BY <1>1, SetupAssumption
    DEF skip_step, At, folder, links, machine, SetupInv, SetupTypeOK, Scripts, Projects,
        Programs, OwnershipIsKept, Attributed
<1>3. ResumeHasManager' /\ InstallerHolds'
    BY <1>1, ScriptGoesOn, PlanIsOver
    DEF skip_step, At, folder, links, machine, SetupInv, SetupTypeOK, Stages,
        ResumeHasManager, InstallerHolds
<1> QED
    BY <1>1, <1>2, <1>3, NothingIsRemoved DEF SetupInv, Installing, Still

LEMMA InvokeWslSetupKeepsSetupInv ==
    ASSUME SetupInv, invoke_wsl_setup PROVE SetupInv'
<1>1. script' \in Scripts /\ script'.pc \in Installing
    BY ScriptGoesOn, PlanIsOver
    DEF invoke_wsl_setup, At, SetupInv, SetupTypeOK, Stages, Installing, Still
<1>2. SetupTypeOK' /\ OwnershipIsKept'
    BY <1>1, SetupAssumption
    DEF invoke_wsl_setup, At, folder, SetupInv, SetupTypeOK, Scripts, Projects, Programs,
        OwnershipIsKept, Attributed
<1>3. ResumeHasManager' /\ InstallerHolds'
    BY <1>1, ScriptGoesOn, PlanIsOver
    DEF invoke_wsl_setup, At, folder, SetupInv, SetupTypeOK, Stages, ResumeHasManager,
        InstallerHolds
<1> QED
    BY <1>1, <1>2, <1>3, NothingIsRemoved DEF SetupInv, Installing, Still

LEMMA WingetEnsureKeepsSetupInv ==
    ASSUME SetupInv, winget_ensure PROVE SetupInv'
<1>1. script' \in Scripts /\ script'.pc \in Installing
    BY ScriptGoesOn, PlanIsOver
    DEF winget_ensure, At, SetupInv, SetupTypeOK, Stages, Installing, Still
<1>2. SetupTypeOK' /\ OwnershipIsKept'
    BY <1>1, SetupAssumption
    DEF winget_ensure, At, folder, links, SetupInv, SetupTypeOK, Scripts, Projects,
        Programs, OwnershipIsKept, Attributed
<1>3. ResumeHasManager' /\ InstallerHolds'
    BY <1>1, ScriptGoesOn, PlanIsOver
    DEF winget_ensure, At, folder, links, SetupInv, SetupTypeOK, Stages, ResumeHasManager,
        InstallerHolds
<1> QED
    BY <1>1, <1>2, <1>3, NothingIsRemoved DEF SetupInv, Installing, Still

LEMMA AppendLogKeepsSetupInv ==
    ASSUME SetupInv, append_log PROVE SetupInv'
<1>1. script' \in Scripts /\ script'.pc \in Installing
    BY ScriptGoesOn, ScriptExits, PlanIsOver
    DEF append_log, At, SetupInv, SetupTypeOK, Stages, Installing, Still
<1>2. SetupTypeOK' /\ OwnershipIsKept'
    BY <1>1, SetupAssumption
    DEF append_log, At, folder, links, machine, SetupInv, SetupTypeOK, Scripts, Projects,
        Programs, OwnershipIsKept, Attributed
<1>3. ResumeHasManager' /\ InstallerHolds'
    BY <1>1, ScriptGoesOn, ScriptExits, PlanIsOver
    DEF append_log, At, folder, links, machine, SetupInv, SetupTypeOK, Stages,
        ResumeHasManager, InstallerHolds
<1> QED
    BY <1>1, <1>2, <1>3, NothingIsRemoved DEF SetupInv, Installing, Still

LEMMA PullImageKeepsSetupInv ==
    ASSUME SetupInv, pull_image PROVE SetupInv'
<1>1. script' \in Scripts /\ script'.pc \in Installing
    BY ScriptGoesOn, PlanIsOver
    DEF pull_image, At, SetupInv, SetupTypeOK, Stages, Installing, Still
<1>2. SetupTypeOK' /\ OwnershipIsKept'
    BY <1>1, SetupAssumption
    DEF pull_image, At, folder, links, SetupInv, SetupTypeOK, Scripts, Projects, Programs,
        OwnershipIsKept, Attributed
<1>3. ResumeHasManager' /\ InstallerHolds'
    BY <1>1, ScriptGoesOn, PlanIsOver
    DEF pull_image, At, folder, links, SetupInv, SetupTypeOK, Stages, ResumeHasManager,
        InstallerHolds
<1> QED
    BY <1>1, <1>2, <1>3, NothingIsRemoved DEF SetupInv, Installing, Still

LEMMA PlanFinishedKeepsSetupInv ==
    ASSUME SetupInv, plan_finished PROVE SetupInv'
<1>1. script' \in Scripts /\ script'.pc \in Installing
    BY PlanIsOver
    DEF plan_finished, At, SetupInv, SetupTypeOK, Stages, Installing, Still
<1>2. SetupTypeOK' /\ OwnershipIsKept'
    BY <1>1, SetupAssumption
    DEF plan_finished, At, folder, links, machine, SetupInv, SetupTypeOK, Scripts, Projects,
        Programs, OwnershipIsKept, Attributed
<1>3. ResumeHasManager' /\ InstallerHolds'
    BY <1>1, PlanIsOver
    DEF plan_finished, At, folder, links, machine, SetupInv, SetupTypeOK, Stages,
        ResumeHasManager, InstallerHolds
<1> QED
    BY <1>1, <1>2, <1>3, NothingIsRemoved DEF SetupInv, Installing, Still

LEMMA UninstallRefusedKeepsSetupInv ==
    ASSUME SetupInv, uninstall_refused PROVE SetupInv'
<1>1. script' \in Scripts /\ script'.pc \in Installing
    BY ScriptExits
    DEF uninstall_refused, At, SetupInv, SetupTypeOK, Stages, Installing, Still
<1>2. SetupTypeOK' /\ OwnershipIsKept'
    BY <1>1, SetupAssumption
    DEF uninstall_refused, At, folder, links, machine, records, SetupInv, SetupTypeOK,
        Scripts, Projects, Programs, OwnershipIsKept, Attributed
<1>3. ResumeHasManager' /\ InstallerHolds'
    BY <1>1, ScriptExits
    DEF uninstall_refused, At, folder, links, machine, records, SetupInv, SetupTypeOK,
        Stages, ResumeHasManager, InstallerHolds
<1> QED
    BY <1>1, <1>2, <1>3, NothingIsRemoved DEF SetupInv, Installing, Still

LEMMA CloseWindowKeepsSetupInv ==
    ASSUME SetupInv, close_window PROVE SetupInv'
<1>1. script' \in Scripts /\ script'.pc \in Installing
    BY ScriptExits
    DEF close_window, SetupInv, SetupTypeOK, Stages, Installing, Still
<1>2. SetupTypeOK' /\ OwnershipIsKept'
    BY <1>1, SetupAssumption
    DEF close_window, folder, links, machine, records, SetupInv, SetupTypeOK, Scripts,
        Projects, Programs, OwnershipIsKept, Attributed
<1>3. ResumeHasManager' /\ InstallerHolds'
    BY <1>1, ScriptExits
    DEF close_window, folder, links, machine, records, SetupInv, SetupTypeOK, Stages,
        ResumeHasManager, InstallerHolds
<1> QED
    BY <1>1, <1>2, <1>3, NothingIsRemoved DEF SetupInv, Installing, Still

LEMMA InterruptedKeepsSetupInv ==
    ASSUME SetupInv, interrupted PROVE SetupInv'
<1>1. script' \in Scripts /\ script'.pc \in Installing
    BY ScriptExits
    DEF interrupted, At, SetupInv, SetupTypeOK, Stages, Installing, Still
<1>2. SetupTypeOK' /\ OwnershipIsKept'
    BY <1>1, SetupAssumption
    DEF interrupted, At, folder, links, machine, records, SetupInv, SetupTypeOK, Scripts,
        Projects, Programs, OwnershipIsKept, Attributed
<1>3. ResumeHasManager' /\ InstallerHolds'
    BY <1>1, ScriptExits
    DEF interrupted, At, folder, links, machine, records, SetupInv, SetupTypeOK, Stages,
        ResumeHasManager, InstallerHolds
<1> QED
    BY <1>1, <1>2, <1>3, NothingIsRemoved DEF SetupInv, Installing, Still

LEMMA UninstallEverythingKeepsSetupInv ==
    ASSUME SetupInv, uninstall_everything PROVE SetupInv'
<1>1. script' \in Scripts /\ script'.pc = "backup" /\ script'.mode \in {"full", "reset"} /\ script'.left = Attributed
  <2>1. Attributed \in SUBSET Programs /\ ImageReference \in BOOLEAN
    BY DEF SetupInv, SetupTypeOK, Attributed, ImageReference
  <2> HIDE DEF Attributed, ImageReference
  <2>2. \A mode \in {"full", "reset"} :
          script' = [Quiet EXCEPT !.pc = "backup", !.mode = mode, !.left = Attributed, !.ref = ImageReference]
            => script' \in Scripts /\ script'.pc = "backup" /\ script'.mode = mode /\ script'.left = Attributed
    BY <2>1, UninstallStarts
  <2> QED
    BY <2>2 DEF uninstall_everything
<1>2. SetupTypeOK' /\ OwnershipIsKept' /\ ResumeHasManager'
    BY <1>1, SetupAssumption
    DEF uninstall_everything, At, Attributed, folder, links, machine, records, SetupInv,
        SetupTypeOK, Scripts, Projects, Programs, OwnershipIsKept, ResumeHasManager
<1>3. UninstallerHolds'
    BY <1>1 DEF SetupInv, OwnershipIsKept, SetupTypeOK, UninstallerHolds, Everything, Installing, Still, uninstall_everything, records
<1>4. SelectionHolds'
    BY <1>1 DEF SelectionHolds
<1> QED
    BY <1>1, <1>2, <1>3, <1>4, NothingIsInstalled DEF SetupInv, Installing, Still

LEMMA SelectComponentsKeepsSetupInv ==
    ASSUME SetupInv, select_components PROVE SetupInv'
<1>1. /\ script' \in Scripts /\ script'.pc = "backup" /\ script'.mode = "select" /\ script'.held = None
      /\ checkout # None => script'.ref
      /\ "docker" \in script'.want => "data" \in script'.want /\ "docker" \in script'.left
  <2>1. PICK want \in SUBSET (Options \cap Ticked) \ {{}} :
          /\ Allowed(want)
          /\ script' = [Quiet EXCEPT !.pc = "backup", !.mode = "select", !.want = want, !.left = want \cap Programs,
                                     !.ref = ImageReference]
    BY DEF select_components
  <2>2. Options \subseteq Components
    BY DEF SetupInv, SetupTypeOK, Options, Attributed, Components, Programs
  <2>3. ImageReference \in BOOLEAN /\ (checkout # None => ImageReference)
    BY DEF SetupInv, SetupTypeOK, ImageReference
  <2>4. want \in SUBSET Components /\ ("docker" \in want => "data" \in want)
    BY <2>1, <2>2 DEF Allowed
  <2> QED
    BY <2>1, <2>3, <2>4, SelectionStarts DEF Programs
<1>2. SetupTypeOK' /\ OwnershipIsKept' /\ ResumeHasManager'
    BY <1>1, SetupAssumption
    DEF select_components, folder, links, machine, records, SetupInv, SetupTypeOK, OwnershipIsKept,
        Attributed, ResumeHasManager
<1>3. UninstallerHolds'
    BY <1>1 DEF UninstallerHolds, Everything, Installing, Still
<1>4. SelectionHolds'
    BY <1>1 DEF SelectionHolds, Selecting, DataGone, ImageGone, ProgramsGone, Selects, select_components, folder
<1> QED
    BY <1>1, <1>2, <1>3, <1>4, NothingIsInstalled DEF SetupInv, Installing, Still

LEMMA StopKeepsSetupInv ==
    ASSUME SetupInv, Exit, UNCHANGED << records, machine, links, folder >>
    PROVE  SetupInv'
<1>1. script' \in Scripts /\ script'.pc = "idle"
    BY ScriptExits
<1>2. SetupTypeOK' /\ OwnershipIsKept' /\ ResumeHasManager'
    BY <1>1 DEF SetupInv, SetupTypeOK, OwnershipIsKept, Attributed, ResumeHasManager, records, machine, links, folder
<1> QED
    BY <1>1, <1>2, NothingIsRemoved, NothingIsInstalled DEF SetupInv, Installing, Still

\* What a stage of a removal leaves of the script, and what makes the next one sound.
Same ==
    /\ script'.mode = script.mode /\ script'.want = script.want /\ script'.ref = script.ref
    /\ script'.left = script.left /\ script'.failed = script.failed

LEMMA StageKeepsSetupInv ==
    ASSUME SetupInv, script' \in Scripts, script'.pc \in Stages \ Installing,
           SetupTypeOK', OwnershipIsKept', ResumeHasManager', UninstallerHolds', SelectionHolds'
    PROVE  SetupInv'
    BY NothingIsInstalled DEF SetupInv

LEMMA BackupProjectKeepsSetupInv ==
    ASSUME SetupInv, backup_project PROVE SetupInv'
<1>1. CASE Exit /\ saved' = saved
    BY <1>1, StopKeepsSetupInv DEF backup_project, folder
<1>2. CASE ~(Exit /\ saved' = saved)
  <2>1. script \in Scripts /\ checkout \in Projects \cup {None}
    BY DEF SetupInv, SetupTypeOK
  <2>2. ASSUME script' = [script EXCEPT !.pc = "data", !.held = checkout]
        PROVE  script' \in Scripts /\ script'.pc = "data" /\ script'.held = checkout /\ Same
    BY <2>1, <2>2 DEF Scripts, Stages, Same
  <2>3. /\ script' \in Scripts /\ script'.pc = "data" /\ Same /\ script.pc = "backup"
        /\ \/ script'.held = script.held /\ saved' = saved
           \/ script'.held = checkout /\ checkout # None /\ saved' = saved \cup {checkout.work}
    BY <1>2, <2>1, <2>2, ScriptGoesOn DEF backup_project, Stops, Stages, At, Same
  <2>4. SetupTypeOK' /\ OwnershipIsKept' /\ ResumeHasManager'
    BY <2>3 DEF backup_project, records, machine, links, SetupInv, SetupTypeOK, OwnershipIsKept, Attributed,
                ResumeHasManager
  <2>5. UninstallerHolds'
    BY <2>3 DEF backup_project, records, machine, links, SetupInv, UninstallerHolds, Everything, Installing, Still, Same
  <2>6. SelectionHolds'
    BY <2>3 DEF backup_project, records, machine, links, SetupInv, SelectionHolds, Selecting, DataGone, ImageGone,
                ProgramsGone, Same
  <2> QED
    BY <2>3, <2>4, <2>5, <2>6, StageKeepsSetupInv DEF Stages, Installing, Still
<1> QED
    BY <1>1, <1>2

LEMMA RemoveSelectedDataKeepsSetupInv ==
    ASSUME SetupInv, remove_selected_data PROVE SetupInv'
<1>1. CASE Stops /\ UNCHANGED << distro, image, retained >>
    BY <1>1, StopKeepsSetupInv DEF remove_selected_data, Stops, records, machine
<1>2. CASE ~(Stops /\ UNCHANGED << distro, image, retained >>)
  <2>1. /\ script' \in Scripts /\ script'.pc = "machine" /\ Same /\ script'.held = script.held
        /\ script.pc = "data" /\ (Selects("data") /\ ~Selects("docker") => ~image')
        /\ (image' => image) /\ retained' \in BOOLEAN
    BY <1>2, ScriptGoesOn DEF remove_selected_data, At, Same, Stages, SetupInv, SetupTypeOK
  <2>2. SetupTypeOK' /\ OwnershipIsKept' /\ ResumeHasManager'
    BY <2>1 DEF remove_selected_data, records, links, folder, SetupInv, SetupTypeOK, OwnershipIsKept, Attributed,
                ResumeHasManager
  <2>3. UninstallerHolds'
    BY <2>1 DEF remove_selected_data, links, SetupInv, UninstallerHolds, Everything, Installing, Still, Same
  <2>4. SelectionHolds'
    BY <2>1 DEF remove_selected_data, folder, SetupInv, SelectionHolds, Selecting, DataGone, ImageGone, Selects,
                ProgramsGone, Same
  <2> QED
    BY <2>1, <2>2, <2>3, <2>4, StageKeepsSetupInv DEF Stages, Installing, Still
<1> QED
    BY <1>1, <1>2

LEMMA RemoveClassroomVirtualMachinesKeepsSetupInv ==
    ASSUME SetupInv, remove_classroom_virtual_machines PROVE SetupInv'
<1>1. CASE Stops /\ UNCHANGED checkout
    BY <1>1, StopKeepsSetupInv DEF remove_classroom_virtual_machines, Stops, folder
<1>2. CASE ~(Stops /\ UNCHANGED checkout)
  <2>1. /\ script' \in Scripts /\ script'.pc = "image_rm" /\ Same /\ script'.held = script.held
        /\ script.pc = "machine"
    BY <1>2, ScriptGoesOn DEF remove_classroom_virtual_machines, At, Same, Stages, SetupInv, SetupTypeOK
  <2>2. checkout' \in Projects \cup {None} /\ (checkout' # None => checkout # None)
    BY <1>2 DEF remove_classroom_virtual_machines, Projects, SetupInv, SetupTypeOK
  <2>3. SetupTypeOK' /\ OwnershipIsKept' /\ ResumeHasManager'
    BY <2>1, <2>2 DEF remove_classroom_virtual_machines, records, machine, links, SetupInv, SetupTypeOK,
                      OwnershipIsKept, Attributed, ResumeHasManager
  <2>4. UninstallerHolds'
    BY <2>1 DEF remove_classroom_virtual_machines, records, links, SetupInv, UninstallerHolds, Everything, Installing, Still, Same
  <2>5. SelectionHolds'
    BY <2>1, <2>2 DEF remove_classroom_virtual_machines, machine, SetupInv, SelectionHolds, Selecting, DataGone,
                      ImageGone, Selects, ProgramsGone, Same
  <2> QED
    BY <2>1, <2>3, <2>4, <2>5, StageKeepsSetupInv DEF Stages, Installing, Still
<1> QED
    BY <1>1, <1>2

LEMMA RemoveImageKeepsSetupInv ==
    ASSUME SetupInv, remove_image PROVE SetupInv'
<1>1. CASE Exit /\ UNCHANGED << image, retained >>
    BY <1>1, StopKeepsSetupInv DEF remove_image, records, machine
<1>2. CASE ~(Exit /\ UNCHANGED << image, retained >>)
  <2> DEFINE asked == (Everything /\ script.ref) \/ (Selects("image") /\ ~Selects("data"))
  <2>1. /\ Continue("programs") /\ script.pc = "image_rm" /\ (image' => image) /\ retained' \in BOOLEAN
        /\ script.mode = "select" /\ Selects("image") => Selects("data") \/ ~image'
    <3>1. /\ Continue("programs") /\ script.pc = "image_rm"
          /\ \/ image' = (image /\ ~asked) /\ retained' = (retained /\ ~(asked /\ script.mode = "select"))
             \/ Everything /\ image' = image /\ retained' = retained
      BY <1>2 DEF remove_image, At
    <3> HIDE DEF asked
    <3>2. image' => image
      BY <3>1, Zenon
    <3>3. script.mode = "select" => ~Everything
      BY DEF Everything
    <3>5. script.mode = "select" /\ asked => ~image'
      BY <3>1, <3>3, Zenon
    <3>4. retained' \in BOOLEAN
      BY <3>1 DEF SetupInv, SetupTypeOK
    <3> QED
      BY <3>1, <3>2, <3>4, <3>5 DEF asked
  <2>2. script' \in Scripts /\ script'.pc = "programs" /\ Same /\ script'.held = script.held
    BY <2>1, ScriptGoesOn DEF Same, Stages, SetupInv, SetupTypeOK
  <2>3. SetupTypeOK' /\ OwnershipIsKept' /\ ResumeHasManager'
    BY <2>1, <2>2 DEF remove_image, records, links, folder, SetupInv, SetupTypeOK, OwnershipIsKept, Attributed,
                ResumeHasManager
  <2>4. UninstallerHolds'
    BY <2>1, <2>2 DEF remove_image, links, SetupInv, UninstallerHolds, Everything, Installing, Still, Same
  <2>5. SelectionHolds'
    BY <2>1, <2>2 DEF remove_image, folder, SetupInv, SelectionHolds, Selecting, DataGone, ImageGone, Selects,
                ProgramsGone, Same
  <2> QED
    BY <2>2, <2>3, <2>4, <2>5, StageKeepsSetupInv DEF Stages, Installing, Still
<1> QED
    BY <1>1, <1>2

\* What becomes of the program that is next, and what the script knows of it.
LEMMA UninstallPackageSteps ==
    ASSUME SetupInv, uninstall_package
    PROVE  \E p \in {"docker", "git"} \cap script.left :
             /\ script.pc = "programs" /\ script' \in Scripts
             /\ script'.mode = script.mode /\ script'.want = script.want /\ script'.ref = script.ref
             /\ script'.held = script.held /\ script'.left = script.left \ {p}
             /\ \/ /\ Gone(p) /\ script'.failed = script.failed
                   /\ IF script.mode = "select" THEN script'.pc = "unregister" /\ script'.memory = {p}
                      ELSE script'.pc = "programs"
                \/ /\ script'.pc = "programs" /\ UNCHANGED << programs, ours, image >>
                   /\ script'.failed \/ (p \notin programs /\ script.mode # "select" /\ script'.failed = script.failed)
<1>1. PICK p \in {IF "docker" \in script.left THEN "docker" ELSE "git"} \cap script.left :
          \/ /\ p \in programs /\ NoFault /\ Gone(p)
             /\ script' = [script EXCEPT !.left = @ \ {p}, !.memory = IF script.mode = "select" THEN {p} ELSE {},
                                         !.pc = IF script.mode = "select" THEN "unregister" ELSE "programs"]
          \/ /\ p \in programs /\ Fault(SetupFaults)
             /\ script' = [script EXCEPT !.left = @ \ {p}, !.failed = TRUE]
             /\ UNCHANGED << programs, ours, image >>
          \/ /\ p \notin programs /\ NoFault
             /\ script' = [script EXCEPT !.left = @ \ {p}, !.failed = @ \/ script.mode = "select"]
             /\ UNCHANGED << programs, ours, image >>
    BY DEF uninstall_package
<1>2. p \in {"docker", "git"} \cap script.left /\ script.pc = "programs" /\ script \in Scripts
    BY DEF uninstall_package, At, SetupInv, SetupTypeOK
<1>3. p \in Programs
    BY <1>2 DEF Programs
<1>4. CASE /\ Gone(p)
           /\ script' = [script EXCEPT !.left = @ \ {p}, !.memory = IF script.mode = "select" THEN {p} ELSE {},
                                       !.pc = IF script.mode = "select" THEN "unregister" ELSE "programs"]
  <2>1. CASE script.mode = "select"
    BY <1>2, <1>3, <1>4, <2>1 DEF Scripts, Stages
  <2>2. CASE script.mode # "select"
    BY <1>2, <1>3, <1>4, <2>2 DEF Scripts, Stages
  <2> QED
    BY <2>1, <2>2
<1>5. CASE script' = [script EXCEPT !.left = @ \ {p}, !.failed = TRUE] /\ UNCHANGED << programs, ours, image >>
    BY <1>2, <1>5 DEF Scripts
<1>6. CASE /\ p \notin programs /\ UNCHANGED << programs, ours, image >>
           /\ script' = [script EXCEPT !.left = @ \ {p}, !.failed = @ \/ script.mode = "select"]
  <2>1. CASE script.mode = "select"
    <3>1. script' = [script EXCEPT !.left = @ \ {p}, !.failed = TRUE]
      BY <1>6, <2>1
    <3> QED
      BY <1>2, <1>6, <3>1 DEF Scripts
  <2>2. CASE script.mode # "select"
    <3>1. script' = [script EXCEPT !.left = @ \ {p}]
      BY <1>2, <1>6, <2>2 DEF Scripts
    <3> QED
      BY <1>2, <1>6, <2>2, <3>1 DEF Scripts
  <2> QED
    BY <2>1, <2>2
<1> QED
    BY <1>1, <1>4, <1>5, <1>6

LEMMA UninstallPackageKeepsSetupInv ==
    ASSUME SetupInv, uninstall_package PROVE SetupInv'
<1>1. PICK p \in {"docker", "git"} \cap script.left :
        /\ script.pc = "programs" /\ script' \in Scripts
        /\ script'.mode = script.mode /\ script'.want = script.want /\ script'.ref = script.ref
        /\ script'.held = script.held /\ script'.left = script.left \ {p}
        /\ \/ /\ Gone(p) /\ script'.failed = script.failed
              /\ IF script.mode = "select" THEN script'.pc = "unregister" /\ script'.memory = {p}
                 ELSE script'.pc = "programs"
           \/ /\ script'.pc = "programs" /\ UNCHANGED << programs, ours, image >>
              /\ script'.failed \/ (p \notin programs /\ script.mode # "select" /\ script'.failed = script.failed)
    BY UninstallPackageSteps
<1>2. /\ ours' = ours \/ ours' = ours \ {p}
      /\ (image' => image) /\ UNCHANGED << bootRecord, stepLog, retained, links, folder >>
  <2>1. Gone(p) => ours' = ours \ {p} /\ (image' => image)
    BY DEF Gone
  <2> QED
    BY <1>1, <2>1 DEF uninstall_package
<1>3. SetupTypeOK' /\ OwnershipIsKept' /\ ResumeHasManager'
    BY <1>1, <1>2 DEF links, folder, Gone, SetupInv, SetupTypeOK, OwnershipIsKept, Attributed, ResumeHasManager
<1>4. UninstallerHolds'
    BY <1>1, <1>2 DEF links, Gone, SetupInv, SetupTypeOK, UninstallerHolds, Everything, Installing, Still
<1>5. SelectionHolds'
    BY <1>1, <1>2 DEF folder, Gone, SetupInv, SelectionHolds, Selecting, DataGone, ImageGone, Selects, ProgramsGone
<1>6. script'.pc \in Stages \ Installing
    BY <1>1 DEF Stages, Installing, Still
<1> QED
    BY <1>1, <1>3, <1>4, <1>5, <1>6, StageKeepsSetupInv

\* The component is gone, which its record is taken from one after the other.
LEMMA SaveUninstalledComponentKeepsSetupInv ==
    ASSUME SetupInv, save_uninstalled_component PROVE SetupInv'
<1>1. script \in Scripts /\ script.mode = "select" /\ script.memory \cap ours = {} /\ ~Everything
    BY DEF save_uninstalled_component, At, SetupInv, SetupTypeOK, UninstallerHolds, Everything, Installing, Still
<1>2. /\ script' \in Scripts /\ Same /\ script'.held = script.held /\ script'.memory = script.memory
      /\ script'.pc \in {"unlog", "programs", "project"} /\ script.pc \in {"unregister", "unlog"}
      /\ script'.pc = "unlog" => script.pc = "unregister"
      /\ script'.pc = "project" => "wsl" \in script.memory
    BY <1>1, ScriptGoesOn DEF save_uninstalled_component, At, Same, Stages
<1>3. SetupTypeOK' /\ OwnershipIsKept' /\ ResumeHasManager'
  <2>1. /\ bootRecord' \in (SUBSET Programs) \cup {None} /\ stepLog' \in SUBSET Programs /\ retained' \in BOOLEAN
        /\ bootRecord' = bootRecord \/ (bootRecord # None /\ bootRecord' = bootRecord \ script.memory)
        /\ stepLog' = stepLog \/ stepLog' = stepLog \ script.memory
    BY DEF save_uninstalled_component, SetupInv, SetupTypeOK
  <2>2. bootRecord # None => bootRecord' # None
    BY <2>1, SetupAssumption DEF SetupInv, SetupTypeOK
  <2> QED
    BY <1>1, <1>2, <2>1, <2>2 DEF save_uninstalled_component, machine, links, folder, SetupInv, SetupTypeOK,
                                  OwnershipIsKept, Attributed, ResumeHasManager
<1>4. UninstallerHolds'
    BY <1>1, <1>2 DEF save_uninstalled_component, links, Same, UninstallerHolds, Everything, Installing, Still
<1>5. SelectionHolds'
    BY <1>1, <1>2 DEF save_uninstalled_component, machine, folder, Same, SetupInv, SelectionHolds, Selecting,
                      DataGone, ImageGone, Selects, ProgramsGone
<1> QED
    BY <1>2, <1>3, <1>4, <1>5, StageKeepsSetupInv DEF Stages, Installing, Still

LEMMA PackagesRemovedKeepsSetupInv ==
    ASSUME SetupInv, packages_removed PROVE SetupInv'
<1>1. /\ script' \in Scripts /\ Same /\ script'.held = script.held /\ script.left \subseteq {"wsl"}
      /\ script.pc = "programs" /\ script'.pc \in {"stopped", "wsl_rm"}
      /\ script'.pc = "wsl_rm" => ~script.failed
    BY ScriptGoesOn DEF packages_removed, At, Same, Stages, SetupInv, SetupTypeOK
<1>2. SetupTypeOK' /\ OwnershipIsKept' /\ ResumeHasManager'
    BY <1>1 DEF packages_removed, records, machine, links, folder, SetupInv, SetupTypeOK, OwnershipIsKept,
                Attributed, ResumeHasManager
<1>3. UninstallerHolds'
    BY <1>1 DEF packages_removed, records, links, Same, SetupInv, UninstallerHolds, Everything, Installing, Still
<1>4. SelectionHolds'
    BY <1>1 DEF packages_removed, records, machine, folder, Same, SetupInv, SelectionHolds, Selecting,
                DataGone, ImageGone, Selects, ProgramsGone
<1> QED
    BY <1>1, <1>2, <1>3, <1>4, NothingIsInstalled DEF SetupInv, Installing, Still

LEMMA RemoveWslKeepsSetupInv ==
    ASSUME SetupInv, remove_wsl PROVE SetupInv'
<1>1. script \in Scripts /\ script.pc = "wsl_rm"
    BY DEF remove_wsl, At, SetupInv, SetupTypeOK
<1>2. /\ script' \in Scripts /\ Same /\ script'.held = script.held
      /\ script'.pc \in {"project", "stopped", "unregister"}
      /\ script'.pc = "unregister" => ~Everything /\ script'.memory = {"wsl"} /\ ours' = ours \ {"wsl"}
      /\ \/ programs' = programs /\ ours' = ours
         \/ programs' = programs \ {"wsl"} /\ ours' = ours \ {"wsl"}
  <2>1. ASSUME NEW pc \in {"project", "unregister"}, script' = [script EXCEPT !.pc = pc, !.memory = {"wsl"}]
        PROVE  /\ script' \in Scripts /\ Same /\ script'.held = script.held
               /\ script'.pc = pc /\ script'.memory = {"wsl"}
    BY <1>1, <2>1 DEF Scripts, Stages, Programs, Same
  <2>2. \A pc \in {"project", "stopped"} :
          Continue(pc) => script' \in Scripts /\ Same /\ script'.held = script.held /\ script'.pc = pc
    BY <1>1, ScriptGoesOn DEF Stages, Same
  <2>3. CASE /\ programs' = programs \ {"wsl"} /\ ours' = ours \ {"wsl"}
             /\ script' = [script EXCEPT !.pc = IF Everything THEN "project" ELSE "unregister", !.memory = {"wsl"}]
    <3>1. CASE Everything
      BY <2>1, <2>3, <3>1
    <3>2. CASE ~Everything
      BY <2>1, <2>3, <3>2
    <3> QED
      BY <3>1, <3>2
  <2>4. CASE (Continue("project") \/ Continue("stopped")) /\ UNCHANGED << programs, ours >>
    BY <2>2, <2>4
  <2> QED
    BY <2>3, <2>4 DEF remove_wsl
<1>3. SetupTypeOK' /\ OwnershipIsKept' /\ ResumeHasManager'
    BY <1>2 DEF remove_wsl, links, folder, SetupInv, SetupTypeOK, OwnershipIsKept, Attributed, ResumeHasManager
<1>4. UninstallerHolds'
    BY <1>1, <1>2 DEF remove_wsl, links, Same, SetupInv, SetupTypeOK, Scripts, UninstallerHolds, Everything, Installing, Still
<1>5. SelectionHolds'
    BY <1>1, <1>2 DEF remove_wsl, folder, Same, SetupInv, SelectionHolds, Selecting, DataGone, ImageGone,
                      Selects, ProgramsGone
<1> QED
    BY <1>2, <1>3, <1>4, <1>5, NothingIsInstalled DEF SetupInv, Installing, Still

LEMMA CheckProjectKeepsSetupInv ==
    ASSUME SetupInv, check_project PROVE SetupInv'
<1> DEFINE known == script.mode = "select" /\ script.want \cap {"image", "data"} = {} /\ script.ref
<1>1. /\ script' \in Scripts /\ Same /\ script'.held = script.held /\ script.pc = "project"
      /\ script'.pc \in {"state", "changed", "stopped", "remove"}
      /\ script'.pc = "remove" =>
            /\ checkout # None /\ script'.seen = checkout /\ retained' = (retained \/ known)
            /\ script.mode = "select" => checkout = script.held
  <2>1. script \in Scripts /\ checkout \in Projects \cup {None} /\ script.pc = "project"
    BY DEF check_project, At, SetupInv, SetupTypeOK
  <2>2. ASSUME script' = [script EXCEPT !.pc = "remove", !.seen = checkout]
        PROVE  /\ script' \in Scripts /\ Same /\ script'.held = script.held
               /\ script'.pc = "remove" /\ script'.seen = checkout
    BY <2>1, <2>2 DEF Scripts, Stages, Same
  <2>3. \A pc \in {"state", "changed", "stopped"} :
          Continue(pc) => script' \in Scripts /\ Same /\ script'.held = script.held /\ script'.pc = pc
    BY <2>1, ScriptGoesOn DEF Stages, Same
  <2> QED
    BY <2>1, <2>2, <2>3 DEF check_project, Unchanged
<1>2. /\ retained' \in BOOLEAN
      /\ UNCHANGED << programs, ours, bootRecord, stepLog, checkout, saved, image, launcher, runOnce >>
    BY DEF check_project, machine, links, folder, SetupInv, SetupTypeOK
<1>3. SetupTypeOK' /\ OwnershipIsKept' /\ ResumeHasManager'
    BY <1>1, <1>2 DEF SetupInv, SetupTypeOK, OwnershipIsKept, Attributed, ResumeHasManager
<1>4. UninstallerHolds'
    BY <1>1, <1>2 DEF Same, SetupInv, UninstallerHolds, Everything, Installing, Still
<1>5. SelectionHolds'
  <2>1. CASE script'.pc # "remove"
    BY <1>1, <1>2, <2>1 DEF Same, SetupInv, SelectionHolds, Selecting, DataGone, ImageGone, Selects, ProgramsGone
  <2>2. CASE script'.pc = "remove" /\ script.mode = "select"
    <3>1. script.held # None /\ script'.seen.work \in saved
      BY <1>1, <2>2 DEF SetupInv, SelectionHolds, Selecting, DataGone, ImageGone
    <3>2. image => known
      BY <1>1, <2>2 DEF SetupInv, SetupTypeOK, Scripts, SelectionHolds, Selecting, DataGone, ImageGone, Selects, ProgramsGone
    <3>3. image => retained'
      BY <1>1, <2>2, <3>2
    <3> QED
      BY <1>1, <1>2, <2>2, <3>1, <3>3 DEF Same, SetupInv, SelectionHolds, Selecting, DataGone, ImageGone, Selects,
                                          ProgramsGone
  <2> QED
    BY <1>1, <2>1, <2>2 DEF Same, SelectionHolds
<1> QED
    BY <1>1, <1>3, <1>4, <1>5, NothingIsInstalled DEF SetupInv, Installing, Still

LEMMA RemoveProjectKeepsSetupInv ==
    ASSUME SetupInv, remove_project PROVE SetupInv'
<1>1. script' \in Scripts /\ Same /\ script.pc = "remove" /\ script'.pc = "state"
    BY ScriptGoesOn DEF remove_project, At, Same, Stages, SetupInv, SetupTypeOK
<1>2. SetupTypeOK' /\ OwnershipIsKept' /\ ResumeHasManager'
    BY <1>1 DEF remove_project, records, machine, links, SetupInv, SetupTypeOK, OwnershipIsKept, Attributed,
                ResumeHasManager
<1>3. UninstallerHolds'
    BY <1>1 DEF remove_project, records, Same, SetupInv, UninstallerHolds, Everything, Installing, Still
<1>4. SelectionHolds'
    BY <1>1 DEF SelectionHolds, Selecting, DataGone, ImageGone, ProgramsGone
<1> QED
    BY <1>1, <1>2, <1>3, <1>4, StageKeepsSetupInv DEF Stages, Installing, Still

LEMMA RemoveStateKeepsSetupInv ==
    ASSUME SetupInv, remove_state PROVE SetupInv'
<1>1. script' \in Scripts /\ Same /\ script.pc = "state" /\ script'.pc = "resume"
    BY ScriptGoesOn DEF remove_state, At, Same, Stages, SetupInv, SetupTypeOK
<1>2. SetupTypeOK' /\ OwnershipIsKept' /\ ResumeHasManager'
  <2>1. CASE Everything
    BY <1>1, <2>1 DEF remove_state, machine, links, folder, SetupInv, SetupTypeOK, OwnershipIsKept,
                      UninstallerHolds, ResumeHasManager
  <2>2. CASE ~Everything
    BY <1>1, <2>2 DEF remove_state, machine, links, folder, SetupInv, SetupTypeOK, OwnershipIsKept, Attributed,
                      ResumeHasManager
  <2> QED
    BY <2>1, <2>2
<1>3. UninstallerHolds'
    BY <1>1 DEF Same, SetupInv, UninstallerHolds, Everything, Installing, Still
<1>4. SelectionHolds'
    BY <1>1 DEF SelectionHolds, Selecting, DataGone, ImageGone, ProgramsGone
<1> QED
    BY <1>1, <1>2, <1>3, <1>4, StageKeepsSetupInv DEF Stages, Installing, Still

LEMMA RemoveRunOnceKeepsSetupInv ==
    ASSUME SetupInv, remove_run_once PROVE SetupInv'
<1>1. script' \in Scripts /\ Same /\ script.pc = "resume" /\ script'.pc = "links"
    BY ScriptGoesOn DEF remove_run_once, At, Same, Stages, SetupInv, SetupTypeOK
<1>2. (runOnce' => runOnce) /\ (Everything => ~runOnce')
    BY DEF remove_run_once, RemovesRunOnce
<1>3. SetupTypeOK' /\ OwnershipIsKept' /\ ResumeHasManager'
    BY <1>1, <1>2 DEF remove_run_once, records, machine, folder, SetupInv, SetupTypeOK, OwnershipIsKept, Attributed,
                      ResumeHasManager
<1>4. UninstallerHolds'
    BY <1>1, <1>2 DEF Same, SetupInv, UninstallerHolds, Everything, Installing, Still
<1>5. SelectionHolds'
    BY <1>1 DEF SelectionHolds, Selecting, DataGone, ImageGone, ProgramsGone
<1> QED
    BY <1>1, <1>3, <1>4, <1>5, StageKeepsSetupInv DEF Stages, Installing, Still

LEMMA RemoveLauncherKeepsSetupInv ==
    ASSUME SetupInv, remove_launcher PROVE SetupInv'
<1>1. script' \in Scripts /\ script.pc = "links" /\ script'.pc = "idle"
    BY ScriptExits DEF remove_launcher, At
<1>2. ResumeHasManager'
  <2>1. Everything => ~runOnce
    BY <1>1 DEF SetupInv, UninstallerHolds
  <2>2. ~Everything => (launcher => launcher')
    BY DEF remove_launcher
  <2> QED
    BY <2>1, <2>2 DEF remove_launcher, SetupInv, ResumeHasManager
<1>3. SetupTypeOK' /\ OwnershipIsKept'
    BY <1>1 DEF remove_launcher, records, machine, folder, SetupInv, SetupTypeOK, OwnershipIsKept, Attributed
<1> QED
    BY <1>1, <1>2, <1>3, NothingIsRemoved, NothingIsInstalled DEF SetupInv, Installing, Still

\* The student works and starts a VM in the project that is there; a distribution
\* plays no part.
LEMMA StudentKeepsSetupInv ==
    ASSUME SetupInv, study \/ start_vm \/ install_distribution PROVE SetupInv'
<1>1. /\ checkout' \in Projects \cup {None} /\ (checkout' # None => checkout # None)
      /\ UNCHANGED << records, programs, image, links, saved, script >>
  <2>1. study => checkout' \in Projects /\ checkout # None
    BY SetupAssumption DEF study, Projects, SetupInv, SetupTypeOK
  <2>2. start_vm => checkout' \in Projects /\ checkout # None
    BY SetupAssumption DEF start_vm, Projects, SetupInv, SetupTypeOK
  <2> QED
    BY <2>1, <2>2 DEF study, start_vm, install_distribution, machine, folder, SetupInv, SetupTypeOK
<1>2. SetupTypeOK' /\ OwnershipIsKept' /\ ResumeHasManager' /\ InstallerHolds'
    BY <1>1 DEF records, links, SetupInv, SetupTypeOK, OwnershipIsKept, Attributed, ResumeHasManager, InstallerHolds
<1>3. UninstallerHolds'
    BY <1>1 DEF records, links, SetupInv, UninstallerHolds, Everything
<1>4. SelectionHolds'
    BY <1>1 DEF records, SetupInv, SelectionHolds, Selects, ProgramsGone
<1> QED
    BY <1>2, <1>3, <1>4 DEF SetupInv

LEMMA SetupInvHoldsAtFirst == SetupInit => SetupInv
<1> SUFFICES ASSUME SetupInit PROVE SetupInv
  OBVIOUS
<1>1. script \in Scripts /\ script.pc = "idle"
    BY QuietIsAScript DEF SetupInit
<1>2. SetupTypeOK /\ OwnershipIsKept /\ ResumeHasManager
    BY <1>1, SetupAssumption DEF SetupInit, SetupTypeOK, OwnershipIsKept, Attributed, ResumeHasManager
<1>3. InstallerHolds /\ UninstallerHolds /\ SelectionHolds
    BY <1>1 DEF InstallerHolds, UninstallerHolds, SelectionHolds, Selecting, DataGone, ImageGone, ProgramsGone,
                Everything, Installing, Still
<1> QED
    BY <1>2, <1>3 DEF SetupInv

LEMMA SetupStepKeepsSetupInv == SetupInv /\ [SetupNext]_setupVars => SetupInv'
<1> SUFFICES ASSUME SetupInv, [SetupNext]_setupVars PROVE SetupInv'
  OBVIOUS
<1>1. CASE \/ bootstrap \/ update_classroom \/ install_winget_package \/ save_bootstrap_state
           \/ initialize_classroom_repository \/ manage_classroom \/ start_selected \/ resume_after_restart
           \/ confirm_installation_cancel \/ skip_step \/ invoke_wsl_setup \/ winget_ensure
           \/ append_log \/ pull_image \/ plan_finished
    BY <1>1, BootstrapKeepsSetupInv, UpdateClassroomKeepsSetupInv, InstallWingetPackageKeepsSetupInv,
         SaveBootstrapStateKeepsSetupInv, InitializeClassroomRepositoryKeepsSetupInv,
         ManageClassroomKeepsSetupInv, StartSelectedKeepsSetupInv, ResumeAfterRestartKeepsSetupInv,
         ConfirmInstallationCancelKeepsSetupInv, SkipStepKeepsSetupInv,
         InvokeWslSetupKeepsSetupInv, WingetEnsureKeepsSetupInv, AppendLogKeepsSetupInv,
         PullImageKeepsSetupInv, PlanFinishedKeepsSetupInv
<1>2. CASE \/ uninstall_everything \/ uninstall_refused \/ select_components \/ backup_project
           \/ remove_selected_data \/ remove_classroom_virtual_machines \/ remove_image \/ uninstall_package
           \/ save_uninstalled_component \/ packages_removed \/ remove_wsl \/ check_project
           \/ remove_project \/ remove_state \/ remove_run_once \/ remove_launcher
           \/ close_window \/ interrupted
    BY <1>2, UninstallEverythingKeepsSetupInv, UninstallRefusedKeepsSetupInv,
         SelectComponentsKeepsSetupInv, BackupProjectKeepsSetupInv,
         RemoveSelectedDataKeepsSetupInv, RemoveClassroomVirtualMachinesKeepsSetupInv,
         RemoveImageKeepsSetupInv, UninstallPackageKeepsSetupInv,
         SaveUninstalledComponentKeepsSetupInv, PackagesRemovedKeepsSetupInv,
         RemoveWslKeepsSetupInv, CheckProjectKeepsSetupInv, RemoveProjectKeepsSetupInv,
         RemoveStateKeepsSetupInv, RemoveRunOnceKeepsSetupInv, RemoveLauncherKeepsSetupInv,
         CloseWindowKeepsSetupInv, InterruptedKeepsSetupInv
<1>3. CASE study \/ start_vm \/ install_distribution
    BY <1>3, StudentKeepsSetupInv
<1>4. CASE UNCHANGED setupVars
    BY <1>4 DEF setupVars, setupState, SetupInv, SetupTypeOK, OwnershipIsKept, Attributed, ResumeHasManager,
                InstallerHolds, UninstallerHolds, Everything, SelectionHolds, Selects, ProgramsGone
<1> QED
    BY <1>1, <1>2, <1>3, <1>4 DEF SetupNext

\* The project is removed by one step, which knows what it saved and what it leaves.
LEMMA StepsKeepWork ==
    ASSUME SetupInv, [SetupNext]_setupVars, checkout # None, checkout' = None, script.mode = "select"
    PROVE  script.seen.work \in saved /\ (image => retained)
<1>1. CASE remove_project
    BY <1>1 DEF remove_project, At, SetupInv, SelectionHolds
<1>2. CASE ~remove_project
  <2>1. ~remove_classroom_virtual_machines /\ ~study
    <3>1. checkout \in Projects
      BY DEF SetupInv, SetupTypeOK
    <3>2. remove_classroom_virtual_machines => checkout' \in Projects
      BY <3>1 DEF remove_classroom_virtual_machines, Projects
    <3>3. study => checkout' \in Projects
      BY <3>1, SetupAssumption DEF study, Projects
    <3> QED
      BY <3>2, <3>3, SetupAssumption
  <2>2. ~start_vm
    <3>1. ASSUME start_vm PROVE checkout' \in Projects
      BY <3>1, SetupAssumption DEF start_vm, Projects, SetupInv, SetupTypeOK
    <3> QED
      BY <3>1, SetupAssumption
  <2>3. UNCHANGED checkout
    BY <1>2, <2>1, <2>2 DEF SetupNext, setupVars, setupState, folder, Bootstraps, bootstrap, update_classroom, install_winget_package,
                                   save_bootstrap_state, initialize_classroom_repository,
                                   manage_classroom, start_selected, resume_after_restart,
                                   confirm_installation_cancel, skip_step, invoke_wsl_setup,
                                   winget_ensure, append_log, pull_image, plan_finished,
                                   uninstall_everything, uninstall_refused, select_components,
                                   backup_project, remove_selected_data, remove_image,
                                   uninstall_package, save_uninstalled_component, packages_removed,
                                   remove_wsl, check_project, remove_state, remove_run_once,
                                   remove_launcher, close_window, install_distribution,
                                   interrupted
  <2> QED
    BY <2>3
<1> QED
    BY <1>1, <1>2

\* Whatever fails or is interrupted, a program that the classroom installed stays
\* attributed to it, a resumption finds its script, and a selection removes only a
\* project that is in a backup and keeps the name of the image it leaves
\* (prepare-wsl-windows, uninstall-classroom-windows, installer/executor.py).
THEOREM SetupIsRecoverableAlways == SetupSpec => SetupIsRecoverable
<1> DEFINE Kept == checkout # None /\ checkout' = None /\ script.mode = "select" =>
                     script.seen.work \in saved /\ (image => retained)
<1>1. SetupInv => OwnershipIsKept /\ ResumeHasManager
    BY DEF SetupInv
<1>2. SetupInv /\ [SetupNext]_setupVars => [Kept]_setupVars
    BY StepsKeepWork
<1> QED
    BY <1>1, <1>2, SetupInvHoldsAtFirst, SetupStepKeepsSetupInv, PTL DEF SetupSpec, SetupIsRecoverable, SelectionKeepsWork

=============================================================================
