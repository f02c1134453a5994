----------------------------- MODULE HelpProvider -----------------------------
(***************************************************************************)
(* The providers behind a student's help request: the router, the local    *)
(* Codex command with its single call slot, its process tree and its       *)
(* timeout, and the deterministic provider it falls back on                *)
(* (student_help_codex_adapter.py, student_help_provider.py).  HelpBudget  *)
(* sees a call of this module as one step with an outcome.                 *)
(*                                                                         *)
(* Each server thread makes at most one call at a time.  A process tree is *)
(* the Codex command itself and what it left running; the pipes of its     *)
(* output are open as long as one of them that inherited them lives.       *)
(***************************************************************************)
EXTENDS Naturals, Sequences, Faults

CONSTANTS
    HelpThreads,    \* server threads
    MaxTurns,       \* bound on the events a Codex process prints
    ProviderFaults  \* bound on the failures of the machine

\* None is not a thread: it stands for the free slot.
ASSUME NoThreadIsNone == None \notin HelpThreads

VARIABLES
    platform,       \* "posix" or "nt" (os.name)
    codexSlot,      \* the thread that holds _CODEX_CALL_SLOT, or None
    asker,          \* what each thread is doing
    tree            \* the last process tree each thread started

providerState == << platform, codexSlot, asker, tree >>
providerVars == << providerState, faults >>

\* An event on a line of its own: the usage of a completed turn, another event, or
\* what is no JSON or declares no valid counters.
Events == [type : {"turn.completed"}, usage : 1..2] \cup [type : {"other", "invalid"}, usage : {0}]

\* main, child: "none", "alive" or "stuck" (cannot be killed); pipe: the child inherited
\* the pipes; out: the lines printed; torn: the last of them has no end yet.
NoTree == [main |-> "none", child |-> "none", pipe |-> FALSE, out |-> << >>, torn |-> FALSE, code |-> 0]
NoAsker == [pc |-> "idle", usage |-> 0, out |-> << >>, late |-> FALSE]

ProviderInit ==
    /\ platform \in {"posix", "nt"}
    /\ codexSlot = None
    /\ asker = [t \in HelpThreads |-> NoAsker]
    /\ tree = [t \in HelpThreads |-> NoTree]
    /\ faults = 0

AskerAt(t, pc) == asker[t].pc = pc
AskerGoes(t, pc) == asker' = [asker EXCEPT ![t].pc = pc]

-----------------------------------------------------------------------------
(* What is read from the output.                                           *)

TurnsOf(lines) == {i \in 1..Len(lines) : lines[i].type = "turn.completed"}
LastOf(S) == CHOOSE i \in S : \A j \in S : j <= i

\* codex_usage_from_jsonl: the usage of the last completed turn, or None when a line is
\* invalid or no turn is completed.
codex_usage_from_jsonl(lines) ==
    IF (\E i \in 1..Len(lines) : lines[i].type = "invalid") \/ TurnsOf(lines) = {}
    THEN None
    ELSE lines[LastOf(TurnsOf(lines))].usage

\* The text up to its last line break.
Whole(out, torn) == IF torn /\ out # << >> THEN SubSeq(out, 1, Len(out) - 1) ELSE out

\* A torn last line is no JSON.
Printed(out, torn) ==
    IF torn /\ out # << >> THEN Append(Whole(out, torn), [type |-> "invalid", usage |-> 0]) ELSE out

OrZero(usage) == IF usage = None THEN 0 ELSE usage

\* Mutant of codex_usage_or_zero: the torn tail of a killed process loses the usage.
MutCodexUsageOrZero(out, torn, allow) == OrZero(codex_usage_from_jsonl(Printed(out, torn)))

\* _codex_usage_or_zero: only after a timeout may the last line be cut off.
codex_usage_or_zero(out, torn, allow) ==
    LET usage == codex_usage_from_jsonl(Printed(out, torn)) IN
    IF usage # None \/ ~allow THEN OrZero(usage) ELSE OrZero(codex_usage_from_jsonl(Whole(out, torn)))

-----------------------------------------------------------------------------
(* respond                                                                 *)

\* The router sends AI help here.  Codex is not installed or busy and the fallback will
\* answer, or the call takes the slot.
respond(t) ==
    /\ AskerAt(t, "idle")
    /\ \/ /\ AskerGoes(t, "fallback")
          /\ UNCHANGED << codexSlot, tree >>
       \/ /\ codexSlot = None
          /\ codexSlot' = t
          /\ tree' = [tree EXCEPT ![t] = NoTree]
          /\ asker' = [asker EXCEPT ![t] = [NoAsker EXCEPT !.pc = "package"]]
    /\ NoFault
    /\ UNCHANGED << platform >>

\* codex_help_package raises when the context is too large; the temporary directory or
\* the schema cannot be written.
codex_help_package(t) ==
    /\ AskerAt(t, "package")
    /\ AskerGoes(t, "launch") \/ AskerGoes(t, "release")
    /\ NoFault
    /\ UNCHANGED << platform, codexSlot, tree >>

\* Popen, and on Windows the job object before the process may run: when the job cannot
\* be made or the process not be resumed, the finally clause kills it.
run_codex_process(t) ==
    /\ AskerAt(t, "launch")
    /\ \/ /\ tree' = [tree EXCEPT ![t].main = "alive"]
          /\ AskerGoes(t, "communicate")
       \/ AskerGoes(t, "release") /\ UNCHANGED tree
    /\ NoFault
    /\ UNCHANGED << platform, codexSlot >>

\* communicate returns at the end of the output and of the process.
PipesOpen(t) == tree[t].main # "none" \/ (tree[t].child # "none" /\ tree[t].pipe)

\* Closing the job object ends what Codex left behind; on POSIX it goes on.
close_windows_job(t) ==
    IF platform = "nt" /\ tree[t].child = "alive" THEN [tree EXCEPT ![t].child = "none"] ELSE tree

communicate_ends(t) ==
    /\ AskerAt(t, "communicate") /\ ~PipesOpen(t)
    /\ asker' = [asker EXCEPT ![t].pc = "exited", ![t].out = tree[t].out,
                              ![t].usage = codex_usage_or_zero(tree[t].out, tree[t].torn, FALSE)]
    /\ tree' = close_windows_job(t)
    /\ NoFault
    /\ UNCHANGED << platform, codexSlot >>

\* Mutant of terminate_process_tree: only the command itself is killed.
MutTerminateProcessTree(t) ==
    [tree EXCEPT ![t].main = IF @ = "alive" THEN "none" ELSE @]

\* killpg or the job object: all that can be killed is gone.
terminate_process_tree(t) ==
    [tree EXCEPT ![t].main = IF @ = "alive" THEN "none" ELSE @,
                 ![t].child = IF @ = "alive" THEN "none" ELSE @]

\* TimeoutExpired: the tree is killed.  What was read so far is kept by the exception,
\* on POSIX only.
time_out(t) ==
    /\ AskerAt(t, "communicate") /\ PipesOpen(t)
    /\ tree' = terminate_process_tree(t)
    /\ asker' = [asker EXCEPT ![t].pc = "killed", ![t].late = TRUE,
                              ![t].out = IF platform = "posix" THEN tree[t].out ELSE << >>]
    /\ NoFault
    /\ UNCHANGED << platform, codexSlot >>

\* The second communicate reads the rest, or gives up after its own timeout because
\* something holds the pipes; the finally clause kills and waits once more.
collect(t) ==
    LET out == IF PipesOpen(t) THEN asker[t].out ELSE tree[t].out IN
    /\ AskerAt(t, "killed")
    /\ asker' = [asker EXCEPT ![t].pc = "release", ![t].out = out,
                              ![t].usage = codex_usage_or_zero(out, tree[t].torn, TRUE)]
    /\ tree' = terminate_process_tree(t)
    /\ NoFault
    /\ UNCHANGED << platform, codexSlot >>

\* A return code other than 0, or an answer that is not UTF-8, raises with the usage; no
\* file is an empty answer, which is no JSON.
read_response(t) ==
    /\ AskerAt(t, "exited")
    /\ IF tree[t].code # 0 THEN AskerGoes(t, "release") ELSE AskerGoes(t, "release") \/ AskerGoes(t, "answered")
    /\ NoFault
    /\ UNCHANGED << platform, codexSlot, tree >>

\* The finally clause of respond; the directory and the output are gone with the call.
leave_call(t) ==
    /\ asker[t].pc \in {"release", "answered"}
    /\ codexSlot' = None
    /\ asker' = [asker EXCEPT ![t].pc = IF @ = "answered" THEN "parse" ELSE "fallback",
                              ![t].out = << >>]
    /\ tree' = [tree EXCEPT ![t].out = << >>, ![t].torn = FALSE, ![t].code = 0]
    /\ NoFault
    /\ UNCHANGED platform

\* The answer as JSON: the guidance has its shape, or the error carries the usage.
parse_response(t) ==
    /\ AskerAt(t, "parse")
    /\ AskerGoes(t, "answer") \/ AskerGoes(t, "fallback")
    /\ NoFault
    /\ UNCHANGED << platform, codexSlot, tree >>

\* The response leaves with its usage: Codex's own, or the local provider's text with
\* the usage of the call that failed (FallbackStudentHelpProvider).
fallback(t) ==
    /\ asker[t].pc \in {"answer", "fallback"}
    /\ asker' = [asker EXCEPT ![t] = [NoAsker EXCEPT !.late = asker[t].late]]
    /\ NoFault
    /\ UNCHANGED << platform, codexSlot, tree >>

-----------------------------------------------------------------------------
(* The Codex command and the machine.                                      *)

Runs(t) == tree[t].main = "alive"
TreeBecomes(t, new) ==
    /\ tree' = [tree EXCEPT ![t] = new]
    /\ UNCHANGED << platform, codexSlot, asker >>

\* A line arrives in one piece or in two.
codex_prints(t, event) ==
    /\ Runs(t) /\ ~tree[t].torn /\ Len(tree[t].out) < MaxTurns
    /\ \E torn \in BOOLEAN : TreeBecomes(t, [tree[t] EXCEPT !.out = Append(@, event), !.torn = torn])
    /\ NoFault

codex_ends_line(t) ==
    /\ Runs(t) /\ tree[t].torn
    /\ TreeBecomes(t, [tree[t] EXCEPT !.torn = FALSE])
    /\ NoFault

codex_forks(t) ==
    /\ Runs(t) /\ tree[t].child = "none"
    /\ \E pipe \in BOOLEAN : TreeBecomes(t, [tree[t] EXCEPT !.child = "alive", !.pipe = pipe])
    /\ NoFault

codex_exits(t) ==
    /\ Runs(t)
    /\ \E code \in {0, 1} : TreeBecomes(t, [tree[t] EXCEPT !.main = "none", !.code = code])
    /\ NoFault

child_exits(t) ==
    /\ tree[t].child = "alive"
    /\ TreeBecomes(t, [tree[t] EXCEPT !.child = "none"])
    /\ NoFault

\* A process hangs in the kernel, where no signal reaches it before it returns.
hangs(t) ==
    /\ Fault(ProviderFaults)
    /\ \/ tree[t].main = "alive" /\ TreeBecomes(t, [tree[t] EXCEPT !.main = "stuck"])
       \/ tree[t].child = "alive" /\ TreeBecomes(t, [tree[t] EXCEPT !.child = "stuck"])

\* It dies of the signal when it returns.
returns(t) ==
    /\ tree[t].main = "stuck" \/ tree[t].child = "stuck"
    /\ TreeBecomes(t, [tree[t] EXCEPT !.main = IF @ = "stuck" THEN "none" ELSE @,
                                  !.child = IF @ = "stuck" THEN "none" ELSE @])
    /\ NoFault

ProviderNext ==
    \E t \in HelpThreads :
       \/ respond(t) \/ codex_help_package(t) \/ run_codex_process(t)
       \/ communicate_ends(t) \/ time_out(t) \/ collect(t)
       \/ read_response(t) \/ leave_call(t) \/ parse_response(t) \/ fallback(t)
       \/ (\E event \in Events : codex_prints(t, event)) \/ codex_ends_line(t)
       \/ codex_forks(t) \/ codex_exits(t) \/ child_exits(t) \/ hangs(t) \/ returns(t)

ProviderSpec == ProviderInit /\ [][ProviderNext]_providerVars

-----------------------------------------------------------------------------
InCall == {"package", "launch", "communicate", "killed", "exited", "release", "answered"}

\* One Codex command at a time, whatever happens to it: the slot is held by the thread
\* whose call is under way and by no other, so no way out of a call keeps it; when
\* the slot is free every command that could be killed is gone; and so is all that
\* a timed-out command started, and on Windows all that any command started.
CodexIsContained ==
    /\ \A t \in HelpThreads : codexSlot = t <=> asker[t].pc \in InCall
    /\ \A t \in HelpThreads : codexSlot # t => tree[t].main # "alive"
    /\ \A t \in HelpThreads : codexSlot # t /\ (asker[t].late \/ platform = "nt") =>
                                   tree[t].child # "alive"

\* The tokens that Codex declares are recorded even when its call fails: the usage of
\* the last turn on the lines it completed, provided these are valid and the command
\* ended by itself or its output was read to the end after the kill.
UsageIsRecorded ==
    \A t \in HelpThreads :
        LET read == asker[t].out = tree[t].out /\ (tree[t].torn => asker[t].late) IN
        /\ asker[t].pc \in {"release", "answered"} /\ asker[t].out # << >> /\ read =>
              asker[t].usage = OrZero(codex_usage_from_jsonl(Whole(tree[t].out, tree[t].torn)))
        /\ asker[t].pc \in InCall /\ asker[t].usage # 0 =>
              \E i \in 1..Len(tree[t].out) :
                  tree[t].out[i].type = "turn.completed" /\ tree[t].out[i].usage = asker[t].usage

\* Both: what a student's AI help costs is bounded to one command and accounted for.
HelpCallsAreContained == CodexIsContained /\ UsageIsRecorded

=============================================================================
