------------------------------ MODULE RuntimeRuns ------------------------------
(***************************************************************************)
(* A student's run of an Activity that names a runtime plugin: the         *)
(* Activity is read again at every stage, the plugin comes from a registry *)
(* that keeps what it loaded, and the run is made by the plugin itself or  *)
(* in a container that is removed and looked for afterwards                *)
(* (student_runtime.py, thebitlab_runtime_plugins.py,                      *)
(* thebitlab_runtime_sandbox.py, and run_assignment of                     *)
(* student_lab_runner.py).                                                 *)
(*                                                                         *)
(* While a run goes on the teacher may publish the Activity again and the  *)
(* administrator may upgrade the plugin.  What plugins answer is their own *)
(* business: a call of a plugin returns a valid payload or raises.         *)
(***************************************************************************)
EXTENDS Naturals, FiniteSets, Faults

CONSTANTS
    Capabilities,   \* capabilities a plugin may offer, "sandbox-plan.v1" among them
    Backends,       \* backends a caller may ask for
    MaxPublished,   \* bound on the publications of the Activity
    MaxInstalled,   \* bound on the versions of the plugin
    RunFaults       \* bound on the failures of Docker

ASSUME SandboxIsACapability == "sandbox-plan.v1" \in Capabilities

VARIABLES
    published,      \* what the Activity on disk asks of its runtime, None when it names none
    publications,   \* publications so far
    installed,      \* the plugin that is installed, or None
    upgrades,       \* versions so far
    registry,       \* the registry's cache: the plugin this process loaded, or None
    run,            \* the run under way
    container,      \* the last run's container: "absent", "created" or "left" (its removal failed)
    runReport       \* the report of the last run, or None

runState == << published, publications, installed, upgrades, registry, run, container, runReport >>
runVars == << runState, faults >>

Plugins == [version : 1..MaxInstalled, offers : SUBSET Capabilities]
NoRun == [pc |-> "idle", backend |-> None, asked |-> None, needs |-> None, plugin |-> None,
          outcome |-> "none", isolated |-> FALSE]

RunInit ==
    /\ published = {}
    /\ publications = 1
    /\ installed = None /\ upgrades = 0
    /\ registry = None
    /\ run = NoRun
    /\ container = "absent"
    /\ runReport = None
    /\ faults = 0

In(pc) == run.pc = pc
OnlyRun == UNCHANGED << published, publications, installed, upgrades, registry, container, runReport >>

\* runtime_error_report: the run did not pass.
RunEnds(status, passed) ==
    /\ runReport' = [status |-> status, passed |-> passed, needs |-> run.needs, plugin |-> run.plugin,
                     isolated |-> run.isolated, asked |-> run.asked]
    /\ run' = NoRun

Error ==
    /\ RunEnds("runtime-unavailable", FALSE)
    /\ NoFault
    /\ UNCHANGED << published, publications, installed, upgrades, registry, container >>

-----------------------------------------------------------------------------
(* Up to the request.                                                      *)

\* run_assignment goes here when the Activity names a runtime, and
\* run_runtime_assignment reads it again to name the runtime in its reports.
run_runtime_assignment(backend) ==
    /\ In("idle") /\ published # None
    /\ run' = [NoRun EXCEPT !.pc = "context", !.backend = backend, !.asked = backend]
    /\ runReport' = None
    /\ NoFault
    /\ UNCHANGED << published, publications, installed, upgrades, registry, container >>

\* _runtime_context: the Activity that counts, unless it names no runtime any more.
runtime_context ==
    /\ In("context")
    /\ \/ /\ published = None
          /\ Error
       \/ /\ published # None
          /\ run' = [run EXCEPT !.pc = "plugin", !.needs = published]
          /\ NoFault
          /\ OnlyRun

\* RuntimePluginRegistry.get: what this process loaded once is never loaded again.
registry_get ==
    /\ In("plugin")
    /\ LET found == IF registry # None THEN registry ELSE installed IN
       \/ /\ found # None
          /\ registry' = found
          /\ run' = [run EXCEPT !.pc = "supports", !.plugin = found]
          /\ NoFault
          /\ UNCHANGED << published, publications, installed, upgrades, container, runReport >>
       \/ registry = None /\ Error

\* Mutant of assert_runtime_supports_activity: the missing capabilities are not asked for.
MutAssertRuntimeSupportsActivity == TRUE

assert_runtime_supports_activity == run.needs \subseteq run.plugin.offers

\* Mutant of student_runtime_backend: the backend that was asked for is used.
MutStudentRuntimeBackend == run.backend

\* _student_runtime_backend: a plugin that can be confined is confined.
student_runtime_backend ==
    IF run.backend = "local" /\ "sandbox-plan.v1" \in run.plugin.offers THEN "docker" ELSE run.backend

\* The support, the probe, the request and the choice of the backend.
probe_runtime ==
    /\ In("supports")
    /\ \/ Error
       \/ /\ assert_runtime_supports_activity
          /\ run' = [run EXCEPT !.pc = "backend", !.backend = student_runtime_backend]
          /\ NoFault
          /\ OnlyRun

-----------------------------------------------------------------------------
(* The run.                                                                *)

\* run_runtime: the plugin runs the work in this process.
run_runtime ==
    /\ In("backend") /\ run.backend = "local"
    /\ \/ Error
       \/ /\ \E passed \in BOOLEAN : RunEnds("completed", passed)
          /\ NoFault
          /\ UNCHANGED << published, publications, installed, upgrades, registry, container >>

\* prepare_sandbox_runtime: refused when the plugin has no sandbox, or its plan is not
\* valid; the inputs it names are copied from what is on disk now, if they are there.
\* A backend that does not exist is refused.
prepare_sandbox_runtime ==
    /\ In("backend") /\ run.backend # "local"
    /\ \/ Error
       \/ /\ run.backend = "docker" /\ "sandbox-plan.v1" \in run.plugin.offers
          /\ run' = [run EXCEPT !.pc = "docker"]
          /\ NoFault
          /\ OnlyRun

\* The bounded process: Docker is missing; or it ran, to its end, to its timeout or to
\* too much output.
run_container ==
    /\ In("docker")
    /\ \/ Error
       \/ /\ \E outcome \in {"exited", "timeout"} :
                run' = [run EXCEPT !.pc = "remove", !.outcome = outcome, !.isolated = TRUE]
          /\ container' = "created"
          /\ NoFault
          /\ UNCHANGED << published, publications, installed, upgrades, registry, runReport >>

\* Mutant of remove_checked: a container that is still there is not reported.
MutRemoveChecked(gone) == "result"

\* remove_docker_container on every way out; it raises unless Docker confirms that the
\* container does not exist.
remove_checked(gone) == IF gone THEN "result" ELSE "cleanup error"

remove_container ==
    /\ In("remove")
    /\ \/ /\ container' = "absent" /\ NoFault
          /\ run' = [run EXCEPT !.pc = remove_checked(TRUE)]
       \/ /\ container' = "left" /\ Fault(RunFaults)
          /\ run' = [run EXCEPT !.pc = remove_checked(FALSE)]
    /\ UNCHANGED << published, publications, installed, upgrades, registry, runReport >>

\* DockerCleanupError, which also replaces the error that led to the removal.
cleanup_error == In("cleanup error") /\ Error

\* A timeout is reported as such; a return code, an output or a schema that is not the
\* plan's is an error; finalize_sandbox_runtime makes the plugin judge the output.
finalize_sandbox_runtime ==
    /\ In("result")
    /\ \/ run.outcome = "exited" /\ Error
       \/ /\ \/ run.outcome = "timeout" /\ RunEnds("timeout", FALSE)
             \/ run.outcome = "exited" /\ \E passed \in BOOLEAN : RunEnds("completed", passed)
          /\ NoFault
          /\ UNCHANGED << published, publications, installed, upgrades, registry, container >>

-----------------------------------------------------------------------------
(* The others.                                                             *)

publish(needs) ==
    /\ publications < MaxPublished
    /\ publications' = publications + 1
    /\ published' = needs
    /\ NoFault
    /\ UNCHANGED << installed, upgrades, registry, run, container, runReport >>

install(offers) ==
    /\ upgrades < MaxInstalled
    /\ upgrades' = upgrades + 1
    /\ installed' = [version |-> upgrades + 1, offers |-> offers]
    /\ NoFault
    /\ UNCHANGED << published, publications, registry, run, container, runReport >>

\* The terminal ends or dies, and starts again; the container of a run it was making is
\* nobody's then.
restart_terminal ==
    /\ registry # None \/ ~In("idle")
    /\ registry' = None /\ run' = NoRun /\ runReport' = None
    /\ container' = IF container = "created" THEN "left" ELSE container
    /\ NoFault
    /\ UNCHANGED << published, publications, installed, upgrades >>

RunNext ==
    \/ \E b \in Backends : run_runtime_assignment(b)
    \/ runtime_context \/ registry_get \/ probe_runtime \/ run_runtime \/ prepare_sandbox_runtime
    \/ run_container \/ remove_container \/ cleanup_error \/ finalize_sandbox_runtime
    \/ \E needs \in {None} \cup SUBSET Capabilities : publish(needs)
    \/ \E offers \in SUBSET Capabilities : install(offers)
    \/ restart_terminal

RunSpec == RunInit /\ [][RunNext]_runVars

-----------------------------------------------------------------------------
\* A run that was completed was made by a plugin that offers what the Activity of the
\* request needs, however the Activity and the plugin changed while it went on; a
\* plugin that can be confined was confined, whatever backend was asked for; and a
\* run is only reported as something else than an error when its container is
\* confirmed gone.
RunsAreConfined ==
    /\ runReport # None /\ runReport.status = "completed" =>
          /\ runReport.needs \subseteq runReport.plugin.offers
          /\ "sandbox-plan.v1" \in runReport.plugin.offers => runReport.isolated
          /\ runReport.asked = "docker" => runReport.isolated
    /\ runReport # None /\ runReport.isolated /\ runReport.status # "runtime-unavailable" =>
          container = "absent"
    /\ container = "created" => run.pc = "remove"

=============================================================================
