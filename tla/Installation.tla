------------------------------ MODULE Installation ------------------------------
(***************************************************************************)
(* The classroom environment on a student's Windows machine: the bootstrap  *)
(* script, the guided menu that applies an installation plan step by step,  *)
(* the restart in the middle of it, and the two uninstallers (everything    *)
(* the classroom installed, or the components the student selects).         *)
(*                                                                         *)
(* What the classroom may remove is what its two records say it installed:  *)
(* the bootstrap's registry and the log of the plan's steps.  Any script    *)
(* may be interrupted, any command may fail, and the student goes on        *)
(* working meanwhile.                                                       *)
(*                                                                         *)
(* One program of each kind: git (bootstrap), wsl and docker (plan).        *)
(***************************************************************************)
EXTENDS Faults, FiniteSets

CONSTANTS
    Preinstalled,   \* what the machine may have before: sets of programs
    Ticked,         \* bound on the options a selection may have
    MaxWork,        \* bound on the student's changes to the project
    SetupFaults     \* bound on failed commands and interruptions

VARIABLES
    programs,       \* programs on the machine
    ours,           \* those that were recorded as installed by the classroom
    bootRecord,     \* bootstrap-state.json: installed_by_bootstrap, or None
    stepLog,        \* installer.jsonl: steps that succeeded or need a restart
    intent,         \* resume-state.json exists
    retained,       \* uninstall-retained-image.json names the image
    checkout,       \* the project: the student's work and the VM state, or None
    saved,          \* work in the backups
    image,          \* the classroom image is on the machine
    distro,         \* the student has a WSL distribution of their own
    launcher,       \* the management scripts are in place
    runOnce,        \* Windows will resume the installation at the next start
    script          \* what runs

setupState == << programs, ours, bootRecord, stepLog, intent, retained, checkout, saved,
                 image, distro, launcher, runOnce, script >>
setupVars == << setupState, faults >>

Programs == {"git", "docker", "wsl"}
Projects == [work : 0..MaxWork, vm : BOOLEAN]

ASSUME SetupAssumption ==
    /\ Preinstalled \subseteq SUBSET Programs /\ MaxWork \in Nat
    /\ \A record \in SUBSET Programs : record # None
    /\ \A project \in Projects : project # None

Quiet == [pc |-> "idle", mode |-> None, want |-> {}, held |-> None, seen |-> None, ref |-> FALSE,
          left |-> {}, failed |-> FALSE, memory |-> {}, missing |-> {}, cancel |-> FALSE]

SetupInit ==
    /\ programs \in Preinstalled
    /\ ours = {} /\ bootRecord = None /\ stepLog = {}
    /\ intent = FALSE /\ retained = FALSE
    /\ checkout = None /\ saved = {} /\ image = FALSE
    /\ distro = FALSE
    /\ launcher = FALSE /\ runOnce = FALSE
    /\ script = Quiet
    /\ faults = 0

records == << ours, bootRecord, stepLog, intent, retained >>
machine == << programs, image, distro >>
links == << launcher, runOnce >>
folder == << checkout, saved >>

At(pc) == script.pc = pc
Continue(pc) == script' = [script EXCEPT !.pc = pc]
Exit == script' = Quiet

---------------------------------------------------------------------------
(* The bootstrap.                                                          *)

\* The registry is read into memory.
Bootstraps ==
    /\ script' = [Quiet EXCEPT !.pc = "prerequisites", !.memory = IF bootRecord = None THEN {} ELSE bootRecord]
    /\ NoFault
    /\ UNCHANGED << records, machine, links, folder >>

bootstrap == At("idle") /\ Bootstraps

\* The update that the menu starts is the bootstrap again.
update_classroom == At("menu") /\ Bootstraps

\* Install-WingetPackage: what is there is left alone.
install_winget_package ==
    /\ At("prerequisites")
    /\ IF "git" \in programs THEN NoFault /\ Continue("repository") /\ UNCHANGED programs
       ELSE \/ /\ NoFault
               /\ programs' = programs \cup {"git"}
               /\ script' = [script EXCEPT !.pc = "save", !.memory = @ \cup {"git"}]
            \/ Fault(SetupFaults) /\ Exit /\ UNCHANGED programs
    /\ UNCHANGED << records, image, distro, links, folder >>

\* Save-BootstrapState.
save_bootstrap_state ==
    /\ At("save")
    /\ bootRecord' = script.memory
    /\ ours' = ours \cup (script.memory \cap programs)
    /\ Continue("repository")
    /\ NoFault
    /\ UNCHANGED << stepLog, intent, retained, machine, links, folder >>

\* Initialize-ClassroomRepository, Install-ClassroomLauncher: a clone, or the
\* student's checkout brought forward; the scripts; the menu.
initialize_classroom_repository ==
    /\ At("repository")
    /\ \/ /\ NoFault
          /\ checkout' = IF checkout = None THEN [work |-> 0, vm |-> FALSE] ELSE checkout
          /\ launcher' = TRUE
          /\ Continue("menu")
       \/ Fault(SetupFaults) /\ Exit /\ UNCHANGED << checkout, launcher >>
    /\ UNCHANGED << records, machine, runOnce, saved >>

---------------------------------------------------------------------------
(* The menu and the plan.                                                  *)

\* manage-classroom-windows: the menu, when the checkout can start it.
manage_classroom ==
    /\ At("idle") /\ launcher /\ checkout # None
    /\ Continue("menu")
    /\ NoFault
    /\ UNCHANGED << records, machine, links, folder >>

\* start_selected: the intent, then the diagnosis of what is missing.
start_selected ==
    /\ At("menu")
    /\ intent' = TRUE
    /\ script' = [Quiet EXCEPT !.pc = "wsl", !.missing = {"wsl", "docker"} \ programs]
    /\ NoFault
    /\ UNCHANGED << ours, bootRecord, stepLog, retained, machine, links, folder >>

\* Windows starts again and resumes: RunOnce is consumed; without an intent
\* the menu just opens.
resume_after_restart ==
    /\ At("idle") /\ runOnce /\ checkout # None
    /\ runOnce' = FALSE
    /\ script' = IF intent THEN [Quiet EXCEPT !.pc = "wsl", !.missing = {"wsl", "docker"} \ programs]
                 ELSE [Quiet EXCEPT !.pc = "menu"]
    /\ NoFault
    /\ UNCHANGED << records, machine, launcher, folder >>

\* confirm_installation_cancel: the step that runs is not interrupted.
confirm_installation_cancel ==
    /\ script.pc \in {"wsl", "docker", "image"} /\ ~script.cancel
    /\ script' = [script EXCEPT !.cancel = TRUE]
    /\ NoFault
    /\ UNCHANGED << records, machine, links, folder >>

\* poll_installation after a plan that ended without a restart.
PlanEnds == intent' = FALSE /\ script' = [Quiet EXCEPT !.pc = IF script.cancel THEN "cancelled" ELSE "menu"]

\* A step that is not needed, or the plan that was cancelled before it.
skip_step ==
    /\ \/ script.cancel /\ script.pc \in {"wsl", "docker", "image"} /\ PlanEnds
       \/ /\ ~script.cancel /\ UNCHANGED intent
          /\ \/ At("wsl") /\ "wsl" \notin script.missing /\ Continue("docker")
             \/ At("docker") /\ "docker" \notin script.missing /\ Continue("image")
             \/ At("image") /\ image /\ Continue("finish")
    /\ NoFault
    /\ UNCHANGED << ours, bootRecord, stepLog, retained, machine, links, folder >>

\* prepare-wsl-windows: WSL, then RunOnce; only both are a success.
invoke_wsl_setup ==
    /\ At("wsl") /\ "wsl" \in script.missing /\ ~script.cancel
    /\ \/ /\ NoFault
          /\ programs' = programs \cup {"wsl"}
          /\ runOnce' = TRUE
          /\ Continue("wsl_log")
          /\ UNCHANGED intent
       \/ /\ Fault(SetupFaults)
          /\ programs' \in {programs, programs \cup {"wsl"}}
          /\ PlanEnds
          /\ UNCHANGED runOnce
    /\ UNCHANGED << ours, bootRecord, stepLog, retained, image, distro, launcher, folder >>

\* The winget command of the plan.
winget_ensure ==
    /\ At("docker") /\ "docker" \in script.missing /\ ~script.cancel
    /\ \/ /\ NoFault
          /\ programs' = programs \cup {"docker"}
          /\ Continue("docker_log")
          /\ UNCHANGED intent
       \/ Fault(SetupFaults) /\ PlanEnds /\ UNCHANGED programs
    /\ UNCHANGED << ours, bootRecord, stepLog, retained, image, distro, links, folder >>

\* _append_log: the step is recorded after it was applied.  A step that needs
\* a restart ends the plan, with the intent kept.
append_log ==
    \/ /\ At("wsl_log")
       /\ stepLog' = stepLog \cup {"wsl"} /\ ours' = ours \cup ({"wsl"} \cap programs)
       /\ IF script.cancel THEN PlanEnds ELSE Exit /\ UNCHANGED intent
       /\ NoFault
       /\ UNCHANGED << bootRecord, retained, machine, links, folder >>
    \/ /\ At("docker_log")
       /\ stepLog' = stepLog \cup {"docker"} /\ ours' = ours \cup ({"docker"} \cap programs)
       /\ Continue("image")
       /\ NoFault
       /\ UNCHANGED << bootRecord, intent, retained, machine, links, folder >>

pull_image ==
    /\ At("image") /\ ~image /\ ~script.cancel /\ "docker" \in programs
    /\ \/ NoFault /\ image' = TRUE /\ Continue("finish") /\ UNCHANGED intent
       \/ Fault(SetupFaults) /\ PlanEnds /\ UNCHANGED image
    /\ UNCHANGED << ours, bootRecord, stepLog, retained, programs, distro, links, folder >>

plan_finished ==
    /\ At("finish")
    /\ PlanEnds
    /\ NoFault
    /\ UNCHANGED << ours, bootRecord, stepLog, retained, machine, links, folder >>

---------------------------------------------------------------------------
(* The uninstallers.                                                       *)

\* Get-OwnedPackages and Test-WslInstalledByClassroom.
Attributed == (IF bootRecord = None THEN {} ELSE bootRecord) \cup stepLog

\* The image the lock of the checkout, or the retained record, names.
ImageReference == checkout # None \/ retained

\* Everything, from the cancelled plan, from the command line, or from the
\* menu with the VM too ("reset"); a VM stops the plain one.
uninstall_everything ==
    /\ \/ At("cancelled") /\ script' = [Quiet EXCEPT !.pc = "backup", !.mode = "full", !.left = Attributed, !.ref = ImageReference]
       \/ /\ At("idle") /\ launcher
          /\ script' = [Quiet EXCEPT !.pc = "backup", !.mode = "full", !.left = Attributed, !.ref = ImageReference]
       \/ At("menu") /\ script' = [Quiet EXCEPT !.pc = "backup", !.mode = "reset", !.left = Attributed, !.ref = ImageReference]
    /\ script'.mode = "full" /\ checkout # None => ~checkout.vm
    /\ NoFault
    /\ UNCHANGED << records, machine, links, folder >>

\* The cancelled plan meets a VM: nothing is done.
uninstall_refused ==
    /\ At("cancelled") /\ checkout # None /\ checkout.vm
    /\ Exit
    /\ NoFault
    /\ UNCHANGED << records, machine, links, folder >>

\* Get-UninstallOptions.
Options ==
    (IF checkout # None THEN {"project"} ELSE {}) \cup (IF ImageReference THEN {"image"} ELSE {}) \cup
    (IF checkout # None /\ checkout.vm THEN {"vm"} ELSE {}) \cup
    (programs \cup Attributed) \cup (IF distro THEN {"distro"} ELSE {}) \cup
    (IF "docker" \in programs \cup Attributed THEN {"data"} ELSE {})

\* Get-SelectionBlockers.
Allowed(want) ==
    /\ want \cap {"project", "vm"} # {} => "git" \in programs
    /\ "vm" \in Options /\ "vm" \notin want => "project" \notin want
    /\ "wsl" \in want /\ "docker" \in programs => "docker" \in want
    /\ "docker" \in want => "data" \in want
    /\ want \cap {"image", "data"} # {} /\ "docker" \notin want => "docker" \in programs
    /\ "wsl" \in want /\ distro => "distro" \in want

\* The selection, confirmed.
select_components ==
    /\ \/ At("menu")
       \/ At("idle") /\ launcher
    /\ \E want \in SUBSET (Options \cap Ticked) \ {{}} :
          /\ Allowed(want)
          /\ script' = [Quiet EXCEPT !.pc = "backup", !.mode = "select", !.want = want, !.left = want \cap Programs,
                                     !.ref = ImageReference]
    /\ NoFault
    /\ UNCHANGED << records, machine, links, folder >>

Selects(c) == script.mode = "select" /\ c \in script.want

Everything == script.mode \in {"full", "reset"}

\* A command failed: the script stops, what was done stays.
Stops == Fault(SetupFaults) /\ Exit

\* Backup-StudentWork, Backup-SelectedProject.
backup_project ==
    /\ At("backup")
    /\ LET needed == checkout # None /\ (Everything \/ Selects("project") \/ Selects("vm")) IN
       \/ /\ NoFault
          /\ IF needed THEN /\ saved' = saved \cup {checkout.work}
                            /\ script' = [script EXCEPT !.pc = "data", !.held = checkout]
             ELSE Continue("data") /\ UNCHANGED saved
       \/ needed /\ Stops /\ UNCHANGED saved
    /\ UNCHANGED << records, machine, links, checkout >>

\* The selected distribution, then Remove-SelectedDockerData when Docker
\* Desktop itself stays.
remove_selected_data ==
    /\ At("data")
    /\ LET clears == Selects("data") /\ ~Selects("docker") IN
       \/ /\ NoFault
          /\ distro' = (distro /\ ~Selects("distro"))
          /\ image' = (image /\ ~clears) /\ retained' = (retained /\ ~clears)
          /\ Continue("machine")
       \/ /\ (clears \/ Selects("distro")) /\ Stops
          /\ UNCHANGED << distro, image, retained >>
    /\ UNCHANGED << ours, bootRecord, stepLog, intent, programs, links, folder >>

\* Remove-ClassroomVirtualMachines: the VM, and its state in the project.
remove_classroom_virtual_machines ==
    /\ At("machine")
    /\ LET destroys == checkout # None /\ checkout.vm /\ (script.mode = "reset" \/ Selects("vm")) IN
       \/ /\ NoFault
          /\ checkout' = IF destroys THEN [checkout EXCEPT !.vm = FALSE] ELSE checkout
          /\ Continue("image_rm")
       \/ destroys /\ Stops /\ UNCHANGED checkout
    /\ UNCHANGED << records, machine, links, saved >>

\* The image: a failure stops a selection, and is a warning otherwise.
remove_image ==
    /\ At("image_rm")
    /\ LET asked == (Everything /\ script.ref) \/ (Selects("image") /\ ~Selects("data")) IN
       \/ /\ NoFault
          /\ image' = (image /\ ~asked)
          /\ retained' = (retained /\ ~(asked /\ script.mode = "select"))
          /\ Continue("programs")
       \/ /\ asked /\ Fault(SetupFaults)
          /\ IF Everything THEN Continue("programs") ELSE Exit
          /\ UNCHANGED << image, retained >>
    /\ UNCHANGED << ours, bootRecord, stepLog, intent, programs, distro, links, folder >>

Gone(p) ==
    /\ programs' = programs \ {p}
    /\ ours' = ours \ {p}
    /\ image' = (image /\ p # "docker")

\* winget uninstall, then Test-PackageStillInstalled.  In a selection the
\* exit code counts too: a program that is not there is not confirmed.  In
\* alphabetical order.
uninstall_package ==
    /\ At("programs")
    /\ \E p \in {IF "docker" \in script.left THEN "docker" ELSE "git"} \cap script.left :
          \/ /\ p \in programs /\ NoFault /\ Gone(p)
             /\ script' = [script EXCEPT !.left = @ \ {p}, !.memory = IF script.mode = "select" THEN {p} ELSE {},
                                         !.pc = IF script.mode = "select" THEN "unregister" ELSE "programs"]
          \/ /\ p \in programs /\ Fault(SetupFaults)
             /\ script' = [script EXCEPT !.left = @ \ {p}, !.failed = TRUE]
             /\ UNCHANGED << programs, ours, image >>
          \/ /\ p \notin programs /\ NoFault
             /\ script' = [script EXCEPT !.left = @ \ {p}, !.failed = @ \/ script.mode = "select"]
             /\ UNCHANGED << programs, ours, image >>
    /\ UNCHANGED << bootRecord, stepLog, intent, retained, distro, links, folder >>

\* Mutant of save_uninstalled_component: the records are cleared.
MutSaveUninstalledComponent ==
    /\ \/ /\ At("unregister")
          /\ bootRecord' = IF bootRecord = None THEN None ELSE {}
          /\ Continue("unlog")
          /\ UNCHANGED << stepLog, retained >>
       \/ /\ At("unlog")
          /\ stepLog' = stepLog \ script.memory
          /\ retained' = (retained /\ "docker" \notin script.memory)
          /\ Continue(IF "wsl" \in script.memory THEN "project" ELSE "programs")
          /\ UNCHANGED bootRecord
    /\ NoFault
    /\ UNCHANGED << ours, intent, machine, links, folder >>

\* Save-UninstalledComponent: the registry, then the log; with Docker Desktop
\* the image is gone too.
save_uninstalled_component ==
    /\ \/ /\ At("unregister")
          /\ bootRecord' = IF bootRecord = None THEN None ELSE bootRecord \ script.memory
          /\ Continue("unlog")
          /\ UNCHANGED << stepLog, retained >>
       \/ /\ At("unlog")
          /\ stepLog' = stepLog \ script.memory
          /\ retained' = (retained /\ "docker" \notin script.memory)
          /\ Continue(IF "wsl" \in script.memory THEN "project" ELSE "programs")
          /\ UNCHANGED bootRecord
    /\ NoFault
    /\ UNCHANGED << ours, intent, machine, links, folder >>

\* A program is still there: the script stops, with both records.
packages_removed ==
    /\ At("programs") /\ script.left \subseteq {"wsl"}
    /\ IF script.failed THEN Continue("stopped") ELSE Continue("wsl_rm")
    /\ NoFault
    /\ UNCHANGED << records, machine, links, folder >>

\* remove-wsl-windows: a distribution of the student keeps WSL, which stops a
\* selection and is a warning otherwise.
remove_wsl ==
    /\ At("wsl_rm")
    /\ IF "wsl" \notin script.left THEN NoFault /\ Continue("project") /\ UNCHANGED << programs, ours >>
       ELSE \/ /\ distro /\ NoFault
               /\ Continue(IF Everything THEN "project" ELSE "stopped")
               /\ UNCHANGED << programs, ours >>
            \/ /\ ~distro /\ NoFault
               /\ programs' = programs \ {"wsl"} /\ ours' = ours \ {"wsl"}
               /\ script' = [script EXCEPT !.pc = IF Everything THEN "project" ELSE "unregister", !.memory = {"wsl"}]
            \/ ~distro /\ Fault(SetupFaults) /\ Continue("stopped") /\ UNCHANGED << programs, ours >>
    /\ UNCHANGED << bootRecord, stepLog, intent, retained, image, distro, links, folder >>

\* Assert-SelectedProjectBackup.
Unchanged == checkout = script.held

\* The image the selection leaves is recorded; the project is compared with
\* its backup once more.  A VM that appeared stops the plain uninstaller.
check_project ==
    /\ At("project")
    /\ IF checkout = None \/ ~(Everything \/ Selects("project"))
       THEN Continue("state") /\ UNCHANGED retained
       ELSE /\ retained' = (retained \/ (script.mode = "select" /\ script.want \cap {"image", "data"} = {} /\ script.ref))
            /\ IF script.mode = "select" /\ ~Unchanged THEN Continue("changed")
               ELSE IF script.mode = "full" /\ checkout.vm THEN Continue("stopped")
               ELSE script' = [script EXCEPT !.pc = "remove", !.seen = checkout]
    /\ NoFault
    /\ UNCHANGED << ours, bootRecord, stepLog, intent, machine, links, folder >>

remove_project ==
    /\ At("remove")
    /\ checkout' = None
    /\ Continue("state")
    /\ NoFault
    /\ UNCHANGED << records, machine, links, saved >>

\* Everything: the directory with both records, the intent and the image.
remove_state ==
    /\ At("state")
    /\ IF Everything
       THEN bootRecord' = None /\ stepLog' = {} /\ intent' = FALSE /\ retained' = FALSE
       ELSE UNCHANGED << bootRecord, stepLog, intent, retained >>
    /\ Continue("resume")
    /\ NoFault
    /\ UNCHANGED << ours, machine, links, folder >>

\* Whether the resumption at the next start is withdrawn.
RemovesRunOnce == Everything \/ Selects("project") \/ Selects("wsl")

remove_run_once ==
    /\ At("resume")
    /\ runOnce' = (runOnce /\ ~RemovesRunOnce)
    /\ Continue("links")
    /\ NoFault
    /\ UNCHANGED << records, machine, launcher, folder >>

remove_launcher ==
    /\ At("links")
    /\ launcher' = (launcher /\ ~Everything)
    /\ Exit
    /\ NoFault
    /\ UNCHANGED << records, machine, runOnce, folder >>

\* The message was read.
close_window ==
    /\ script.pc \in {"stopped", "changed", "menu"}
    /\ Exit
    /\ NoFault
    /\ UNCHANGED << records, machine, links, folder >>

---------------------------------------------------------------------------
(* The student, and interruptions.                                         *)

study ==
    /\ checkout # None /\ checkout.work < MaxWork
    /\ checkout' = [checkout EXCEPT !.work = @ + 1]
    /\ NoFault
    /\ UNCHANGED << records, machine, links, saved, script >>

start_vm ==
    /\ checkout # None /\ ~checkout.vm /\ checkout.work < MaxWork
    /\ checkout' = [work |-> checkout.work + 1, vm |-> TRUE]
    /\ NoFault
    /\ UNCHANGED << records, machine, links, saved, script >>

install_distribution ==
    /\ "wsl" \in programs /\ ~distro
    /\ distro' = TRUE
    /\ NoFault
    /\ UNCHANGED << records, programs, image, links, folder, script >>

\* The window is closed, or the machine is switched off.
interrupted ==
    /\ ~At("idle")
    /\ Fault(SetupFaults)
    /\ Exit
    /\ UNCHANGED << records, machine, links, folder >>

SetupNext ==
    \/ bootstrap \/ update_classroom \/ install_winget_package \/ save_bootstrap_state \/ initialize_classroom_repository
    \/ manage_classroom \/ start_selected \/ resume_after_restart \/ confirm_installation_cancel
    \/ skip_step \/ invoke_wsl_setup \/ winget_ensure \/ append_log \/ pull_image \/ plan_finished
    \/ uninstall_everything \/ uninstall_refused \/ select_components
    \/ backup_project \/ remove_selected_data \/ remove_classroom_virtual_machines \/ remove_image
    \/ uninstall_package \/ save_uninstalled_component \/ packages_removed \/ remove_wsl
    \/ check_project \/ remove_project \/ remove_state \/ remove_run_once \/ remove_launcher \/ close_window
    \/ study \/ start_vm \/ install_distribution \/ interrupted

SetupSpec == SetupInit /\ [][SetupNext]_setupVars

---------------------------------------------------------------------------
\* A program recorded as installed by the classroom stays attributed to it as
\* long as it is there, whatever was removed, failed or was interrupted: only
\* then can a later run remove it.  The full uninstaller gives up WSL when the
\* student has a distribution of their own.
OwnershipIsKept == (ours \cap programs) \ Attributed \subseteq {"wsl"}

\* A project that a selection removes is in a backup as it was at the last
\* check, and the image it leaves behind stays known.
SelectionKeepsWork ==
    [][checkout # None /\ checkout' = None /\ script.mode = "select" =>
          /\ script.seen.work \in saved
          /\ image => retained]_setupVars

\* A resumption at the next start always finds the script it names.
ResumeHasManager == runOnce => launcher

\* "oppure seleziona esplicitamente la VM", says the script to a student who
\* wants the project removed: the project is refused only when the student's
\* work is no longer what the backup holds, never for what the script did.
SelectionIsCarriedOut == script.pc = "changed" => checkout.work # script.held.work

\* The three together: whatever fails or is interrupted, what the classroom
\* installed can still be removed, and what the student made is still there.
SetupIsRecoverable == [](OwnershipIsKept /\ ResumeHasManager) /\ SelectionKeepsWork

=============================================================================
