-------------------------------- MODULE MCWork --------------------------------
(*****************************************************************************)
(* The components around the students' work, its distribution with the GitHub *)
(* App's tokens, and the classroom machine, in one run of TLC. They share no *)
(* variable but the count of failures: a behaviour is that of one of them,   *)
(* chosen in the initial state, the others at rest.                          *)
(*****************************************************************************)
EXTENDS LabAttempts, RuntimeRuns, Registers, Scaffold, Assigning, AppTokens,
        Installation, TLC

VARIABLE part       \* the component of this behaviour

MCRepositories == << "r1", "r2" >>
MCStudentOf == [r \in Targets |-> "s"]
MCRoster == [l \in Labels |-> IF l = "k1" THEN {"x/s"} ELSE {"y/s"}]
Symmetry == Permutations(Calls)

-----------------------------------------------------------------------------
\* Every component but the named one keeps its state.
Others(name) ==
    /\ name # "lab attempts" => UNCHANGED labState
    /\ name # "runtime runs" => UNCHANGED runState
    /\ name # "registers" => UNCHANGED registerState
    /\ name # "scaffold" => UNCHANGED scaffoldState
    /\ name # "assigning" => UNCHANGED assigningState
    /\ name # "app tokens" => UNCHANGED appState
    /\ name # "installation" => UNCHANGED setupState

Component(name) == part = name /\ UNCHANGED part

Init ==
    /\ part \in {"lab attempts", "runtime runs", "registers", "scaffold",
                 "assigning", "app tokens", "installation"}
    /\ LabInit /\ RunInit /\ RegisterInit /\ ScaffoldInit /\ AssigningInit
    /\ AppInit /\ SetupInit
    /\ part # "registers" => delivering /\ \A n \in Names : register[n] = None
    /\ part # "assigning" => \A p \in Pages : page[p].form.label = "k1"
    /\ part # "installation" => programs = {}

LabAttemptsStep == Component("lab attempts") /\ LabNext /\ Others("lab attempts")
RuntimeRunsStep == Component("runtime runs") /\ RunNext /\ Others("runtime runs")
RegistersStep == Component("registers") /\ RegisterNext /\ Others("registers")
ScaffoldStep == Component("scaffold") /\ ScaffoldNext /\ Others("scaffold")
AssigningStep == Component("assigning") /\ AssigningNext /\ Others("assigning")
AppTokensStep == Component("app tokens") /\ AppNext /\ Others("app tokens")
InstallationStep == Component("installation") /\ SetupNext /\ Others("installation")

Next ==
    \/ LabAttemptsStep \/ RuntimeRunsStep \/ RegistersStep \/ ScaffoldStep
    \/ AssigningStep \/ AppTokensStep \/ InstallationStep

Spec == Init /\ [][Next]_<< part, faults,
            labState, runState, registerState, scaffoldState, assigningState,
            appState, setupState >>
=============================================================================
