-------------------------------- MODULE Grading --------------------------------
(***************************************************************************)
(* Grading in containers.  A delivery is graded under the lock of its       *)
(* directory: a job file, a state file, one container per test case, and a  *)
(* result that is never replaced; a teacher may put a grade on the result.  *)
(* The register's grading runs the same containers with no lock and keeps   *)
(* the report.  The server or the machine may stop at any step, the docker  *)
(* daemon answers late or not at all, and an upgrade changes the producer.  *)
(* The sandbox's flags and the text of the outputs are left out: a test     *)
(* ends as "pass", "fail" or, when the program could not be prepared (a     *)
(* compiler that fails or is too slow), in a terminal report with no test.  *)
(***************************************************************************)
EXTENDS Faults, Sequences, FiniteSets

CONSTANTS
    GradeCalls,     \* requests in progress
    Cases,          \* number of test cases of the activity
    Language,       \* "c", "sql" or a script language of the activity
    MaxImage,       \* bound on upgrades of the producer
    MaxStamp,       \* bound on time stamps of jobs and results
    GradingFaults,  \* bound on failures
    Regrades        \* bound: a register with a report is graded again

VARIABLES
    producerImage,          \* provenance of the installed producer
    contract,       \* the activity's revision is archived
    material,       \* the teacher's files still are that revision
    dir,            \* the delivery's directory [job, state, result, review]
    holder,         \* who holds the directory's lock
    grading,        \* grading[c]: [pc, kind, reports, answer]
    box,            \* box[c]: the call's container, as the daemon knows it
    reaped,         \* calls whose container was confirmed absent
    answered,       \* results a grade answered
    report,         \* the register's report, or None
    stamp           \* time stamps so far

gradingState == << producerImage, contract, material, dir, holder, grading, box, reaped,
                   answered, report, stamp >>
gradingVars == << gradingState, faults >>

NoGrading == [pc |-> "idle", kind |-> "none", reports |-> << >>, answer |-> "none", tries |-> 0]

GradingInit ==
    /\ producerImage = 1
    /\ contract = FALSE
    /\ material = TRUE
    /\ dir = OnDisk([job |-> None, state |-> "none", result |-> None, review |-> None])
    /\ holder = None
    /\ grading = [c \in GradeCalls |-> NoGrading]
    /\ box = [c \in GradeCalls |-> "absent"]
    /\ reaped = {}
    /\ answered = {}
    /\ report = None
    /\ stamp = 0
    /\ faults = 0

Jobs == [image : Nat, at : Nat]
Results == [job : Jobs \cup {None}, at : Nat, right : Nat, total : Nat]

ASSUME GradingAssumption == None \notin GradeCalls /\ None \notin Results

GradeAt(c, pc) == grading[c].pc = pc
GradeGoes(c, pc) == grading' = [grading EXCEPT ![c].pc = pc]

\* The call answers or raises, and leaves the lock.
Ends(c) ==
    /\ grading' = [grading EXCEPT ![c] = NoGrading]
    /\ holder' = IF holder = c THEN None ELSE holder

With(field, value) == [dir.now EXCEPT ![field] = value]

\* write_json_atomic and write_json_exclusive that succeed.
Written(field, value) == dir' = OnDisk(With(field, value))

\* The write raises: nothing was published; the new name is there, unsynced.
WriteFails(field, value) ==
    /\ Fault(GradingFaults)
    /\ \/ UNCHANGED dir
       \/ dir' = Changed(dir, With(field, value))

\* write_json_exclusive takes a name that could not be synced away again.
WithdrawnWrite(field, value) ==
    /\ Fault(GradingFaults)
    /\ \/ UNCHANGED dir
       \/ dir' = Changed(Changed(dir, With(field, value)), dir.now)

---------------------------------------------------------------------------
(* The requests.                                                           *)

\* grade_student_delivery under the course's locks, released before it grades:
\* a revision that was never archived is taken from matching material.
grade_student_delivery(c, kind) ==
    /\ GradeAt(c, "idle") /\ box[c] = "absent"
    /\ kind \in {"grade", "review"}
    /\ grading' = [grading EXCEPT ![c] = [NoGrading EXCEPT !.pc = "lock", !.kind = kind]]
    /\ contract' = (contract \/ (kind = "grade" /\ material))
    /\ reaped' = reaped \ {c}
    /\ NoFault
    /\ UNCHANGED << producerImage, material, dir, holder, box, answered, report, stamp >>

\* grade_activity.py --docker, which the register's grading starts.
run_docker_grading(c) ==
    /\ GradeAt(c, "idle") /\ box[c] = "absent"
    /\ report # None => Regrades
    /\ grading' = [grading EXCEPT ![c] = [NoGrading EXCEPT !.pc = "start", !.kind = "register"]]
    /\ reaped' = reaped \ {c}
    /\ NoFault
    /\ UNCHANGED << producerImage, contract, material, dir, holder, box, answered, report, stamp >>

\* Mutant of grade: a result that is there is answered as it is.
MutGrade(c) ==
    /\ GradeAt(c, "lock") /\ grading[c].kind = "grade" /\ holder = None
    /\ \/ /\ dir.now.result # None
          /\ Ends(c) /\ NoFault
          /\ answered' = answered \cup {dir.now.result}
          /\ UNCHANGED dir
       \/ /\ dir.now.result = None
          /\ holder' = c
          /\ GradeGoes(c, IF contract THEN "job" ELSE "error")
          /\ NoFault
          /\ UNCHANGED << dir, answered >>
    /\ UNCHANGED << producerImage, contract, material, box, reaped, report, stamp >>

\* grade takes the lock: a result that is there is synced and answered.
grade(c) ==
    /\ GradeAt(c, "lock") /\ grading[c].kind = "grade" /\ holder = None
    /\ \/ /\ dir.now.result # None
          /\ Ends(c)
          /\ \/ NoFault /\ dir' = Synced(dir) /\ answered' = answered \cup {dir.now.result}
             \/ Fault(GradingFaults) /\ UNCHANGED << dir, answered >>
       \/ /\ dir.now.result = None
          /\ holder' = c
          /\ GradeGoes(c, IF contract THEN "job" ELSE "error")
          /\ NoFault
          /\ UNCHANGED << dir, answered >>
    /\ UNCHANGED << producerImage, contract, material, box, reaped, report, stamp >>

\* The job is written once; one with another provenance refuses the request.
write_job(c) ==
    LET job == [image |-> producerImage, at |-> stamp + 1] IN
    /\ GradeAt(c, "job")
    /\ \/ /\ dir.now.job = None /\ stamp < MaxStamp
          /\ stamp' = stamp + 1
          /\ \/ NoFault /\ Written("job", job) /\ GradeGoes(c, "state") /\ UNCHANGED holder
             \/ WithdrawnWrite("job", job) /\ Ends(c)
       \/ /\ dir.now.job # None
          /\ IF dir.now.job.image = producerImage THEN GradeGoes(c, "state") /\ UNCHANGED holder ELSE Ends(c)
          /\ NoFault
          /\ UNCHANGED << dir, stamp >>
    /\ UNCHANGED << producerImage, contract, material, box, reaped, answered, report >>

write_state(c) ==
    /\ GradeAt(c, "state")
    /\ \/ NoFault /\ Written("state", "running") /\ GradeGoes(c, "start") /\ UNCHANGED holder
       \/ WriteFails("state", "running") /\ Ends(c)
    /\ UNCHANGED << producerImage, contract, material, box, reaped, answered, report, stamp >>

\* What cannot be produced is an error in the state file, never a grade.
write_error(c) ==
    /\ GradeAt(c, "error")
    /\ Ends(c)
    /\ \/ NoFault /\ Written("state", "error")
       \/ WriteFails("state", "error")
    /\ UNCHANGED << producerImage, contract, material, box, reaped, answered, report, stamp >>

---------------------------------------------------------------------------
(* grade_activity_in_docker: one container per test case.                  *)

\* The register's call ends; a delivery's call writes the error, whatever it had.
Raises(c) ==
    IF grading[c].kind = "register" THEN Ends(c)
    ELSE /\ grading' = [grading EXCEPT ![c] = [NoGrading EXCEPT !.pc = "error", !.kind = "grade"]]
         /\ UNCHANGED holder

\* The image is not there, or docker is not: no container was asked for.
producer_unavailable(c) ==
    /\ GradeAt(c, "start")
    /\ Fault(GradingFaults)
    /\ Raises(c)
    /\ UNCHANGED << producerImage, contract, material, dir, box, reaped, answered, report, stamp >>

\* run_bounded_process starts the docker client.
docker_run(c) ==
    /\ GradeAt(c, "start")
    /\ GradeGoes(c, "client")
    /\ box' = [box EXCEPT ![c] = "requested"]
    /\ reaped' = reaped \ {c}
    /\ NoFault
    /\ UNCHANGED << producerImage, contract, material, dir, holder, answered, report, stamp >>

\* The daemon creates the container, also for a client that is gone; only a
\* client that still waits starts it.
create(c) ==
    /\ box[c] = "requested"
    /\ box' = [box EXCEPT ![c] = "created"]
    /\ NoFault
    /\ UNCHANGED << producerImage, contract, material, dir, holder, grading, reaped, answered, report, stamp >>

start_container(c) ==
    /\ GradeAt(c, "client") /\ box[c] = "created"
    /\ box' = [box EXCEPT ![c] = "running"]
    /\ NoFault
    /\ UNCHANGED << producerImage, contract, material, dir, holder, grading, reaped, answered, report, stamp >>

\* A test passes when the program returns 0 with the expected output; it fails
\* on another output, another return code, a time-out or a program that does not
\* start.  The program in C is compiled again for every test.
compile_c_source == {"compiled", "terminal"}
run_test_case == {"pass", "fail"}
run_command_test_case == {"pass", "fail"}
run_sql_test_case == {"pass", "fail"}

\* The worker's report on one test; "error" is an output that is no report.
worker_execution_report ==
    {"error"} \cup IF Language = "c" THEN (compile_c_source \ {"compiled"}) \cup run_test_case
                  ELSE IF Language = "sql" THEN run_sql_test_case
                  ELSE run_command_test_case

\* The worker ends and --rm removes its container.
exit(c, outcome) ==
    /\ box[c] = "running"
    /\ box' = [box EXCEPT ![c] = "absent"]
    /\ grading' = IF GradeAt(c, "client")
                  THEN [grading EXCEPT ![c].pc = "remove", ![c].answer = outcome]
                  ELSE grading
    /\ NoFault
    /\ UNCHANGED << producerImage, contract, material, dir, holder, reaped, answered, report, stamp >>

\* The deadline passes, or the output grows past its limit: the client's
\* process group is killed, the daemon does not notice.
terminate_process_group(c) ==
    /\ GradeAt(c, "client")
    /\ grading' = [grading EXCEPT ![c].pc = "remove", ![c].answer = "error"]
    /\ NoFault
    /\ UNCHANGED << producerImage, contract, material, dir, holder, box, reaped, answered, report, stamp >>

\* docker rm -f, by name.
docker_rm(c) ==
    /\ GradeAt(c, "remove")
    /\ GradeGoes(c, "inspect")
    /\ \/ NoFault /\ box' = [box EXCEPT ![c] = IF @ = "requested" THEN @ ELSE "absent"]
       \/ Fault(GradingFaults) /\ UNCHANGED box
    /\ UNCHANGED << producerImage, contract, material, dir, holder, reaped, answered, report, stamp >>

Present(c) == box[c] \in {"created", "running"}

\* After a confirmed removal: the next test, the error, or the report.
Continues(c) ==
    LET reports == Append(grading[c].reports, grading[c].answer) IN
    IF grading[c].answer = "error" THEN Raises(c)
    ELSE /\ grading' = [grading EXCEPT ![c].reports = reports, ![c].answer = "none", ![c].tries = 0,
                            ![c].pc = IF grading[c].answer = "terminal" \/ Len(reports) = Cases
                                      THEN "report" ELSE "start"]
         /\ UNCHANGED holder

\* The second attempt that confirms nothing is DockerCleanupError.
NotConfirmed(c) ==
    IF grading[c].tries = 0
    THEN grading' = [grading EXCEPT ![c].pc = "remove", ![c].tries = 1] /\ UNCHANGED holder
    ELSE Raises(c)

\* docker inspect: only "no such container" confirms.
remove_docker_container(c) ==
    /\ GradeAt(c, "inspect")
    /\ \/ NoFault /\ Present(c) /\ NotConfirmed(c) /\ UNCHANGED reaped
       \/ NoFault /\ ~Present(c) /\ reaped' = reaped \cup {c} /\ Continues(c)
       \/ Fault(GradingFaults) /\ NotConfirmed(c) /\ UNCHANGED reaped
    /\ UNCHANGED << producerImage, contract, material, dir, box, answered, report, stamp >>

\* finalize_worker_report: the outputs up to a terminal report, the last one, are
\* compared.
Tested(reports) == {i \in DOMAIN reports : reports[i] # "terminal"}

finalize_worker_report(reports) ==
    LET tests == Tested(reports)
        right == {i \in tests : reports[i] = "pass"} IN
    [total |-> Cardinality(tests), right |-> Cardinality(right),
     passed |-> tests # {} /\ right = tests]

\* The register keeps the report as it is.
write_report(c) ==
    /\ GradeAt(c, "report") /\ grading[c].kind = "register"
    /\ report' = finalize_worker_report(grading[c].reports)
    /\ Ends(c)
    /\ NoFault
    /\ UNCHANGED << producerImage, contract, material, dir, box, reaped, answered, stamp >>

\* DockerSnapshotProducer.run wants every test case; then the result is linked.
write_result(c) ==
    LET final == finalize_worker_report(grading[c].reports)
        result == [job |-> dir.now.job, at |-> stamp + 1, right |-> final.right, total |-> final.total] IN
    /\ GradeAt(c, "report") /\ grading[c].kind = "grade"
    /\ \/ /\ final.total # Cases
          /\ Raises(c) /\ NoFault
          /\ UNCHANGED << dir, stamp >>
       \/ /\ final.total = Cases /\ stamp < MaxStamp
          /\ stamp' = stamp + 1
          /\ \/ NoFault /\ dir' = Changed(dir, With("result", result)) /\ GradeGoes(c, "sync")
             \/ Fault(GradingFaults) /\ UNCHANGED dir /\ Ends(c)
          /\ IF grading'[c].pc = "sync" THEN UNCHANGED holder ELSE TRUE
    /\ UNCHANGED << producerImage, contract, material, box, reaped, answered, report >>

\* The sync of the result's name; one that fails takes the name away again.
sync_result(c) ==
    /\ GradeAt(c, "sync")
    /\ \/ NoFault /\ dir' = Synced(dir) /\ answered' = answered \cup {dir.now.result}
       \/ Fault(GradingFaults) /\ dir' = Changed(dir, With("result", None)) /\ UNCHANGED answered
    /\ Ends(c)
    /\ UNCHANGED << producerImage, contract, material, box, reaped, report, stamp >>

---------------------------------------------------------------------------
\* The teacher's grade, on the result whose digest the request carries.
review_report(c, result) ==
    /\ GradeAt(c, "lock") /\ grading[c].kind = "review" /\ holder = None
    /\ Ends(c)
    /\ \/ result # dir.now.result /\ NoFault /\ UNCHANGED dir
       \/ /\ result = dir.now.result
          /\ \/ NoFault /\ Written("review", result)
             \/ WriteFails("review", result)
    /\ UNCHANGED << producerImage, contract, material, box, reaped, answered, report, stamp >>

\* A new release of the code or of the image.
upgrade ==
    /\ producerImage < MaxImage
    /\ producerImage' = producerImage + 1
    /\ NoFault
    /\ UNCHANGED << contract, material, dir, holder, grading, box, reaped, answered, report, stamp >>

\* The teacher changes the activity.
change_material ==
    /\ material
    /\ material' = FALSE
    /\ NoFault
    /\ UNCHANGED << producerImage, contract, dir, holder, grading, box, reaped, answered, report, stamp >>

\* The server is killed, or the machine loses power: containers outlive the first.
stop_server(disk, boxes) ==
    /\ \E c \in GradeCalls : grading[c] # NoGrading
    /\ Fault(GradingFaults)
    /\ \/ disk = dir /\ boxes = box
       \/ disk \in {OnDisk(d) : d \in dir.after} /\ boxes = [c \in GradeCalls |-> "absent"]
    /\ dir' = disk /\ box' = boxes
    /\ grading' = [c \in GradeCalls |-> NoGrading]
    /\ holder' = None
    /\ UNCHANGED << producerImage, contract, material, reaped, answered, report, stamp >>

GradingNext ==
    \/ upgrade \/ change_material
    \/ \E disk \in {dir} \cup {OnDisk(d) : d \in dir.after},
          boxes \in {box, [c \in GradeCalls |-> "absent"]} : stop_server(disk, boxes)
    \/ \E c \in GradeCalls :
          \/ \E kind \in {"grade", "review"} : grade_student_delivery(c, kind)
          \/ run_docker_grading(c)
          \/ grade(c) \/ write_job(c) \/ write_state(c) \/ write_error(c)
          \/ producer_unavailable(c) \/ docker_run(c) \/ create(c) \/ start_container(c)
          \/ \E outcome \in worker_execution_report : exit(c, outcome)
          \/ terminate_process_group(c) \/ docker_rm(c) \/ remove_docker_container(c)
          \/ write_report(c) \/ write_result(c) \/ sync_result(c)
          \/ \E result \in (answered \cup {dir.now.result}) \ {None} : review_report(c, result)

GradingSpec == GradingInit /\ [][GradingNext]_gradingVars

---------------------------------------------------------------------------
\* A grade that was answered is the delivery's grade for good: whatever a power
\* loss leaves of the directory holds that result with its job, so that no
\* retry, no upgraded producer and no interrupted call gives a second one, and
\* a teacher's grade always is on the result that is there.
GradeIsFinal ==
    \A d \in dir.after :
        /\ \A r \in answered : d.result = r
        /\ d.result # None => d.job = d.result.job
        /\ d.review # None => d.review = d.result

\* Once the removal of a container is confirmed, that container does not run:
\* no student program survives a timeout, a lost docker client or a daemon that
\* does not answer (remove_docker_container raises instead).
ConfirmedIsGone == \A c \in reaped : box[c] # "running"

\* A register's report that passed passed every test case of the activity
\* (the register says "Tutti i test deterministici risultano superati").
PassedMeansAllTests == report # None => (report.passed => report.total = Cases)

\* Both together: neither a retry nor a crash leaves a second grade or a running
\* program behind.
GradingIsSettled == GradeIsFinal /\ ConfirmedIsGone

=============================================================================
