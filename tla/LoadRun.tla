------------------------------ MODULE LoadRun ------------------------------
(***************************************************************************)
(* scripts/run_performance.py: the runner, which for every step clears the *)
(* outputs, starts a Locust process, waits for it, stops the three threads *)
(* that sampled it meanwhile and judges what is left in the step's         *)
(* directory; the threads, which share lists with it and are joined with   *)
(* time limits; and the Locust process with the listeners of               *)
(* tests/performance/locustfile.py that write the files.                   *)
(*                                                                         *)
(* A file is None or what it tells, with the number of the step whose      *)
(* Locust wrote it (0: left by an earlier run of the script).  A list of   *)
(* samples is what its reduction reads of it.                              *)
(***************************************************************************)
EXTENDS LoadReport, Sequences

CONSTANTS
    Targets,       \* --targets; equal targets share a directory
    Root,          \* --output-dir, where the organizer profile writes
    Loads,         \* what a Locust process may have done
    OldLoad,       \* what the earlier run had done
    Levels,        \* what each sampler may read
    Unavailable,   \* the entry of docker_samples that says so
    MaxSamples     \* bound on the CPU samples of a step

Dirs == Range(Targets) \cup {Root}

Samplers == {"process", "docker", "connections"}

ASSUME LoadConstants ==
    /\ Targets \in Seq(Range(Targets)) /\ Targets # <<>>
    /\ Loads \subseteq Works
    /\ OldLoad \in Works
    /\ Levels \in [Samplers -> SUBSET Nat]
    /\ MaxSamples \in Nat
    /\ None \notin Nat \cup {Unavailable} /\ Unavailable \notin Nat

VARIABLES
    profile,       \* --profile
    pc,            \* where the runner is
    step,          \* the step it is at
    files,         \* the files of each directory
    locust,        \* the state of the Locust process
    load,          \* what it has done, once the test has stopped
    long,          \* whether it ran for the whole duration of the profile
    code,          \* its exit code
    stop,          \* the event stop
    sampler,       \* the state of each sampling thread
    cpu,           \* samples: their sum, number and maximum
    docker,        \* docker_samples: Unavailable if one says so, or the maximum
    connections,   \* conn_samples: the maximum
    report,        \* the values reduced from them
    violations,    \* of the step judged last
    passed,        \* result.passed of each step judged
    rc             \* the exit code of the script

runVars == <<profile, step, passed, rc>>
locustVars == <<locust, load, long, code>>
sampleVars == <<cpu, docker, connections>>
vars == <<pc, runVars, files, locustVars, stop, sampler, sampleVars, report, violations>>

\* The directories of the steps, in order.
StepDirs == IF profile = "organizer" THEN <<Root>> ELSE Targets

Dir == StepDirs[step]

NoFiles == [final |-> None, metrics |-> None, history |-> None]

OldFiles ==
    [final |-> [by |-> 0, row |-> Statistics(OldLoad, TRUE)],
     metrics |-> [by |-> 0, counters |-> Snapshot(OldLoad)],
     history |-> [by |-> 0, users |-> RequiredUsers]]

NoSamples == [sum |-> 0, len |-> 0, peak |-> 0]

NoReport == [measured |-> FALSE, sum |-> 0, len |-> 0, peak |-> 0,
             docker |-> None, connections |-> None]

\* main() with valid arguments; the directories may be in use since earlier.
Init ==
    /\ profile \in {"steps", "organizer"}
    /\ files \in {[d \in Dirs |-> f] : f \in {NoFiles, OldFiles}}
    /\ pc = "health"
    /\ step = 1
    /\ locust = "none" /\ load = None /\ long = TRUE /\ code = None
    /\ stop = FALSE
    /\ sampler = [s \in Samplers |-> "ended"]
    /\ cpu = NoSamples
    /\ docker = None
    /\ connections = None
    /\ report = NoReport
    /\ violations = {}
    /\ passed = <<>>
    /\ rc = None

-----------------------------------------------------------------------------
(* The runner.                                                             *)

\* An exception leaves main(): Python exits with 1.
Raise ==
    /\ pc' = "done"
    /\ rc' = 1
    /\ UNCHANGED <<profile, step, passed>>

CheckHealth ==
    /\ pc = "health"
    /\ \/ pc' = "reset" /\ UNCHANGED runVars
       \/ Raise
    /\ UNCHANGED <<files, locustVars, stop, sampler, sampleVars, report, violations>>

\* Mutant: only the statistics are removed.
ResetStepOutputs_FinalOnly ==
    /\ pc = "reset"
    /\ files' = [files EXCEPT ![Dir].final = None]
    /\ pc' = "launch"
    /\ UNCHANGED runVars
    /\ UNCHANGED <<locustVars, stop, sampler, sampleVars, report, violations>>

\* reset_step_outputs: a file that cannot be removed ends the run.
ResetStepOutputs ==
    /\ pc = "reset"
    /\ \/ /\ files' = [files EXCEPT ![Dir].final = None, ![Dir].metrics = None]
          /\ pc' = "launch"
          /\ UNCHANGED runVars
       \/ files' \in {files, [files EXCEPT ![Dir].final = None]} /\ Raise
    /\ UNCHANGED <<locustVars, stop, sampler, sampleVars, report, violations>>

\* The process and its samplers are started, with new lists and a new event.
Launch ==
    /\ pc' = "wait"
    /\ locust' = "starting" /\ load' = None /\ long' = TRUE /\ code' = None
    /\ stop' = FALSE
    /\ sampler' = [s \in Samplers |-> "running"]
    /\ cpu' = NoSamples
    /\ docker' = None
    /\ connections' = None
    /\ report' = NoReport
    /\ violations' = {}
    /\ UNCHANGED <<runVars, files>>

PopenFails ==
    /\ pc = "launch"
    /\ Raise
    /\ UNCHANGED <<files, locustVars, stop, sampler, sampleVars, report, violations>>

\* run_step
LaunchStep == pc = "launch" /\ profile = "steps" /\ Launch

\* run_organizer_profile
LaunchOrganizer == pc = "launch" /\ profile = "organizer" /\ Launch

\* Mutant: the process is polled, not waited for.
Wait_Poll ==
    /\ pc = "wait"
    /\ stop' = TRUE
    /\ pc' = "join"
    /\ UNCHANGED <<runVars, files, locustVars, sampler, sampleVars, report, violations>>

\* process.wait() returns; the finally clause tells the samplers to stop.
Wait ==
    /\ pc = "wait"
    /\ locust = "ended"
    /\ stop' = TRUE
    /\ pc' = "join"
    /\ UNCHANGED <<runVars, files, locustVars, sampler, sampleVars, report, violations>>

\* process.wait() is left by an exception (Ctrl-C): the finally clause runs all
\* the same, but the lists it finalizes are given up.
Interrupt ==
    /\ pc = "wait"
    /\ Raise
    /\ UNCHANGED <<files, locustVars, stop, sampler, sampleVars, report, violations>>

\* sampler.join(timeout=2.0): whether the thread has ended is not asked.
JoinProcess ==
    /\ pc = "join"
    /\ pc' = "docker"
    /\ UNCHANGED <<runVars, files, locustVars, stop, sampler, sampleVars, report, violations>>

\* Mutant: a sampler that is still alive is not noticed.
FinalizeDocker_Unchecked ==
    /\ pc = "docker"
    /\ pc' = "connections"
    /\ UNCHANGED <<runVars, files, locustVars, stop, sampler, sampleVars, report, violations>>

\* Mutant: the sampler is joined without a time limit.
FinalizeDocker_NoTimeout ==
    /\ pc = "docker"
    /\ sampler["docker"] = "ended"
    /\ pc' = "connections"
    /\ UNCHANGED <<runVars, files, locustVars, stop, sampler, sampleVars, report, violations>>

\* _finalize_docker_samples: the join has returned or its time is up.
FinalizeDocker ==
    /\ pc = "docker"
    /\ docker' = IF sampler["docker"] = "ended" THEN docker ELSE Unavailable
    /\ pc' = "connections"
    /\ UNCHANGED <<runVars, files, locustVars, stop, sampler, cpu, connections,
                   report, violations>>

\* _finalize_connection_samples and _connection_peak: the samples of a thread
\* that is still alive are discarded; one that has ended appends no more.
FinalizeConnections ==
    /\ pc = "connections"
    /\ report' = [report EXCEPT !.connections =
                    IF sampler["connections"] = "ended" THEN connections ELSE None]
    /\ pc' = "measured"
    /\ UNCHANGED <<runVars, files, locustVars, stop, sampler, sampleVars, violations>>

\* The runner reads a value v off a list.
Read(field, v, next) ==
    /\ report' = [report EXCEPT ![field] = v]
    /\ pc' = next
    /\ UNCHANGED <<runVars, files, locustVars, stop, sampler, sampleVars, violations>>

\* Mutant: the peak is taken before the average.
ReduceProcess_PeakFirst ==
    \/ pc = "measured" /\ Read("measured", cpu.len > 0, "peak")
    \/ pc = "peak" /\ Read("peak", cpu.peak, "sum")
    \/ pc = "sum" /\ Read("sum", cpu.sum, "len")
    \/ pc = "len" /\ Read("len", cpu.len, "docker_peak")

\* measured, avg_cpu (a sum, then a length) and peak_cpu are read one after
\* another from the list of a thread that may still append to it; memory alike.
ReduceProcess ==
    \/ pc = "measured" /\ Read("measured", cpu.len > 0, "sum")
    \/ pc = "sum" /\ Read("sum", cpu.sum, "len")
    \/ pc = "len" /\ Read("len", cpu.len, "peak")
    \/ pc = "peak" /\ Read("peak", cpu.peak, "docker_peak")

\* _docker_peak: None when a sample says so, or there is none.
DockerPeak(d) == IF d = Unavailable THEN None ELSE d

ReduceDocker == pc = "docker_peak" /\ Read("docker", DockerPeak(docker), "judge")

\* read_authoritative_aggregate: without final_stats.csv the step fails.
ReadAggregate(f) == IF f.final = None THEN EmptyAggregate ELSE f.final.row

ExitCode(f) == IF f.final = None /\ code = 0 THEN 2 ELSE code

\* read_custom_metrics: None also for a file that does not parse.
ReadCustomMetrics(f) == IF f.metrics = None THEN None ELSE f.metrics.counters

\* read_history_metrics
ObservedMaxUsers(f) == IF f.history = None THEN 0 ELSE f.history.users

\* The files are read and the step is judged; only the organizer profile has a
\* gate on the time measured.
Judge ==
    LET f == files[Dir]
    IN  /\ pc = "judge"
        /\ violations' = BuildResult(ExitCode(f), ReadAggregate(f), ReadCustomMetrics(f),
                                     ObservedMaxUsers(f), report.connections,
                                     profile = "steps" \/ long)
        /\ passed' = Append(passed, violations' = {})
        /\ pc' = "report"
        /\ UNCHANGED <<profile, step, rc, files, locustVars, stop, sampler,
                       sampleVars, report>>

\* write_reports, then the next step or the end.
WriteReports ==
    /\ pc = "report"
    /\ \/ Raise
       \/ /\ step < Len(StepDirs)
          /\ step' = step + 1
          /\ pc' = "reset"
          /\ UNCHANGED <<profile, passed, rc>>
       \/ /\ step = Len(StepDirs)
          /\ rc' = IF \A i \in DOMAIN passed : passed[i] THEN 0 ELSE 1
          /\ pc' = "done"
          /\ UNCHANGED <<profile, step, passed>>
    /\ UNCHANGED <<files, locustVars, stop, sampler, sampleVars, report, violations>>

-----------------------------------------------------------------------------
(* The Locust process.  It is not followed once the script has ended: only *)
(* a script that was interrupted leaves it running.                        *)

locustOthers == <<pc, runVars, stop, sampler, sampleVars, report, violations>>

\* Locust opens its CSV files, the history among them, anew; the users may or
\* may not reach the number asked for.
LocustStart ==
    /\ pc # "done" /\ locust = "starting"
    /\ locust' = "running"
    /\ \E u \in {0, RequiredUsers} :
          files' = [files EXCEPT ![Dir].history = [by |-> step, users |-> u]]
    /\ UNCHANGED <<load, long, code, locustOthers>>

\* The test stops, after -t or before.
LocustStop ==
    /\ pc # "done" /\ locust = "running"
    /\ locust' = "metrics"
    /\ load' \in Loads
    /\ long' \in {TRUE, profile = "steps"}
    /\ UNCHANGED <<files, code, locustOthers>>

\* _write_custom_metrics; Locust logs an error of a listener and goes on.
WriteCustomMetrics ==
    /\ pc # "done" /\ locust = "metrics"
    /\ locust' = "final"
    /\ \/ files' = [files EXCEPT ![Dir].metrics =
                       [by |-> step, counters |-> Snapshot(load)]]
       \/ UNCHANGED files
    /\ UNCHANGED <<load, long, code, locustOthers>>

\* _write_final_stats_csv writes the whole file or, after an error, none.  The
\* exit code is Locust's own affair.
WriteFinalStats ==
    /\ pc # "done" /\ locust = "final"
    /\ locust' = "ended"
    /\ code' \in {0, 1}
    /\ \/ \E fast \in BOOLEAN :
            files' = [files EXCEPT ![Dir].final =
                         [by |-> step, row |-> Statistics(load, fast)]]
       \/ UNCHANGED files
    /\ UNCHANGED <<load, long, locustOthers>>

\* The process dies, perhaps in the middle of writing the metrics.
LocustDies ==
    /\ pc # "done" /\ locust \in {"starting", "running", "metrics", "final"}
    /\ locust' = "ended"
    /\ code' = 1
    /\ \/ UNCHANGED files
       \/ /\ locust = "metrics"
          /\ files' = [files EXCEPT ![Dir].metrics = [by |-> step, counters |-> None]]
    /\ UNCHANGED <<load, long, locustOthers>>

-----------------------------------------------------------------------------
(* The sampling threads.                                                   *)

samplerOthers == <<pc, runVars, files, locustVars, stop, report, violations>>

Leave(s) == sampler' = [sampler EXCEPT ![s] = "ended"]

\* The loop of a sampler goes on unless stop is set.
GoOn(s) == IF stop THEN Leave(s) ELSE UNCHANGED sampler

\* Appending b to a list that reads a.
Higher(a, b) ==
    CASE a = None -> b
      [] a = Unavailable -> a
      [] OTHER -> IF b > a THEN b ELSE a

\* _sample_process: it may end early, without psutil or after an error.
SampleProcess ==
    /\ pc # "done" /\ sampler["process"] = "running"
    /\ \/ /\ cpu.len < MaxSamples
          /\ \E v \in Levels["process"] :
                cpu' = [sum |-> cpu.sum + v, len |-> cpu.len + 1,
                        peak |-> Higher(cpu.peak, v)]
          /\ GoOn("process")
       \/ Leave("process") /\ UNCHANGED cpu
    /\ UNCHANGED <<docker, connections, samplerOthers>>

\* _sample_docker: without containers, or when docker fails, it says so and ends.
SampleDocker ==
    /\ pc # "done" /\ sampler["docker"] = "running"
    /\ \/ /\ \E v \in Levels["docker"] : docker' = Higher(docker, v)
          /\ GoOn("docker")
       \/ docker' = Unavailable /\ Leave("docker")
       \/ stop /\ Leave("docker") /\ UNCHANGED docker
    /\ UNCHANGED <<cpu, connections, samplerOthers>>

\* _sample_connections: a count that cannot be had is no sample.
SampleConnections ==
    /\ pc # "done" /\ sampler["connections"] = "running"
    /\ \/ /\ \E v \in Levels["connections"] : connections' = Higher(connections, v)
          /\ GoOn("connections")
       \/ /\ stop \/ connections = None
          /\ Leave("connections")
          /\ UNCHANGED connections
    /\ UNCHANGED <<cpu, docker, samplerOthers>>

-----------------------------------------------------------------------------

RunnerStep ==
    \/ CheckHealth
    \/ ResetStepOutputs
    \/ LaunchStep
    \/ LaunchOrganizer
    \/ PopenFails
    \/ Wait
    \/ JoinProcess
    \/ FinalizeDocker
    \/ FinalizeConnections
    \/ ReduceProcess
    \/ ReduceDocker
    \/ Judge
    \/ WriteReports

LocustStep ==
    \/ LocustStart
    \/ LocustStop
    \/ WriteCustomMetrics
    \/ WriteFinalStats

\* The script has ended, and its daemon threads with it.
Finished == pc = "done" /\ UNCHANGED vars

Next ==
    \/ RunnerStep
    \/ Interrupt
    \/ LocustStep
    \/ LocustDies
    \/ SampleProcess
    \/ SampleDocker
    \/ SampleConnections
    \/ Finished

Spec == Init /\ [][Next]_vars

\* The runner goes on when it can, and Locust stops after its -t; nothing is
\* assumed of the samplers, which may hang in a call.
FairSpec == Spec /\ WF_vars(RunnerStep) /\ WF_vars(LocustStep)

-----------------------------------------------------------------------------
(* Properties                                                              *)

Files ==
    [final : {None} \cup [by : Nat, row : {Statistics(w, fast) :
                                             w \in Loads \cup {OldLoad}, fast \in BOOLEAN}],
     metrics : {None} \cup [by : Nat, counters :
                              {None} \cup {Snapshot(w) : w \in Loads \cup {OldLoad}}],
     history : {None} \cup [by : Nat, users : {0, RequiredUsers}]]

\* The variables have their types; in particular a step has an exit code as soon
\* as its files are judged.
LoadTypeOK ==
    /\ profile \in {"steps", "organizer"}
    /\ pc \in {"health", "reset", "launch", "wait", "join", "docker", "connections",
               "measured", "sum", "len", "peak", "docker_peak", "judge", "report", "done"}
    /\ step \in DOMAIN StepDirs
    /\ files \in [Dirs -> Files]
    /\ locust \in {"none", "starting", "running", "metrics", "final", "ended"}
    /\ load \in Loads \cup {None}
    /\ pc \in {"judge", "report"} => code \in Nat
    /\ {long, stop} \subseteq BOOLEAN
    /\ sampler \in [Samplers -> {"running", "ended"}]
    /\ cpu \in [sum : Nat, len : 0..MaxSamples, peak : Levels["process"] \cup {0}]
    /\ docker \in Levels["docker"] \cup {None, Unavailable}
    /\ connections \in Levels["connections"] \cup {None}
    /\ violations \subseteq Violations
    /\ passed \in Seq(BOOLEAN) /\ Len(passed) \in {step - 1, step}
    /\ rc \in {None, 0, 1}

\* A step without violations was earned by its own Locust, which exited with 0
\* and wrote all the files judged: none is left from an earlier step in the same
\* directory or from an earlier run (reset_step_outputs: stale artifacts are never
\* "accepted as a false PASS").  The script ends with 0 only when every
\* step was judged so.
GreenIsEarned ==
    LET f == files[Dir]
    IN  /\ pc = "report" /\ violations = {} =>
              /\ code = 0
              /\ f.final = [by |-> step, row |-> Statistics(load, TRUE)]
              /\ f.metrics = [by |-> step, counters |-> Snapshot(load)]
              /\ f.history.by = step
              /\ MaskRequests(load) > 0
        /\ rc = 0 => Len(passed) = Len(StepDirs) /\ FALSE \notin Range(passed)

\* A container peak or a number of connections that was reported stays what its
\* list says: no sampler that outlived its join changes the list afterwards
\* (_finalize_docker_samples, _finalize_connection_samples).
ReportedSettled ==
    /\ report.docker # None => report.docker = DockerPeak(docker)
    /\ report.connections # None => report.connections = connections

\* The CPU list is not settled when it is reduced, and is read four times; still
\* an average is reported only of samples and never exceeds the peak reported.
CpuReportSane ==
    pc \in {"docker_peak", "judge", "report"} /\ report.measured =>
        report.len > 0 /\ report.sum <= report.len * report.peak

\* "Any mismatch is a FAIL, never silently tolerated" (run_performance.py:1144):
\* the counters, kept by the users, and the statistics, kept by Locust, disagree
\* on requests or failures exactly when requests are missing from the statistics,
\* be their share below every limit; pairs cut off by the end of the test and
\* answers of any status are no mismatch.  The counters disagree with each other
\* only after a demask with a wrong result.
MismatchesExplained ==
    LET f == files[Dir]
    IN  pc = "report" /\ f.final # None /\ f.metrics # None /\ f.metrics.counters # None =>
            /\ violations \cap {"total", "failures"} # {} <=> Tasks(load, Unreported) > 0
            /\ violations \cap {"kinds", "roundtrip"} # {} => load["demaskWrong"] > 0

\* The script ends, whatever its samplers hang in: every join has a time limit,
\* and Locust one on its run.
RunnerFinishes == <>(pc = "done")
=============================================================================
