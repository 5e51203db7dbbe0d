------------------------------- MODULE OpenLoopRun -------------------------------
(***************************************************************************)
(* run_open_loop.main: the processes that are started for one run_id, one  *)
(* after the other or side by side, and the files they leave in the        *)
(* results directory.  A process checks its configuration, the source tree *)
(* and that it overwrites nothing, serves the trace with an engine,        *)
(* records every error it meets in its result, and writes the artifacts    *)
(* and last the summary with their hashes.  Any step may fail, a process   *)
(* may be killed, and the source tree may be edited meanwhile, although    *)
(* never back to an earlier version.                                       *)
(***************************************************************************)
EXTENDS ConfigValidation, Sequences, Functions

CONSTANTS
  Process,     \* the processes started for the run_id
  Configs,     \* configurations, as records of sections
  Specs,       \* the requests of the trace
  MaxFaults,   \* bound: errors
  MaxEdits     \* bound: edits of the source tree

(* Every configuration has an engine section, and all it gives but the     *)
(* policy and two switches are numbers.                                    *)
ASSUME RunAssumption ==
  \A c \in Configs :
    /\ "engine" \in DOMAIN c
    /\ \A f \in DOMAIN c.engine \ {"scheduler_policy", "cuda_event_timing",
                                   "incremental_kv_allocation"} : c.engine[f] \in Int

VARIABLES
  config,  \* the configuration file of the run_id
  source,  \* version of the source tree; 0 is the one of the manifest
  pc,      \* process -> where it is
  loaded,  \* process -> version of the code it has imported
  result,  \* process -> [status, full, errors]: of its OpenLoopResult the
           \* status and the lists that are filled, and what has gone wrong
  engine,  \* process -> whether llm is not None
  disk,    \* file -> what it holds; the files that exist are its domain
  before,  \* process -> those that were over when it found the directory free;
           \* until then, all
  faults   \* how many have happened

vars == <<config, source, pc, loaded, result, engine, disk, before, faults>>

Evidence == {"requests", "steps", "phase_timings", "admission_events",
             "cache_events", "cache_states", "slack_events"}
NoResult == [status |-> "none", full |-> {}, errors |-> {}]

Init ==
  /\ config \in {WithSections(c) : c \in Configs}
  /\ source = 0
  /\ pc = [p \in Process |-> "idle"] /\ loaded = [p \in Process |-> 0]
  /\ result = [p \in Process |-> NoResult]
  /\ engine = [p \in Process |-> FALSE]
  /\ disk = << >> /\ before = [p \in Process |-> Process] /\ faults = 0

Goto(p, place) == pc' = [pc EXCEPT ![p] = place]
Ended(p) == pc[p] \in {"refused", "killed", "exit 0", "exit 1"}
Fault == faults < MaxFaults /\ faults' = faults + 1

---------------------------------------------------------------------------
(* The files of a run.                                                     *)

Included(a) ==
  CASE a \in {"requests", "steps", "summary"} -> TRUE
    [] a = "phase_timings" -> config.profiling.cuda_events
    [] a = "admission_events" -> config.admission.policy # "disabled"
    [] a \in {"cache_events", "cache_states"} -> config.admission.observe_prefix_cache
    [] a = "slack_events" -> config.admission.policy = "slack_aware_prefix_fifo"

Sometimes(a) == IF Included(a) THEN <<a>> ELSE << >>

(* Mutant: the summary is written first.                                   *)
FilesSummaryFirst ==
  <<"summary", "requests", "steps">> \o Sometimes("phase_timings")
    \o Sometimes("admission_events") \o Sometimes("cache_events")
    \o Sometimes("cache_states") \o Sometimes("slack_events")

(* The order in which main writes them.                                    *)
Files ==
  <<"requests", "steps">> \o Sometimes("phase_timings")
    \o Sometimes("admission_events") \o Sometimes("cache_events")
    \o Sometimes("cache_states") \o Sometimes("slack_events") \o <<"summary">>

(* Mutant: nothing is looked up.                                           *)
ExistingNever == FALSE

(* resolve_output_paths: FileExistsError.                                  *)
Existing == \E a \in DOMAIN disk \ {"traces"} : Included(a)

(* build_pytorch_profiler: a directory with traces is not used again.      *)
TracesExist == config.profiling.enabled /\ "traces" \in DOMAIN disk

Put(a, content) == disk' = [f \in DOMAIN disk \union {a} |-> IF f = a THEN content ELSE disk[f]]

---------------------------------------------------------------------------
(* Before CUDA work.                                                       *)

Launch(p) ==
  /\ pc[p] = "idle" /\ Goto(p, "load")
  /\ loaded' = [loaded EXCEPT ![p] = source]
  /\ UNCHANGED <<config, source, result, engine, disk, before, faults>>

(* load_config, which looks at the output paths too.                       *)
Load(p) ==
  /\ pc[p] = "load"
  /\ Goto(p, IF LoadConfigAccepts(config) /\ ~ Existing THEN "verify" ELSE "refused")
  /\ UNCHANGED <<config, source, loaded, result, engine, disk, before, faults>>

(* verify_source_snapshot                                                  *)
SnapshotVerified == source = 0

Verify(p) ==
  /\ pc[p] = "verify"
  /\ Goto(p, IF SnapshotVerified /\ TraceAccepted(Loaded(config), Specs)
             THEN "resolve" ELSE "refused")
  /\ UNCHANGED <<config, source, loaded, result, engine, disk, before, faults>>

Resolve(p) ==
  /\ pc[p] = "resolve"
  /\ IF Existing \/ TracesExist
     THEN Goto(p, "refused") /\ UNCHANGED before
     ELSE Goto(p, "start") /\ before' = [before EXCEPT ![p] = {q \in Process : Ended(q)}]
  /\ UNCHANGED <<config, source, loaded, result, engine, disk, faults>>

---------------------------------------------------------------------------
(* The engine and the loop.                                                *)

(* Mutant: a result keeps its status when something fails later.           *)
FailedQuietly(r, error) == [r EXCEPT !.errors = @ \union {error}]

(* Mutant: the admission events are dropped as well.                       *)
FailedWithoutAdmission(r, error) ==
  [status |-> "failed", full |-> r.full \intersect {"requests", "steps", "phase_timings"},
   errors |-> r.errors \union {error}]

(* fail_result: cache and slack events are not handed on.                  *)
Failed(r, error) ==
  [status |-> "failed",
   full |-> r.full \intersect {"requests", "steps", "phase_timings", "admission_events"},
   errors |-> r.errors \union {error}]

(* startup_failure_result: all records are cancelled, nothing was seen.    *)
StartupFailure(error) == [status |-> "failed", full |-> {"requests"}, errors |-> {error}]

(* verify_model_files, LLM, the warmup, reset_pressure_observability.      *)
Start(p) ==
  /\ pc[p] = "start"
  /\ \/ /\ ConfigAccepts(Loaded(config).engine)
        /\ engine' = [engine EXCEPT ![p] = TRUE]
        /\ Goto(p, "serve") /\ UNCHANGED <<result, faults>>
     \/ /\ IF ConfigAccepts(Loaded(config).engine)
           THEN /\ Fault /\ engine' \in {[engine EXCEPT ![p] = b] : b \in BOOLEAN}
                /\ result' = [result EXCEPT ![p] = StartupFailure("startup")]
           ELSE /\ UNCHANGED <<engine, faults>>
                /\ result' = [result EXCEPT ![p] = StartupFailure("config")]
        /\ Goto(p, "cleanup")
  /\ UNCHANGED <<config, source, loaded, disk, before>>

(* run_open_loop returns, with an error of its own or without; when the    *)
(* profiler raises after it, its result is lost.                           *)
Serve(p) ==
  /\ pc[p] = "serve" /\ Goto(p, "cleanup")
  /\ \/ /\ result' = [result EXCEPT ![p] =
                        [status |-> "passed", full |-> Evidence, errors |-> {}]]
        /\ UNCHANGED faults
     \/ /\ result' = [result EXCEPT ![p] =
                        [status |-> "failed", full |-> Evidence, errors |-> {"loop"}]]
        /\ Fault
     \/ /\ config.profiling.enabled /\ Fault
        /\ result' = [result EXCEPT ![p] = StartupFailure("profiler")]
  /\ IF config.profiling.enabled THEN Put("traces", [run |-> p]) ELSE UNCHANGED disk
  /\ UNCHANGED <<config, source, loaded, engine, before>>

(* An error of the memory snapshot is kept for later.                      *)
Noted(r, unread) == [r EXCEPT !.errors = @ \union unread]

(* finally: the memory snapshot and llm.exit.                              *)
Cleanup(p) ==
  /\ pc[p] = "cleanup" /\ Goto(p, "collect")
  /\ \/ UNCHANGED <<result, faults>>
     \/ /\ engine[p] /\ Fault
        /\ \E unread \in SUBSET {"gpu_memory"}, exits \in BOOLEAN :
             result' = [result EXCEPT ![p] =
               IF exits THEN Noted(@, unread) ELSE Failed(Noted(@, unread), "cleanup")]
  /\ UNCHANGED <<config, source, loaded, engine, disk, before>>

(* Without an engine the summary of a pressure policy is missing.          *)
SummaryMissing(p) ==
  ~ engine[p] /\ Loaded(config).engine.scheduler_policy \in PressurePolicies

(* The pressure summary; an error of the memory snapshot counts here.      *)
Collect(p) ==
  /\ pc[p] = "collect" /\ Goto(p, "write")
  /\ \/ /\ SummaryMissing(p) \/ "gpu_memory" \in result[p].errors
        /\ result' = [result EXCEPT ![p] = Failed(@, "collection")]
        /\ UNCHANGED faults
     \/ /\ ~ SummaryMissing(p) /\ "gpu_memory" \notin result[p].errors
        /\ UNCHANGED <<result, faults>>
     \/ /\ engine[p] /\ Fault
        /\ result' = [result EXCEPT ![p] = Failed(@, "collection")]
  /\ UNCHANGED <<config, source, loaded, engine, disk, before>>

---------------------------------------------------------------------------
(* write_json(l)_atomic: a temporary file is filled and replaces the file, *)
(* which is there completely or not at all.                                *)

Summary(p) ==
  [run |-> p, status |-> result[p].status, code |-> source,
   sha |-> [a \in (Range(Files) \intersect DOMAIN disk) \ {"summary"} |-> disk[a]]]

Contents(p, a) ==
  IF a = "summary" THEN Summary(p) ELSE [run |-> p, full |-> a \in result[p].full]

Write(p) ==
  /\ pc[p] \in {"write"} \union Range(Files)
  /\ LET i == IF pc[p] = "write" THEN 1
              ELSE 1 + CHOOSE n \in DOMAIN Files : Files[n] = pc[p]
     IN  /\ i <= Len(Files)
         /\ Put(Files[i], Contents(p, Files[i]))
         /\ Goto(p, Files[i])
  /\ UNCHANGED <<config, source, loaded, result, engine, before, faults>>

Exit(p) ==
  /\ pc[p] = Files[Len(Files)]
  /\ Goto(p, IF result[p].status = "passed" THEN "exit 0" ELSE "exit 1")
  /\ UNCHANGED <<config, source, loaded, result, engine, disk, before, faults>>

---------------------------------------------------------------------------

(* The process is killed, or interrupted from the keyboard: main's finally *)
(* then finds no result and raises.  The same holds when a write fails, or  *)
(* git before the summary.                                                 *)
Kill(p) ==
  /\ pc[p] # "idle" /\ ~ Ended(p) /\ Goto(p, "killed")
  /\ UNCHANGED <<config, source, loaded, result, engine, disk, before, faults>>

Edit ==
  /\ source < MaxEdits /\ source' = source + 1
  /\ UNCHANGED <<config, pc, loaded, result, engine, disk, before, faults>>

Main(p) ==
  \/ Load(p) \/ Verify(p) \/ Resolve(p) \/ Start(p) \/ Serve(p) \/ Cleanup(p)
  \/ Collect(p) \/ Write(p) \/ Exit(p)

Over == (\A p \in Process : Ended(p)) /\ UNCHANGED vars

Next == (\E p \in Process : Launch(p) \/ Main(p) \/ Kill(p)) \/ Edit \/ Over

Spec == Init /\ [][Next]_vars /\ \A p \in Process : WF_vars(Main(p))

---------------------------------------------------------------------------
(* Properties.                                                             *)

(* validate_run_artifacts: a summary that passed, of the frozen code, whose *)
(* hashes are those of the files.                                          *)
Accepted ==
  /\ "summary" \in DOMAIN disk
  /\ disk["summary"].status = "passed" /\ disk["summary"].code = 0
  /\ \A a \in DOMAIN disk["summary"].sha : disk[a] = disk["summary"].sha[a]

(* Two processes were past the check of the directory at the same time.    *)
Overlap(p) == \E q \in Process \ {p} : p \notin before[q] /\ q \notin before[p]

(* The summary is the mark of a run that is complete: whenever it is on    *)
(* disk, every artifact it speaks of is, whatever was killed on the way.   *)
SummaryLast ==
  "summary" \in DOMAIN disk => Range(Files) \subseteq DOMAIN disk

(* resolve_output_paths: no run replaces a file of a run that was over     *)
(* when it started, be it finished, failed or killed.                      *)
NoOverwrite ==
  [][\A a \in DOMAIN disk :
       disk'[a] # disk[a] => disk[a].run \notin before[disk'[a].run]]_vars

(* A run that is accepted, or that exits with 0, met no error in any of    *)
(* its steps, ran the frozen code, and left all of its own evidence.  Two  *)
(* runs that passed the check of the directory side by side are excepted:  *)
(* they mix their files, and the hashes agree all the same.                *)
PassedWhole ==
  /\ Accepted =>
       LET p == disk["summary"].run
       IN  ~ Overlap(p) =>
             /\ result[p].errors = {} /\ loaded[p] = 0
             /\ \A a \in Range(Files) \ {"summary"} : disk[a] = [run |-> p, full |-> TRUE]
  /\ \A p \in Process :
       pc[p] = "exit 0" /\ ~ Overlap(p) =>
         disk["summary"].run = p /\ disk["summary"].status = "passed"

(* An error after the loop does not take the evidence of the loop along:   *)
(* records, steps, timings and admission events reach the disk.            *)
EvidenceKept ==
  \A a \in DOMAIN disk \intersect {"requests", "steps", "phase_timings", "admission_events"} :
    disk[a].full \/ result[disk[a].run].errors
                       \intersect {"startup", "config", "profiler"} # {}

(* A configuration that load_config accepts starts an engine, but for what *)
(* only Config looks at; such a run ends in artifacts of cancelled         *)
(* requests instead of a refusal.                                          *)
ValidatorsAgree ==
  \A p \in Process :
    "config" \in result[p].errors => OnlyConfigRefuses(Loaded(config).engine)
=============================================================================
