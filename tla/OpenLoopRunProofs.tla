-------------------------- MODULE OpenLoopRunProofs --------------------------
(***************************************************************************)
(* The artifacts of open-loop runs, for every number of processes, every   *)
(* configuration and trace, and any number of faults and edits: a summary  *)
(* marks a complete run, no run replaces what an earlier one left, and an  *)
(* accepted run is whole.                                                  *)
(***************************************************************************)
EXTENDS OpenLoopRun, SequenceTheorems, TLAPS

---------------------------------------------------------------------------
(* The two validators.                                                     *)

Switches == {"scheduler_policy", "cuda_event_timing", "incremental_kv_allocation"}
Numeric(e) == \A f \in DOMAIN e \ Switches : e[f] \in Int

Setdefault(c) ==
  [scheduler_policy |-> "prefill_first", decode_token_budget |-> 0,
   decode_step_guard |-> 0, cuda_event_timing |-> c.profiling.cuda_events]

(* What load_config hands on: the keys given, and four more.               *)
LEMMA LoadedFacts ==
  ASSUME NEW c, "engine" \in DOMAIN c, Numeric(c.engine),
         NEW e, e = Loaded(c).engine
  PROVE  /\ DOMAIN e = DOMAIN c.engine \union {"scheduler_policy", "decode_token_budget",
                                               "decode_step_guard", "cuda_event_timing"}
         /\ \A f \in DOMAIN c.engine : e[f] = c.engine[f]
         /\ Numeric(e)
<1> DEFINE g == c.engine
           d == Setdefault(c)
<1>1. e = Completed(g, d)
  BY DEF Loaded, Setdefault
<1>2. /\ DOMAIN d = {"scheduler_policy", "decode_token_budget",
                     "decode_step_guard", "cuda_event_timing"}
      /\ d.decode_token_budget = 0 /\ d.decode_step_guard = 0
  BY DEF Setdefault
<1> HIDE DEF d, g
<1>3. DOMAIN e = DOMAIN g \union DOMAIN d
      /\ \A f \in DOMAIN e : e[f] = IF f \in DOMAIN g THEN g[f] ELSE d[f]
  BY <1>1 DEF Completed, Given
<1>4. Numeric(e)
  BY <1>2, <1>3 DEF Numeric, Switches, g
<1> QED BY <1>2, <1>3, <1>4 DEF g

(* The fields of Config: those given, the others by default.               *)
LEMMA DefaultFacts ==
  ASSUME NEW e, NEW E, E = Completed(e, Default)
  PROVE  /\ \A f \in DOMAIN e : E[f] = e[f]
         /\ \A f \in DOMAIN Default : f \notin DOMAIN e => E[f] = Default[f]
BY DEF Completed, Given

LEMMA PoolSizeAgrees ==
  ASSUME NEW e, SizesAccepted(e), RequiredKeys \subseteq DOMAIN e,
         NEW E, E = Completed(e, Default)
  PROVE  /\ E.tensor_parallel_size \in 1..8
         /\ E.num_kvcache_blocks = -1 \/ E.num_kvcache_blocks > 0
<1>1. "tensor_parallel_size" \in DOMAIN e /\ e.tensor_parallel_size = 1
  BY DEF SizesAccepted, RequiredKeys
<1>2. E.tensor_parallel_size = 1
  BY <1>1, DefaultFacts
<1>3. E.num_kvcache_blocks = -1 \/ E.num_kvcache_blocks > 0
  <2>1. CASE "num_kvcache_blocks" \in DOMAIN e
    BY <2>1, DefaultFacts DEF SizesAccepted
  <2>2. CASE "num_kvcache_blocks" \notin DOMAIN e
    <3>1. "num_kvcache_blocks" \in DOMAIN Default
      BY DEF Default
    <3>2. Default["num_kvcache_blocks"] = -1
      BY DEF Default
    <3>3. E["num_kvcache_blocks"] = Default["num_kvcache_blocks"]
      BY <2>2, <3>1, DefaultFacts
    <3> QED BY <3>2, <3>3
  <2> QED BY <2>1, <2>2
<1> QED BY <1>2, <1>3

(* What only Config looks at.                                              *)
MixedRoom(E) ==
  ~ (E.scheduler_policy = "mixed_slo_budget"
       /\ E.mixed_min_prefill_tokens >= E.max_num_batched_tokens)

LEMMA NothingOnlyConfig ==
  ASSUME NEW e, ~ OnlyConfigRefuses(e), NEW E, E = Completed(e, Default)
  PROVE  BlockSizeValid(E) /\ PortValid(E) /\ MixedRoom(E)
BY DEF OnlyConfigRefuses, MixedRoom

LEMMA SizesAgree ==
  ASSUME NEW e, SizesAccepted(e), RequiredKeys \subseteq DOMAIN e,
         NEW E, E = Completed(e, Default), BlockSizeValid(E), PortValid(E)
  PROVE  SizesValid(E)
<1>1. /\ E.tensor_parallel_size \in 1..8
      /\ E.num_kvcache_blocks = -1 \/ E.num_kvcache_blocks > 0
  BY PoolSizeAgrees
<1> QED BY <1>1 DEF SizesValid

LEMMA PressureAgrees ==
  ASSUME NEW e, Numeric(e), PressureAccepted(e), e.scheduler_policy \in PressurePolicies,
         "decode_token_budget" \in DOMAIN e,
         NEW E, E = Completed(e, Default)
  PROVE  PressureFieldsValid(E)
<1>1. PressureKeys \subseteq DOMAIN e /\ PressureFieldsAccepted(e)
  BY DEF PressureAccepted
<1>2. \A f \in PressureKeys \union {"decode_token_budget"} : E[f] = e[f] /\ e[f] \in Int
  <2>1. (PressureKeys \union {"decode_token_budget"}) \intersect Switches = {}
    BY DEF PressureKeys, PressureCounts, Switches
  <2> QED BY <2>1, <1>1, DefaultFacts DEF Numeric
<1>3. \A f \in {"pressure_decode_token_budget", "pressure_decode_step_guard",
                "pressure_high_utilization", "pressure_critical_utilization"} :
        f \in PressureKeys
  BY DEF PressureKeys
<1>4. \A f \in PressureCounts : f \in PressureKeys
  BY DEF PressureKeys
<1>5. AllPositive(E, PressureCounts)
  BY <1>1, <1>2, <1>4 DEF AllPositive, PressureFieldsAccepted
<1>6. /\ e.pressure_decode_token_budget \in 1..e.decode_token_budget
      /\ e.pressure_decode_step_guard >= 0
      /\ e.pressure_high_utilization \in 1..99
      /\ e.pressure_critical_utilization \in e.pressure_high_utilization..100
  BY <1>1 DEF PressureFieldsAccepted
<1>7. /\ E.pressure_decode_token_budget = e.pressure_decode_token_budget
      /\ E.decode_token_budget = e.decode_token_budget /\ e.decode_token_budget \in Int
      /\ E.pressure_decode_step_guard = e.pressure_decode_step_guard
      /\ E.pressure_high_utilization = e.pressure_high_utilization
      /\ E.pressure_critical_utilization = e.pressure_critical_utilization
  BY <1>2, <1>3
<1>8. /\ E.pressure_decode_token_budget > 0
      /\ E.pressure_decode_token_budget <= E.decode_token_budget
  BY <1>6, <1>7
<1>9. /\ E.pressure_high_utilization \in 1..99
      /\ E.pressure_critical_utilization \in 1..100
      /\ E.pressure_high_utilization <= E.pressure_critical_utilization
  BY <1>6, <1>7
<1> QED BY <1>5, <1>6, <1>7, <1>8, <1>9 DEF PressureFieldsValid

LEMMA DeadlinesAgree ==
  ASSUME NEW e, Numeric(e), NEW slo, DeadlinesAccepted(e, slo), "scheduler_policy" \in DOMAIN e,
         "max_num_batched_tokens" \in DOMAIN e,
         NEW E, E = Completed(e, Default),
         MixedRoom(E)
  PROVE  DeadlinesValid(E)
<1>1. E.scheduler_policy = e.scheduler_policy
  BY DefaultFacts
<1>2. CASE e.scheduler_policy = "mixed_slo_budget"
  <2>1. MixedKeys \subseteq DOMAIN e /\ AllPositive(e, MixedKeys)
    BY <1>2 DEF DeadlinesAccepted
  <2>2. AllPositive(E, MixedKeys)
    BY <2>1, DefaultFacts DEF AllPositive
  <2>3. "mixed_min_prefill_tokens" \in DOMAIN e
    BY <2>1 DEF MixedKeys
  <2>4. E.mixed_min_prefill_tokens \in Int /\ E.max_num_batched_tokens \in Int
    BY <2>3, DefaultFacts DEF Numeric, Switches
  <2>5. E.mixed_min_prefill_tokens < E.max_num_batched_tokens
    BY <1>1, <1>2, <2>4 DEF MixedRoom
  <2> QED BY <1>1, <1>2, <2>2, <2>5 DEF DeadlinesValid
<1>3. CASE e.scheduler_policy = "recompute_aware_bounded"
  <2>1. BoundedKeys \subseteq DOMAIN e /\ AllPositive(e, BoundedKeys)
    BY <1>3 DEF DeadlinesAccepted
  <2>2. AllPositive(E, BoundedKeys)
    BY <2>1, DefaultFacts DEF AllPositive
  <2> QED BY <1>1, <1>3, <2>2 DEF DeadlinesValid
<1>4. CASE e.scheduler_policy \notin {"mixed_slo_budget", "recompute_aware_bounded"}
  <2>1. BoundedKeys \intersect DOMAIN e = {}
    BY <1>4 DEF DeadlinesAccepted
  <2>2. \A f \in BoundedKeys : f \in DOMAIN Default /\ Default[f] = 0
    BY DEF BoundedKeys, DeadlineKeys, Default
  <2>3. \A f \in BoundedKeys : E[f] = 0
    BY <2>1, <2>2, DefaultFacts
  <2> QED BY <1>1, <1>4, <2>3 DEF DeadlinesValid
<1> QED BY <1>2, <1>3, <1>4

LEMMA ChunkAgrees ==
  ASSUME NEW e, ChunkAccepted(e), "scheduler_policy" \in DOMAIN e,
         "max_num_batched_tokens" \in DOMAIN e,
         NEW E, E = Completed(e, Default)
  PROVE  ChunkValid(E)
<1>1. E.scheduler_policy = e.scheduler_policy
      /\ E.max_num_batched_tokens = e.max_num_batched_tokens
  BY DefaultFacts
<1>2. CASE e.scheduler_policy = "chunked_prefill_budgeted"
  BY <1>1, <1>2, DefaultFacts DEF ChunkAccepted, ChunkValid
<1>3. CASE e.scheduler_policy # "chunked_prefill_budgeted"
  <2>1. "prefill_chunk_token_budget" \notin DOMAIN e
    BY <1>3 DEF ChunkAccepted
  <2>2. "prefill_chunk_token_budget" \in DOMAIN Default
        /\ Default["prefill_chunk_token_budget"] = 0
    BY DEF Default
  <2>3. E.prefill_chunk_token_budget = 0
    BY <2>1, <2>2, DefaultFacts
  <2> QED BY <1>1, <1>3, <2>3 DEF ChunkValid
<1> QED BY <1>2, <1>3

(* What load_config accepts and Config refuses is one of the three things  *)
(* only Config looks at.                                                   *)
LEMMA ValidatorsDiffer ==
  ASSUME NEW c, "engine" \in DOMAIN c, Numeric(c.engine), LoadConfigAccepts(c),
         ~ ConfigAccepts(Loaded(c).engine)
  PROVE  OnlyConfigRefuses(Loaded(c).engine)
<1> DEFINE e == Loaded(c).engine
           E == Completed(e, Default)
<1>1. /\ DOMAIN e = DOMAIN c.engine \union {"scheduler_policy", "decode_token_budget",
                                            "decode_step_guard", "cuda_event_timing"}
      /\ Numeric(e)
  BY LoadedFacts
<1>2. /\ RequiredKeys \subseteq DOMAIN c.engine
      /\ SizesAccepted(e) /\ BudgetsAccepted(e) /\ PressureAccepted(e)
      /\ ChunkAccepted(e) /\ DeadlinesAccepted(e, c.slo)
  BY DEF LoadConfigAccepts, KeysAccepted
<1> HIDE DEF e
<1>3. RequiredKeys \subseteq DOMAIN e /\ "max_num_batched_tokens" \in DOMAIN e
  BY <1>1, <1>2 DEF RequiredKeys
<1>4. \A f \in DOMAIN e : E[f] = e[f]
  BY DefaultFacts
<1> HIDE DEF E
<1> SUFFICES ASSUME ~ OnlyConfigRefuses(e) PROVE ConfigAccepts(e)
  BY DEF e
<1>0. E = Completed(e, Default)
  BY DEF E
<1>5. BlockSizeValid(E) /\ PortValid(E) /\ MixedRoom(E)
  BY <1>0, NothingOnlyConfig
<1>6. SizesValid(E)
  BY <1>1, <1>2, <1>3, <1>5, <1>0, SizesAgree
<1>7. BudgetsValid(E)
  <2>1. /\ E.scheduler_policy = e.scheduler_policy
        /\ E.decode_token_budget = e.decode_token_budget
        /\ E.decode_step_guard = e.decode_step_guard
    BY <1>1, <1>4
  <2> QED BY <2>1, <1>2 DEF BudgetsAccepted, BudgetsValid
<1>8. E.scheduler_policy \in PressurePolicies => PressureFieldsValid(E)
  <2>1. E.scheduler_policy = e.scheduler_policy BY <1>1, <1>4
  <2> QED BY <2>1, <1>1, <1>2, <1>0, PressureAgrees
<1>9. DeadlinesValid(E)
  BY <1>1, <1>2, <1>3, <1>5, <1>0, DeadlinesAgree
<1>10. ChunkValid(E)
  BY <1>1, <1>2, <1>3, <1>0, ChunkAgrees
<1> QED BY <1>6, <1>7, <1>8, <1>9, <1>10, <1>0 DEF ConfigAccepts

---------------------------------------------------------------------------
(* The inductive invariant.                                                *)

Outcomes == {"refused", "killed", "exit 0", "exit 1"}
Early == {"idle", "load", "verify", "resolve", "refused"}
Working == {"start", "serve", "cleanup", "collect", "write"}
Kept == {"requests", "steps", "phase_timings", "admission_events"}
Error == {"startup", "config", "loop", "profiler", "gpu_memory", "cleanup", "collection"}

(* p has found the directory free; p has written a file of its own.        *)
Past(p) == p \notin before[p]
Writing(p) == pc[p] \in Range(Files) \union {"exit 0", "exit 1"}

Types ==
  /\ source \in Nat
  /\ pc \in [Process -> Early \union Working \union Outcomes \union Range(Files)]
  /\ loaded \in [Process -> Nat] /\ \A p \in Process : loaded[p] <= source
  /\ result \in [Process -> [status : {"none", "passed", "failed"},
                             full : SUBSET Evidence, errors : SUBSET Error]]
  /\ engine \in [Process -> BOOLEAN]
  /\ before \in [Process -> SUBSET Process]
  /\ DOMAIN disk \subseteq Range(Files) \union {"traces"}
  /\ \A a \in DOMAIN disk : disk[a].run \in Process /\ Past(disk[a].run)
  /\ "traces" \in DOMAIN disk => config.profiling.enabled

(* A process is past the check of the directory exactly from start on, has *)
(* then imported the frozen code, and has a configuration that was loaded. *)
Passage ==
  \A p \in Process :
    /\ Past(p) => pc[p] \notin Early
    /\ pc[p] \in Working \/ Writing(p) => Past(p)
    /\ Past(p) \/ pc[p] = "resolve" => loaded[p] = 0
    /\ pc[p] \in {"verify", "resolve", "start"} => LoadConfigAccepts(config)
    /\ "config" \in result[p].errors =>
         LoadConfigAccepts(config) /\ ~ ConfigAccepts(Loaded(config).engine)

(* Of the runs that were over before p no file is left, now or later.      *)
Succession ==
  \A p \in Process : Past(p) =>
    /\ \A q \in before[p] : Ended(q) /\ ~ Writing(q)
    /\ \A a \in DOMAIN disk : disk[a].run \notin before[p]

(* A run writes its files in their order.                                  *)
InOrder ==
  /\ \A p \in Process, n \in 1..Len(Files) :
       pc[p] = Files[n] => \A m \in 1..n : Files[m] \in DOMAIN disk
  /\ \A p \in Process : pc[p] \in {"exit 0", "exit 1"} => "summary" \in DOMAIN disk
  /\ "summary" \in DOMAIN disk => Range(Files) \subseteq DOMAIN disk

(* What a result says of the run.                                          *)
Whole(r) == r.status = "passed" => r.errors = {} /\ r.full = Evidence
WholeButMemory(r) ==
  r.status = "passed" => r.errors \subseteq {"gpu_memory"} /\ r.full = Evidence
KeepsEvidence(r) ==
  Kept \subseteq r.full \/ r.errors \intersect {"startup", "config", "profiler"} # {}

Results ==
  \A p \in Process :
    /\ pc[p] \in {"cleanup", "collect", "write"} \/ Writing(p) => KeepsEvidence(result[p])
    /\ pc[p] \in {"cleanup", "write"} \/ Writing(p) => Whole(result[p])
    /\ pc[p] = "collect" => WholeButMemory(result[p])
    /\ pc[p] = "exit 0" => result[p].status = "passed"

(* What is on disk of a run is what its result, now final, says.           *)
Reported ==
  \A a \in DOMAIN disk \ {"traces"} :
    LET r == disk[a].run
    IN  /\ Writing(r) \/ pc[r] = "killed"
        /\ KeepsEvidence(result[r]) /\ Whole(result[r])
        /\ IF a = "summary" THEN disk[a].status = result[r].status
           ELSE disk[a] = [run |-> r, full |-> a \in result[r].full]

RunInv ==
  /\ config \in {WithSections(c) : c \in Configs}
  /\ Types /\ Passage /\ Succession /\ InOrder /\ Results /\ Reported


---------------------------------------------------------------------------
(* The files of a run: each once, all included, the summary last.          *)

Distinct(q) == \A m, n \in 1..Len(q) : q[m] = q[n] => m = n
Listing(q, S) == q \in Seq(S) /\ Distinct(q) /\ \A n \in 1..Len(q) : Included(q[n])

LEMMA ListingConcat ==
  ASSUME NEW S, NEW T, S \intersect T = {}, NEW q, NEW r, Listing(q, S), Listing(r, T)
  PROVE  Listing(q \o r, S \union T)
<1> DEFINE c == q \o r
<1>1. /\ q \in Seq(S) /\ r \in Seq(T) /\ Distinct(q) /\ Distinct(r)
      /\ \A n \in 1..Len(q) : Included(q[n])
      /\ \A n \in 1..Len(r) : Included(r[n])
  BY DEF Listing
<1>2. /\ \A n \in 1..Len(q) : q[n] \in S
      /\ \A n \in 1..Len(r) : r[n] \in T
  BY <1>1
<1>3. c \in Seq(S \union T) /\ Len(c) = Len(q) + Len(r)
      /\ \A n \in 1..Len(c) : c[n] = IF n <= Len(q) THEN q[n] ELSE r[n - Len(q)]
  BY <1>1
<1>4. Len(q) \in Nat /\ Len(r) \in Nat
  BY <1>1
<1> HIDE DEF c
<1>5. ASSUME NEW n \in 1..Len(c)
      PROVE  \/ n \in 1..Len(q) /\ c[n] = q[n]
             \/ n - Len(q) \in 1..Len(r) /\ c[n] = r[n - Len(q)]
  BY <1>3, <1>4
<1>6. Distinct(c)
  <2> SUFFICES ASSUME NEW m \in 1..Len(c), NEW n \in 1..Len(c), c[m] = c[n]
               PROVE  m = n
    BY DEF Distinct
  <2>1. CASE m \in 1..Len(q) /\ c[m] = q[m] /\ n \in 1..Len(q) /\ c[n] = q[n]
    BY <2>1, <1>1 DEF Distinct
  <2>2. CASE /\ m - Len(q) \in 1..Len(r) /\ c[m] = r[m - Len(q)]
             /\ n - Len(q) \in 1..Len(r) /\ c[n] = r[n - Len(q)]
    <3>1. m - Len(q) = n - Len(q)
      BY <2>2, <1>1 DEF Distinct
    <3> QED BY <3>1, <1>3, <1>4
  <2>3. CASE m \in 1..Len(q) /\ c[m] = q[m] /\ n - Len(q) \in 1..Len(r) /\ c[n] = r[n - Len(q)]
    BY <2>3, <1>2
  <2>4. CASE n \in 1..Len(q) /\ c[n] = q[n] /\ m - Len(q) \in 1..Len(r) /\ c[m] = r[m - Len(q)]
    BY <2>4, <1>2
  <2> QED BY <2>1, <2>2, <2>3, <2>4, <1>5
<1>7. \A n \in 1..Len(c) : Included(c[n])
  BY <1>5, <1>1
<1>8. Listing(c, S \union T)
  BY <1>3, <1>6, <1>7 DEF Listing
<1> QED BY <1>8 DEF c

LEMMA ListingSometimes ==
  ASSUME NEW a
  PROVE  Listing(Sometimes(a), {a})
<1>1. CASE Included(a)
  <2>1. Sometimes(a) = <<a>>
    BY <1>1 DEF Sometimes
  <2>2. <<a>> \in Seq({a}) /\ Len(<<a>>) = 1 /\ <<a>>[1] = a
    OBVIOUS
  <2>3. Distinct(<<a>>)
    BY <2>2 DEF Distinct
  <2> QED BY <1>1, <2>1, <2>2, <2>3 DEF Listing
<1>2. CASE ~ Included(a)
  <2>1. Sometimes(a) = << >>
    BY <1>2 DEF Sometimes
  <2> QED BY <2>1 DEF Listing, Distinct
<1> QED BY <1>1, <1>2

LEMMA ListingOne ==
  ASSUME NEW a, Included(a)
  PROVE  Listing(<<a>>, {a})
BY ListingSometimes DEF Sometimes

LEMMA FilesListing == Listing(Files, Evidence \union {"summary"}) /\ Files[Len(Files)] = "summary"
<1> DEFINE f1 == <<"requests">> \o <<"steps">>
           f2 == f1 \o Sometimes("phase_timings")
           f3 == f2 \o Sometimes("admission_events")
           f4 == f3 \o Sometimes("cache_events")
           f5 == f4 \o Sometimes("cache_states")
           f6 == f5 \o Sometimes("slack_events")
           f7 == f6 \o <<"summary">>
<1>1. Included("requests") /\ Included("steps") /\ Included("summary")
  BY DEF Included
<1>2. Listing(f1, {"requests"} \union {"steps"})
  BY <1>1, ListingOne, ListingConcat
<1>3. Files = f7
  <2>1. <<"requests", "steps">> = f1
    OBVIOUS
  <2> QED BY <2>1 DEF Files
<1> HIDE DEF f1
<1>4. Listing(f2, {"requests", "steps", "phase_timings"})
  <2>1. Listing(f2, ({"requests"} \union {"steps"}) \union {"phase_timings"})
    BY <1>2, ListingSometimes, ListingConcat
  <2>2. ({"requests"} \union {"steps"}) \union {"phase_timings"}
          = {"requests", "steps", "phase_timings"}
    OBVIOUS
  <2> QED BY <2>1, <2>2, Zenon
<1> HIDE DEF f2
<1>5. Listing(f3, {"requests", "steps", "phase_timings"} \union {"admission_events"})
  BY <1>4, ListingSometimes, ListingConcat
<1> HIDE DEF f3
<1>6. Listing(f4, ({"requests", "steps", "phase_timings"} \union {"admission_events"})
                    \union {"cache_events"})
  BY <1>5, ListingSometimes, ListingConcat
<1> HIDE DEF f4
<1>7. Listing(f5, (({"requests", "steps", "phase_timings"} \union {"admission_events"})
                    \union {"cache_events"}) \union {"cache_states"})
  BY <1>6, ListingSometimes, ListingConcat
<1> HIDE DEF f5
<1>8. Listing(f6, ((({"requests", "steps", "phase_timings"} \union {"admission_events"})
                    \union {"cache_events"}) \union {"cache_states"}) \union {"slack_events"})
  BY <1>7, ListingSometimes, ListingConcat
<1>9. ((({"requests", "steps", "phase_timings"} \union {"admission_events"})
          \union {"cache_events"}) \union {"cache_states"}) \union {"slack_events"} = Evidence
  BY DEF Evidence
<1> HIDE DEF f6
<1>10. Listing(f6, Evidence)
  BY <1>8, <1>9, Zenon
<1>11. Listing(f7, Evidence \union {"summary"})
  <2>1. Evidence \intersect {"summary"} = {}
    BY DEF Evidence
  <2> QED BY <2>1, <1>10, <1>1, ListingOne, ListingConcat
<1>12. f7[Len(f7)] = "summary"
  BY <1>10 DEF Listing
<1> QED BY <1>3, <1>11, <1>12

LEMMA FilesFacts ==
  /\ Len(Files) \in Nat /\ Len(Files) >= 1 /\ Files[Len(Files)] = "summary"
  /\ Len(Files) \in 1..Len(Files) /\ DOMAIN Files = 1..Len(Files)
  /\ Range(Files) = {Files[n] : n \in 1..Len(Files)}
  /\ "summary" \in Range(Files) /\ Range(Files) \subseteq Evidence \union {"summary"}
  /\ \A m, n \in 1..Len(Files) : Files[m] = Files[n] => m = n
  /\ \A a \in Range(Files) : Included(a)
<1> DEFINE F == Files
<1>1. /\ F \in Seq(Evidence \union {"summary"}) /\ Distinct(F)
      /\ \A n \in 1..Len(F) : Included(F[n])
      /\ F[Len(F)] = "summary"
  BY FilesListing DEF Listing
<1>2. Len(F) >= 1
  <2>1. \E g : F = g \o <<"summary">> /\ g \in Seq(Evidence \union {"summary"})
    <3> DEFINE g == <<"requests", "steps">> \o Sometimes("phase_timings")
                 \o Sometimes("admission_events") \o Sometimes("cache_events")
                 \o Sometimes("cache_states") \o Sometimes("slack_events")
    <3>1. ASSUME NEW a \in Evidence
          PROVE  Sometimes(a) \in Seq(Evidence \union {"summary"})
      <4>1. <<a>> \in Seq(Evidence \union {"summary"})
        BY <3>1
      <4>2. << >> \in Seq(Evidence \union {"summary"})
        OBVIOUS
      <4> QED BY <4>1, <4>2 DEF Sometimes
    <3>2. g \in Seq(Evidence \union {"summary"})
      BY <3>1 DEF Evidence
    <3>3. F = g \o <<"summary">>
      BY DEF Files
    <3> QED BY <3>2, <3>3
  <2> QED BY <2>1
<1> HIDE DEF F
<1>3. Len(F) \in Nat /\ DOMAIN F = 1..Len(F)
  BY <1>1
<1>4. Range(F) = {F[n] : n \in 1..Len(F)}
  BY <1>3 DEF Range
<1>5. "summary" \in Range(F)
  BY <1>1, <1>2, <1>3, <1>4
<1>6. Range(F) \subseteq Evidence \union {"summary"}
  BY <1>1, <1>3, <1>4
<1>7. \A m, n \in 1..Len(F) : F[m] = F[n] => m = n
  BY <1>1 DEF Distinct
<1>8. \A a \in Range(F) : Included(a)
  BY <1>1, <1>4
<1>9. Len(F) \in 1..Len(F)
  BY <1>2, <1>3
<1> QED BY <1>9, <1>1, <1>2, <1>3, <1>4, <1>5, <1>6, <1>7, <1>8 DEF F

LEMMA FilesConstant ==
  ASSUME config' = config
  PROVE  Files' = Files
BY DEF Files, Sometimes, Included

---------------------------------------------------------------------------
(* The invariant holds initially and is kept by every action.              *)

Names == Evidence \union {"summary"}

(* Names of files are no places, and no place is two.                      *)
LEMMA NamesFacts ==
  /\ Range(Files) \subseteq Names /\ "summary" \in Range(Files)
  /\ Names \intersect (Early \union Working \union Outcomes \union {"traces"}) = {}
  /\ Early \intersect Working = {} /\ Working \intersect Outcomes = {}
  /\ Early \intersect Outcomes = {"refused"}
<1>1. Range(Files) \subseteq Names /\ "summary" \in Range(Files)
  BY FilesFacts DEF Names
<1> QED BY <1>1 DEF Names, Evidence, Early, Working, Outcomes

LEMMA InitInv == Init => RunInv
<1> SUFFICES ASSUME Init PROVE RunInv
  OBVIOUS
<1> USE DEF Init
<1>1. Types
  <2>1. result \in [Process -> [status : {"none", "passed", "failed"},
                               full : SUBSET Evidence, errors : SUBSET Error]]
    BY DEF NoResult
  <2>2. DOMAIN disk = {}
    OBVIOUS
  <2> QED BY <2>1, <2>2 DEF Types, Early
<1>2. Passage
  BY NamesFacts DEF Passage, Past, Writing, Early, Working, Outcomes, NoResult
<1>3. Succession
  BY DEF Succession, Past
<1>4. InOrder
  <2>1. ~ \E n \in 1..Len(Files) : Files[n] = "idle"
    BY NamesFacts, FilesFacts DEF Early
  <2>2. DOMAIN disk = {}
    OBVIOUS
  <2> QED BY <2>1, <2>2 DEF InOrder
<1>5. Results
  BY NamesFacts DEF Results, Writing, Early, Outcomes
<1>6. Reported
  <2>1. DOMAIN disk = {}
    OBVIOUS
  <2> QED BY <2>1 DEF Reported
<1> QED BY <1>1, <1>2, <1>3, <1>4, <1>5, <1>6 DEF RunInv

(* A step of a process before it is past the check, or its end: what is    *)
(* said of the processes that are past it, and of the disk, stays.         *)
LEMMA MoveInv ==
  ASSUME RunInv, NEW p \in Process, NEW x,
         UNCHANGED <<config, source, result, engine, disk, before>>,
         pc' = [pc EXCEPT ![p] = x],
         \/ /\ pc[p] \in Early \ {"refused"}
            /\ x \in {"load", "verify", "resolve", "refused"}
         \/ x = "killed" /\ ~ Ended(p),
         \/ loaded' = loaded
         \/ x = "load" /\ loaded' = [loaded EXCEPT ![p] = source],
         x \in {"verify", "resolve"} => LoadConfigAccepts(config),
         x = "resolve" => loaded[p] = 0
  PROVE  RunInv'
<1>1. Files' = Files
  BY FilesConstant
<1>2. /\ Types /\ Passage /\ Succession /\ InOrder /\ Results /\ Reported
      /\ config \in {WithSections(c) : c \in Configs}
  BY DEF RunInv
<1>3. /\ x \in (Early \union Outcomes) \ {"exit 0", "exit 1"}
      /\ x \notin Working /\ x \notin Range(Files) /\ x \notin {"exit 0", "exit 1", "start", "idle"}
  BY NamesFacts DEF Early, Outcomes, Working, Names
<1>4. pc[p] \in Early => ~ Past(p)
  BY <1>2 DEF Passage
<1>5. /\ pc'[p] = x /\ \A q \in Process \ {p} : pc'[q] = pc[q]
      /\ ~ Ended(p) /\ \A q \in Process : Ended(q) => (Ended(q))'
  BY <1>2 DEF Types, Ended, Early
<1>6. /\ \A q : (Past(q))' <=> Past(q)
      /\ ~ (Writing(p))' /\ \A q \in Process \ {p} : (Writing(q))' <=> Writing(q)
  BY <1>1, <1>3, <1>5 DEF Past, Writing
<1>7. Types'
  <2>1. pc' \in [Process -> (Early \union Working \union Outcomes \union Range(Files))']
    BY <1>1, <1>2, <1>3 DEF Types
  <2>2. loaded' \in [Process -> Nat] /\ \A q \in Process : loaded'[q] <= source'
    BY <1>2 DEF Types
  <2> QED BY <2>1, <2>2, <1>1, <1>2, <1>6 DEF Types
<1>8. Passage'
  <2> SUFFICES ASSUME NEW q \in Process
      PROVE  /\ (Past(q))' => pc'[q] \notin Early
             /\ pc'[q] \in Working \/ (Writing(q))' => (Past(q))'
             /\ (Past(q))' \/ pc'[q] = "resolve" => loaded'[q] = 0
             /\ pc'[q] \in {"verify", "resolve", "start"} => LoadConfigAccepts(config)'
             /\ "config" \in result'[q].errors =>
                  LoadConfigAccepts(config)' /\ ~ ConfigAccepts(Loaded(config).engine)'
    BY DEF Passage
  <2>1. LoadConfigAccepts(config)' <=> LoadConfigAccepts(config)
    BY Zenon
  <2>2. ConfigAccepts(Loaded(config).engine)' <=> ConfigAccepts(Loaded(config).engine)
    BY Zenon
  <2>3. CASE q = p
    <3>1. x \in Early => ~ Past(p)
      BY <1>4 DEF Early
    <3>2. Past(p) => loaded'[p] = 0
      <4>1. Past(p) => x # "load"
        BY <1>4 DEF Early
      <4> QED BY <4>1, <1>2 DEF Passage
    <3>3. x = "resolve" => loaded'[p] = 0
      BY <1>2
    <3> QED BY <2>3, <3>1, <3>2, <3>3, <2>1, <2>2, <1>2, <1>3, <1>5, <1>6 DEF Passage
  <2>4. CASE q # p
    <3>1. loaded'[q] = loaded[q]
      BY <2>4, <1>2 DEF Types
    <3> QED BY <2>4, <3>1, <2>1, <2>2, <1>2, <1>5, <1>6 DEF Passage
  <2> QED BY <2>3, <2>4
<1>9. Succession'
  <2>1. \A q \in Process : Past(q) =>
          \A r \in before[q] : r \in Process /\ (Ended(r))' /\ ~ (Writing(r))'
    BY <1>2, <1>5, <1>6 DEF Succession, Types
  <2> QED BY <2>1, <1>2, <1>6 DEF Succession
<1>10. InOrder'
  <2>1. \A q \in Process, n \in 1..Len(Files) :
          pc'[q] = Files[n] => \A m \in 1..n : Files[m] \in DOMAIN disk
    <3>1. \A n \in 1..Len(Files) : x # Files[n]
      BY <1>3, FilesFacts
    <3> QED BY <3>1, <1>2, <1>5 DEF InOrder
  <2>2. \A q \in Process : pc'[q] \in {"exit 0", "exit 1"} => "summary" \in DOMAIN disk
    BY <1>2, <1>3, <1>5 DEF InOrder
  <2> QED BY <1>1, <1>2, <2>1, <2>2 DEF InOrder
<1>11. Results'
  <2>1. \A q : /\ KeepsEvidence(result[q])' <=> KeepsEvidence(result[q])
               /\ Whole(result[q])' <=> Whole(result[q])
               /\ WholeButMemory(result[q])' <=> WholeButMemory(result[q])
    BY DEF KeepsEvidence, Whole, WholeButMemory
  <2>2. x \notin {"cleanup", "collect", "write"}
    BY <1>3 DEF Working
  <2> QED BY <2>1, <2>2, <1>2, <1>3, <1>5, <1>6 DEF Results
<1>12. Reported'
  <2> SUFFICES ASSUME NEW a \in DOMAIN disk \ {"traces"}, NEW r, r = disk[a].run
      PROVE  /\ (Writing(r))' \/ pc'[r] = "killed"
             /\ KeepsEvidence(result[r])' /\ Whole(result[r])'
             /\ IF a = "summary" THEN disk[a].status = result[r].status
                ELSE disk[a] = [run |-> r, full |-> a \in result[r].full]
    BY DEF Reported
  <2>1. r \in Process /\ Past(r)
    BY <1>2 DEF Types
  <2>2. r = p => x = "killed"
    BY <2>1, <1>4
  <2>3. (Writing(r))' \/ pc'[r] = "killed"
    BY <2>1, <2>2, <1>2, <1>5, <1>6 DEF Reported
  <2>4. KeepsEvidence(result[r])' /\ Whole(result[r])'
    BY <1>2 DEF Reported, KeepsEvidence, Whole
  <2>5. IF a = "summary" THEN disk[a].status = result[r].status
        ELSE disk[a] = [run |-> r, full |-> a \in result[r].full]
    BY <1>2 DEF Reported
  <2> QED BY <2>3, <2>4, <2>5
<1> QED BY <1>2, <1>7, <1>8, <1>9, <1>10, <1>11, <1>12 DEF RunInv

LEMMA BeforeStartInv ==
  ASSUME RunInv, NEW p \in Process, Launch(p) \/ Load(p) \/ Verify(p) \/ Kill(p)
  PROVE  RunInv'
<1>1. Types
  BY DEF RunInv
<1>2. CASE Launch(p)
  <2>1. pc[p] \in Early \ {"refused"} /\ pc' = [pc EXCEPT ![p] = "load"]
    BY <1>2 DEF Launch, Goto, Early
  <2> QED BY <1>2, <2>1, MoveInv DEF Launch
<1>3. CASE Load(p)
  <2>1. PICK x \in {"verify", "refused"} :
          pc' = [pc EXCEPT ![p] = x] /\ (x = "verify" => LoadConfigAccepts(config))
    BY <1>3 DEF Load, Goto
  <2>2. pc[p] \in Early \ {"refused"}
    BY <1>3 DEF Load, Early
  <2> QED BY <1>3, <2>1, <2>2, MoveInv DEF Load
<1>4. CASE Verify(p)
  <2>1. pc[p] = "verify" /\ pc[p] \in Early \ {"refused"}
    BY <1>4 DEF Verify, Early
  <2>2. LoadConfigAccepts(config)
    BY <2>1 DEF RunInv, Passage
  <2>3. PICK x \in {"resolve", "refused"} :
          pc' = [pc EXCEPT ![p] = x] /\ (x = "resolve" => source = 0)
    BY <1>4 DEF Verify, Goto, SnapshotVerified
  <2>4. x = "resolve" => loaded[p] = 0
    BY <1>1, <2>3 DEF Types
  <2> QED BY <1>4, <2>1, <2>2, <2>3, <2>4, MoveInv DEF Verify
<1>5. CASE Kill(p)
  BY <1>5, MoveInv DEF Kill, Goto
<1> QED BY <1>2, <1>3, <1>4, <1>5

(* A step of the run itself: its result changes, or is first there.        *)
LEMMA ServiceInv ==
  ASSUME RunInv, NEW p \in Process, NEW x, NEW r,
         UNCHANGED <<config, source, loaded, before>>,
         pc[p] \in {"start", "serve", "cleanup", "collect"},
         x \in {"serve", "cleanup", "collect", "write"},
         pc' = [pc EXCEPT ![p] = x],
         result' = [result EXCEPT ![p] = r],
         r \in [status : {"none", "passed", "failed"}, full : SUBSET Evidence,
                errors : SUBSET Error],
         engine' \in [Process -> BOOLEAN],
         \/ disk' = disk
         \/ config.profiling.enabled /\ Put("traces", [run |-> p]),
         x # "serve" => KeepsEvidence(r),
         x \in {"cleanup", "write"} => Whole(r),
         x = "collect" => WholeButMemory(r),
         "config" \in r.errors =>
           LoadConfigAccepts(config) /\ ~ ConfigAccepts(Loaded(config).engine)
  PROVE  RunInv'
<1>1. Files' = Files
  BY FilesConstant
<1>2. /\ Types /\ Passage /\ Succession /\ InOrder /\ Results /\ Reported
      /\ config \in {WithSections(c) : c \in Configs}
  BY DEF RunInv
<1>3. /\ pc[p] \in Working /\ x \in Working /\ x \notin {"start"}
      /\ pc[p] \notin Outcomes \union Range(Files) /\ x \notin Early \union Outcomes \union Range(Files)
  BY NamesFacts DEF Working
<1>4. Past(p)
  BY <1>2, <1>3 DEF Passage
<1>5. /\ pc'[p] = x /\ \A q \in Process \ {p} : pc'[q] = pc[q]
      /\ result'[p] = r /\ \A q \in Process \ {p} : result'[q] = result[q]
      /\ ~ Ended(p) /\ \A q \in Process : Ended(q) => (Ended(q))'
  BY <1>2, <1>3 DEF Types, Ended, Outcomes
<1>6. /\ \A q : (Past(q))' <=> Past(q)
      /\ \A q \in Process : (Writing(q))' <=> Writing(q)
      /\ ~ Writing(p)
  BY <1>1, <1>3, <1>5 DEF Past, Writing, Outcomes
<1>7. /\ DOMAIN disk' \subseteq DOMAIN disk \union {"traces"} /\ DOMAIN disk \subseteq DOMAIN disk'
      /\ \A a \in DOMAIN disk \ {"traces"} : disk'[a] = disk[a]
      /\ "traces" \in DOMAIN disk' =>
           /\ config.profiling.enabled
           /\ \/ disk'["traces"].run = p
              \/ "traces" \in DOMAIN disk /\ disk'["traces"] = disk["traces"]
  <2>1. CASE disk' = disk
    BY <2>1, <1>2 DEF Types
  <2>2. CASE config.profiling.enabled /\ Put("traces", [run |-> p])
    <3>1. /\ DOMAIN disk' = DOMAIN disk \union {"traces"}
          /\ \A a \in DOMAIN disk \ {"traces"} : disk'[a] = disk[a]
          /\ disk'["traces"] = [run |-> p]
      BY <2>2 DEF Put
    <3>2. [run |-> p].run = p
      OBVIOUS
    <3>3. disk'["traces"].run = p
      BY <3>1, <3>2, Zenon
    <3>4. DOMAIN disk \subseteq DOMAIN disk' /\ DOMAIN disk' \subseteq DOMAIN disk \union {"traces"}
      BY <3>1
    <3> QED BY <2>2, <3>1, <3>3, <3>4, Zenon
  <2> QED BY <2>1, <2>2
<1>8. Types'
  <2>1. pc' \in [Process -> (Early \union Working \union Outcomes \union Range(Files))']
    BY <1>1, <1>2, <1>3 DEF Types
  <2>2. result' \in [Process -> [status : {"none", "passed", "failed"},
                                 full : SUBSET Evidence, errors : SUBSET Error]]
    BY <1>2 DEF Types
  <2>3. DOMAIN disk' \subseteq Range(Files)' \union {"traces"}
    BY <1>1, <1>2, <1>7 DEF Types
  <2>4. ASSUME NEW a \in DOMAIN disk'
        PROVE  disk'[a].run \in Process /\ (Past(disk[a].run))'
    BY <1>2, <1>4, <1>6, <1>7 DEF Types, Past
  <2> QED BY <2>1, <2>2, <2>3, <2>4, <1>2, <1>7 DEF Types
<1>9. Passage'
  <2>1. LoadConfigAccepts(config)' <=> LoadConfigAccepts(config)
    BY Zenon
  <2>2. ConfigAccepts(Loaded(config).engine)' <=> ConfigAccepts(Loaded(config).engine)
    BY Zenon
  <2>3. x \notin {"verify", "resolve", "start"}
    OBVIOUS
  <2> SUFFICES ASSUME NEW q \in Process
      PROVE  /\ (Past(q))' => pc'[q] \notin Early
             /\ pc'[q] \in Working \/ (Writing(q))' => (Past(q))'
             /\ (Past(q))' \/ pc'[q] = "resolve" => loaded'[q] = 0
             /\ pc'[q] \in {"verify", "resolve", "start"} => LoadConfigAccepts(config)'
             /\ "config" \in result'[q].errors =>
                  LoadConfigAccepts(config)' /\ ~ ConfigAccepts(Loaded(config).engine)'
    BY DEF Passage
  <2>4. CASE q = p
    BY <2>4, <2>1, <2>2, <2>3, <1>2, <1>3, <1>4, <1>5, <1>6 DEF Passage
  <2>5. CASE q # p
    BY <2>5, <2>1, <2>2, <1>2, <1>5, <1>6 DEF Passage
  <2> QED BY <2>4, <2>5
<1>10. Succession'
  <2>1. \A q \in Process : Past(q) =>
          \A s \in before[q] : s \in Process /\ s # p /\ (Ended(s))' /\ ~ (Writing(s))'
    BY <1>2, <1>5, <1>6 DEF Succession, Types
  <2>2. \A q \in Process : Past(q) =>
          \A a \in DOMAIN disk' : disk'[a].run \notin before[q]
    BY <2>1, <1>2, <1>7 DEF Succession
  <2> QED BY <2>1, <2>2, <1>6 DEF Succession
<1>11. InOrder'
  <2>1. \A q \in Process, n \in 1..Len(Files) :
          pc'[q] = Files[n] => \A m \in 1..n : Files[m] \in DOMAIN disk'
    <3>1. \A n \in 1..Len(Files) : x # Files[n]
      BY <1>3, FilesFacts
    <3>2. \A q \in Process, n \in 1..Len(Files) :
            pc'[q] = Files[n] => \A m \in 1..n : Files[m] \in DOMAIN disk
      <4>1. \A q \in Process, n \in 1..Len(Files) : pc'[q] = Files[n] => pc[q] = Files[n]
        BY <3>1, <1>5
      <4>2. \A q \in Process, n \in 1..Len(Files) :
              pc[q] = Files[n] => \A m \in 1..n : Files[m] \in DOMAIN disk
        BY <1>2 DEF InOrder
      <4> QED BY <4>1, <4>2
    <3>3. DOMAIN disk \subseteq DOMAIN disk'
      BY <1>7
    <3> QED BY <3>2, <3>3
  <2>2. \A q \in Process : pc'[q] \in {"exit 0", "exit 1"} => "summary" \in DOMAIN disk'
    BY <1>2, <1>3, <1>5, <1>7 DEF InOrder, Outcomes
  <2>3. "summary" \in DOMAIN disk' => Range(Files) \subseteq DOMAIN disk'
    BY <1>2, <1>7 DEF InOrder
  <2> QED BY <1>1, <2>1, <2>2, <2>3 DEF InOrder
<1>12. Results'
  <2> SUFFICES ASSUME NEW q \in Process
      PROVE  /\ pc'[q] \in {"cleanup", "collect", "write"} \/ (Writing(q))'
                  => (KeepsEvidence(result[q]))'
             /\ pc'[q] \in {"cleanup", "write"} \/ (Writing(q))' => (Whole(result[q]))'
             /\ pc'[q] = "collect" => (WholeButMemory(result[q]))'
             /\ pc'[q] = "exit 0" => result'[q].status = "passed"
    BY DEF Results
  <2>1. CASE q = p
    BY <2>1, <1>3, <1>5, <1>6 DEF KeepsEvidence, Whole, WholeButMemory, Outcomes
  <2>2. CASE q # p
    BY <2>2, <1>2, <1>5, <1>6 DEF Results, KeepsEvidence, Whole, WholeButMemory
  <2> QED BY <2>1, <2>2
<1>13. Reported'
  <2> SUFFICES ASSUME NEW a \in DOMAIN disk' \ {"traces"}, NEW s, s = disk'[a].run
      PROVE  /\ (Writing(s))' \/ pc'[s] = "killed"
             /\ KeepsEvidence(result[s])' /\ Whole(result[s])'
             /\ IF a = "summary" THEN disk'[a].status = result'[s].status
                ELSE disk'[a] = [run |-> s, full |-> a \in result'[s].full]
    BY DEF Reported
  <2>1. a \in DOMAIN disk \ {"traces"} /\ disk'[a] = disk[a] /\ s = disk[a].run
    BY <1>7
  <2>2. s \in Process /\ (Writing(s) \/ pc[s] = "killed")
    BY <1>2, <2>1 DEF Types, Reported
  <2>3. s # p
    BY <2>2, <1>3, <1>6 DEF Outcomes
  <2>4. (Writing(s))' \/ pc'[s] = "killed"
    BY <2>2, <2>3, <1>5, <1>6
  <2>5. KeepsEvidence(result[s])' /\ Whole(result[s])'
    BY <1>2, <1>5, <2>1, <2>2, <2>3 DEF Reported, KeepsEvidence, Whole
  <2>6. IF a = "summary" THEN disk[a].status = result[s].status
        ELSE disk[a] = [run |-> s, full |-> a \in result[s].full]
    BY <1>2, <2>1 DEF Reported
  <2> QED BY <2>1, <2>2, <2>3, <2>4, <2>5, <2>6, <1>5
<1> QED BY <1>2, <1>8, <1>9, <1>10, <1>11, <1>12, <1>13 DEF RunInv

(* A result that fails later keeps the evidence it hands on.               *)
ResultType == [status : {"none", "passed", "failed"}, full : SUBSET Evidence,
               errors : SUBSET Error]

LEMMA FailedFacts ==
  ASSUME NEW r \in ResultType, NEW error \in Error \ {"config"}
  PROVE  /\ Failed(r, error) \in ResultType /\ Whole(Failed(r, error))
         /\ WholeButMemory(Failed(r, error))
         /\ KeepsEvidence(r) => KeepsEvidence(Failed(r, error))
         /\ "config" \in Failed(r, error).errors => "config" \in r.errors
<1> DEFINE f == Failed(r, error)
<1>1. /\ f \in ResultType /\ f.status = "failed"
      /\ f.full = r.full \intersect Kept /\ f.errors = r.errors \union {error}
  BY DEF Failed, Kept, ResultType
<1> HIDE DEF f
<1>2. Whole(f) /\ WholeButMemory(f)
  BY <1>1 DEF Whole, WholeButMemory
<1>3. KeepsEvidence(r) => KeepsEvidence(f)
  BY <1>1 DEF KeepsEvidence
<1>4. "config" \in f.errors => "config" \in r.errors
  BY <1>1
<1> QED BY <1>1, <1>2, <1>3, <1>4 DEF f

LEMMA StartupFailureFacts ==
  ASSUME NEW error \in {"startup", "config", "profiler"}
  PROVE  /\ StartupFailure(error) \in ResultType /\ Whole(StartupFailure(error))
         /\ KeepsEvidence(StartupFailure(error))
         /\ "config" \in StartupFailure(error).errors => error = "config"
BY DEF StartupFailure, ResultType, Whole, KeepsEvidence, Error, Evidence

LEMMA StartInv ==
  ASSUME RunInv, NEW p \in Process, Start(p)
  PROVE  RunInv'
<1>1. /\ pc[p] = "start" /\ result \in [Process -> ResultType]
      /\ engine \in [Process -> BOOLEAN] /\ LoadConfigAccepts(config)
  BY DEF RunInv, Types, Passage, Start, ResultType
<1>2. CASE /\ ConfigAccepts(Loaded(config).engine)
           /\ engine' = [engine EXCEPT ![p] = TRUE]
           /\ Goto(p, "serve") /\ UNCHANGED <<result, faults>>
  <2>1. result' = [result EXCEPT ![p] = result[p]]
    BY <1>1, <1>2
  <2>2. "config" \notin result[p].errors
    BY <1>2 DEF RunInv, Passage
  <2> QED BY <1>1, <1>2, <2>1, <2>2, ServiceInv DEF Start, Goto, ResultType
<1>3. ASSUME NEW error \in {"startup", "config"},
             result' = [result EXCEPT ![p] = StartupFailure(error)],
             error = "config" => ~ ConfigAccepts(Loaded(config).engine),
             engine' \in [Process -> BOOLEAN], Goto(p, "cleanup")
      PROVE  RunInv'
  <2>1. WholeButMemory(StartupFailure(error))
    BY DEF StartupFailure, WholeButMemory
  <2> QED BY <1>1, <1>3, <2>1, StartupFailureFacts, ServiceInv DEF Start, Goto, ResultType
<1>4. CASE /\ ConfigAccepts(Loaded(config).engine)
           /\ Fault /\ engine' \in {[engine EXCEPT ![p] = b] : b \in BOOLEAN}
           /\ result' = [result EXCEPT ![p] = StartupFailure("startup")]
           /\ Goto(p, "cleanup")
  BY <1>1, <1>3, <1>4
<1>5. CASE /\ ~ ConfigAccepts(Loaded(config).engine) /\ UNCHANGED <<engine, faults>>
           /\ result' = [result EXCEPT ![p] = StartupFailure("config")]
           /\ Goto(p, "cleanup")
  BY <1>1, <1>3, <1>5
<1> QED BY <1>2, <1>4, <1>5 DEF Start

LEMMA ServeInv ==
  ASSUME RunInv, NEW p \in Process, Serve(p)
  PROVE  RunInv'
<1>1. /\ pc[p] = "serve" /\ engine \in [Process -> BOOLEAN]
      /\ pc' = [pc EXCEPT ![p] = "cleanup"]
      /\ disk' = disk \/ (config.profiling.enabled /\ Put("traces", [run |-> p]))
  BY DEF RunInv, Types, Serve, Goto
<1>2. ASSUME NEW r \in ResultType, result' = [result EXCEPT ![p] = r],
             KeepsEvidence(r), Whole(r), "config" \notin r.errors
      PROVE  RunInv'
  BY <1>1, <1>2, ServiceInv DEF Serve, ResultType
<1>3. ASSUME NEW status \in {"passed", "failed"}, NEW errors \in SUBSET {"loop"},
             status = "passed" => errors = {},
             result' = [result EXCEPT ![p] =
                          [status |-> status, full |-> Evidence, errors |-> errors]]
      PROVE  RunInv'
  <2> DEFINE r == [status |-> status, full |-> Evidence, errors |-> errors]
  <2>1. r \in ResultType /\ r.status = status /\ r.full = Evidence /\ r.errors = errors
    BY DEF ResultType, Error
  <2> HIDE DEF r
  <2>2. KeepsEvidence(r)
    BY <2>1 DEF KeepsEvidence, Kept, Evidence
  <2>3. Whole(r)
    BY <2>1, <1>3 DEF Whole
  <2>4. result' = [result EXCEPT ![p] = r]
    BY <1>3 DEF r
  <2> QED BY <2>1, <2>2, <2>3, <2>4, <1>2
<1>4. CASE \/ result' = [result EXCEPT ![p] =
                           [status |-> "passed", full |-> Evidence, errors |-> {}]]
           \/ result' = [result EXCEPT ![p] =
                           [status |-> "failed", full |-> Evidence, errors |-> {"loop"}]]
  <2>1. {"loop"} \in SUBSET {"loop"} /\ {} \in SUBSET {"loop"}
    OBVIOUS
  <2>2. CASE result' = [result EXCEPT ![p] =
                          [status |-> "passed", full |-> Evidence, errors |-> {}]]
    BY <1>3, <2>1, <2>2, Zenon
  <2>3. CASE result' = [result EXCEPT ![p] =
                          [status |-> "failed", full |-> Evidence, errors |-> {"loop"}]]
    <3>1. "failed" # "passed"
      OBVIOUS
    <3> QED BY <1>3, <2>1, <2>3, <3>1, Zenon
  <2> QED BY <1>4, <2>2, <2>3, Zenon
<1>5. CASE result' = [result EXCEPT ![p] = StartupFailure("profiler")]
  BY <1>2, <1>5, StartupFailureFacts
<1> QED BY <1>4, <1>5 DEF Serve

LEMMA CleanupInv ==
  ASSUME RunInv, NEW p \in Process, Cleanup(p)
  PROVE  RunInv'
<1>1. /\ pc[p] = "cleanup" /\ engine \in [Process -> BOOLEAN]
      /\ pc' = [pc EXCEPT ![p] = "collect"] /\ result \in [Process -> ResultType]
      /\ KeepsEvidence(result[p]) /\ Whole(result[p])
      /\ "config" \in result[p].errors =>
           LoadConfigAccepts(config) /\ ~ ConfigAccepts(Loaded(config).engine)
  BY DEF RunInv, Types, Passage, Results, Cleanup, Goto, ResultType
<1>2. ASSUME NEW r \in ResultType, result' = [result EXCEPT ![p] = r],
             KeepsEvidence(r), WholeButMemory(r),
             "config" \in r.errors => "config" \in result[p].errors
      PROVE  RunInv'
  BY <1>1, <1>2, ServiceInv DEF Cleanup, ResultType
<1>3. CASE UNCHANGED result
  <2>1. result' = [result EXCEPT ![p] = result[p]]
    BY <1>1, <1>3
  <2>2. WholeButMemory(result[p])
    BY <1>1 DEF Whole, WholeButMemory
  <2> QED BY <1>1, <1>2, <2>1, <2>2
<1>4. ASSUME NEW unread \in SUBSET {"gpu_memory"}, NEW exits \in BOOLEAN,
             result' = [result EXCEPT ![p] =
               IF exits THEN Noted(@, unread) ELSE Failed(Noted(@, unread), "cleanup")]
      PROVE  RunInv'
  <2> DEFINE r == Noted(result[p], unread)
  <2>1. /\ r \in ResultType /\ r.status = result[p].status /\ r.full = result[p].full
        /\ r.errors = result[p].errors \union unread
    BY <1>1 DEF ResultType, Error, Noted
  <2>2. result' = [result EXCEPT ![p] = IF exits THEN r ELSE Failed(r, "cleanup")]
    BY <1>4, <1>1
  <2> HIDE DEF r
  <2>3. KeepsEvidence(r) /\ WholeButMemory(r)
    BY <1>1, <2>1 DEF KeepsEvidence, Whole, WholeButMemory
  <2>4. "config" \in r.errors => "config" \in result[p].errors
    BY <2>1
  <2>5. CASE exits
    BY <2>1, <2>2, <2>3, <2>4, <2>5, <1>2
  <2>6. CASE ~ exits
    <3>1. "cleanup" \in Error \ {"config"}
      BY DEF Error
    <3> QED BY <3>1, <2>1, <2>2, <2>3, <2>4, <2>6, FailedFacts, <1>2
  <2> QED BY <2>5, <2>6
<1> QED BY <1>3, <1>4 DEF Cleanup

LEMMA CollectInv ==
  ASSUME RunInv, NEW p \in Process, Collect(p)
  PROVE  RunInv'
<1>1. /\ pc[p] = "collect" /\ engine \in [Process -> BOOLEAN]
      /\ pc' = [pc EXCEPT ![p] = "write"] /\ result \in [Process -> ResultType]
      /\ KeepsEvidence(result[p]) /\ WholeButMemory(result[p])
      /\ "config" \in result[p].errors =>
           LoadConfigAccepts(config) /\ ~ ConfigAccepts(Loaded(config).engine)
  BY DEF RunInv, Types, Passage, Results, Collect, Goto, ResultType
<1>2. ASSUME NEW r \in ResultType, result' = [result EXCEPT ![p] = r],
             KeepsEvidence(r), Whole(r),
             "config" \in r.errors => "config" \in result[p].errors
      PROVE  RunInv'
  BY <1>1, <1>2, ServiceInv DEF Collect, ResultType
<1>3. CASE "gpu_memory" \notin result[p].errors /\ UNCHANGED result
  <2>1. result' = [result EXCEPT ![p] = result[p]]
    BY <1>1, <1>3
  <2>2. Whole(result[p])
    BY <1>1, <1>3 DEF Whole, WholeButMemory
  <2> QED BY <1>1, <1>2, <2>1, <2>2
<1>4. CASE result' = [result EXCEPT ![p] = Failed(@, "collection")]
  <2>1. "collection" \in Error \ {"config"}
    BY DEF Error
  <2>2. result' = [result EXCEPT ![p] = Failed(result[p], "collection")]
    BY <1>1, <1>4
  <2> QED BY <1>1, <1>2, <2>1, <2>2, FailedFacts
<1> QED BY <1>3, <1>4 DEF Collect

(* The check of the directory: it is empty of what this run would write,   *)
(* so no run that is over has come to its summary.                         *)
LEMMA ResolveInv ==
  ASSUME RunInv, NEW p \in Process, Resolve(p)
  PROVE  RunInv'
<1>1. Files' = Files
  BY FilesConstant DEF Resolve
<1>2. /\ Types /\ Passage /\ Succession /\ InOrder /\ Results /\ Reported
      /\ config \in {WithSections(c) : c \in Configs}
  BY DEF RunInv
<1>3. pc[p] = "resolve" /\ loaded[p] = 0 /\ LoadConfigAccepts(config)
  BY <1>2 DEF Resolve, Passage
<1>4. CASE Goto(p, "refused") /\ UNCHANGED before
  <2>1. pc[p] \in Early \ {"refused"}
    BY <1>3 DEF Early
  <2> QED BY <1>4, <2>1, MoveInv DEF Resolve, Goto
<1>5. CASE /\ ~ Existing /\ ~ TracesExist /\ Goto(p, "start")
           /\ before' = [before EXCEPT ![p] = {q \in Process : Ended(q)}]
  <2>1. DOMAIN disk = {}
    <3>1. \A a \in DOMAIN disk \ {"traces"} : Included(a)
      BY <1>2, FilesFacts DEF Types
    <3>2. "traces" \notin DOMAIN disk
      BY <1>2, <1>5 DEF Types, TracesExist
    <3> QED BY <3>1, <3>2, <1>5 DEF Existing
  <2>2. UNCHANGED <<config, source, loaded, result, engine, disk>>
    BY DEF Resolve
  <2>3. /\ pc'[p] = "start" /\ \A q \in Process \ {p} : pc'[q] = pc[q]
        /\ ~ Ended(p) /\ \A q \in Process : Ended(q) => (Ended(q))'
    BY <1>2, <1>3, <1>5 DEF Types, Goto, Ended
  <2>4. /\ before' \in [Process -> SUBSET Process]
        /\ before'[p] = {q \in Process : Ended(q)}
        /\ \A q \in Process \ {p} : before'[q] = before[q]
    BY <1>2, <1>5 DEF Types
  <2>5. (Past(p))' /\ \A q \in Process \ {p} : (Past(q))' <=> Past(q)
    BY <2>3, <2>4 DEF Past
  <2>6. "start" \in Working /\ "start" \notin Early \union Outcomes \union Range(Files)
        /\ "resolve" \notin Outcomes \union Range(Files)
    BY NamesFacts DEF Working, Early, Outcomes
  <2>7. ~ Writing(p) /\ \A q \in Process : (Writing(q))' <=> Writing(q)
    BY <1>1, <1>3, <2>3, <2>6 DEF Writing, Outcomes
  <2>8. \A q \in Process : Ended(q) => ~ Writing(q)
    <3>1. \A q \in Process : pc[q] \notin {"exit 0", "exit 1"}
      BY <1>2, <2>1 DEF InOrder
    <3>2. {"refused", "killed"} \intersect Range(Files) = {}
      BY NamesFacts DEF Outcomes, Names
    <3> QED BY <3>1, <3>2 DEF Ended, Writing
  <2>9. Types'
    <3>1. pc' \in [Process -> (Early \union Working \union Outcomes \union Range(Files))']
      BY <1>1, <1>2, <1>5, <2>6 DEF Types, Goto
    <3> QED BY <3>1, <1>2, <2>1, <2>2, <2>4 DEF Types
  <2>10. Passage'
    <3>1. LoadConfigAccepts(config)' <=> LoadConfigAccepts(config)
      BY <2>2, Zenon
    <3>2. ConfigAccepts(Loaded(config).engine)' <=> ConfigAccepts(Loaded(config).engine)
      BY <2>2, Zenon
    <3> SUFFICES ASSUME NEW q \in Process
        PROVE  /\ (Past(q))' => pc'[q] \notin Early
               /\ pc'[q] \in Working \/ (Writing(q))' => (Past(q))'
               /\ (Past(q))' \/ pc'[q] = "resolve" => loaded'[q] = 0
               /\ pc'[q] \in {"verify", "resolve", "start"} => LoadConfigAccepts(config)'
               /\ "config" \in result'[q].errors =>
                    LoadConfigAccepts(config)' /\ ~ ConfigAccepts(Loaded(config).engine)'
      BY DEF Passage
    <3>3. CASE q = p
      BY <3>1, <3>2, <3>3, <1>2, <1>3, <2>2, <2>3, <2>5, <2>6 DEF Passage
    <3>4. CASE q # p
      BY <3>1, <3>2, <3>4, <1>2, <2>2, <2>3, <2>5, <2>7 DEF Passage
    <3> QED BY <3>3, <3>4
  <2>11. Succession'
    <3>1. DOMAIN disk' = {}
      BY <2>1, <2>2
    <3>2. ASSUME NEW q \in Process, (Past(q))', NEW r \in before'[q]
          PROVE  (Ended(r))' /\ ~ (Writing(r))'
      <4>1. r \in Process /\ Ended(r) /\ ~ Writing(r)
        BY <3>2, <1>2, <2>4, <2>5, <2>8 DEF Succession, Types
      <4> QED BY <4>1, <2>3, <2>7
    <3> QED BY <3>1, <3>2 DEF Succession
  <2>12. InOrder'
    <3>1. \A n \in 1..Len(Files) : "start" # Files[n]
      BY <2>6, FilesFacts
    <3>2. \A q \in Process, n \in 1..Len(Files) : pc'[q] = Files[n] => pc[q] = Files[n]
      BY <3>1, <2>3
    <3>3. \A q \in Process : pc'[q] \in {"exit 0", "exit 1"} => pc[q] \in {"exit 0", "exit 1"}
      BY <2>3
    <3> QED BY <3>2, <3>3, <1>1, <1>2, <2>2 DEF InOrder
  <2>13. Results'
    <3>1. \A q : /\ KeepsEvidence(result[q])' <=> KeepsEvidence(result[q])
                 /\ Whole(result[q])' <=> Whole(result[q])
                 /\ WholeButMemory(result[q])' <=> WholeButMemory(result[q])
      BY <2>2 DEF KeepsEvidence, Whole, WholeButMemory
    <3> QED BY <3>1, <1>2, <2>2, <2>3, <2>7 DEF Results
  <2>14. Reported'
    BY <2>1, <2>2 DEF Reported
  <2> QED BY <1>2, <2>2, <2>9, <2>10, <2>11, <2>12, <2>13, <2>14 DEF RunInv
<1> QED BY <1>4, <1>5 DEF Resolve

LEMMA EditInv ==
  ASSUME RunInv, Edit
  PROVE  RunInv'
<1>1. /\ Types /\ Passage /\ Succession /\ InOrder /\ Results /\ Reported
      /\ UNCHANGED <<config, pc, loaded, result, engine, disk, before>>
  BY DEF RunInv, Edit
<1>2. Files' = Files
  BY <1>1, FilesConstant
<1>3. Types'
  BY <1>1, <1>2 DEF Types, Edit, Past
<1>4. Passage' /\ Succession' /\ InOrder' /\ Results' /\ Reported'
  <2>1. Passage' BY <1>1, <1>2 DEF Passage, Past, Writing
  <2>2. Succession' BY <1>1, <1>2 DEF Succession, Past, Writing, Ended
  <2>3. InOrder' BY <1>1, <1>2 DEF InOrder
  <2>4. Results' BY <1>1, <1>2 DEF Results, Writing, KeepsEvidence, Whole, WholeButMemory
  <2>5. Reported' BY <1>1, <1>2 DEF Reported, Writing, KeepsEvidence, Whole
  <2> QED BY <2>1, <2>2, <2>3, <2>4, <2>5
<1> QED BY <1>1, <1>3, <1>4 DEF RunInv

(* The next file in the order, of which all the earlier ones are there.    *)
LEMMA WriteFacts ==
  ASSUME RunInv, NEW p \in Process, Write(p)
  PROVE  \E i \in 1..Len(Files) :
           /\ pc' = [pc EXCEPT ![p] = Files[i]]
           /\ Put(Files[i], Contents(p, Files[i]))
           /\ \A m \in 1..i : m # i => Files[m] \in DOMAIN disk
<1> DEFINE at == CHOOSE n \in DOMAIN Files : Files[n] = pc[p]
           i == IF pc[p] = "write" THEN 1 ELSE 1 + at
<1>1. /\ i <= Len(Files) /\ Put(Files[i], Contents(p, Files[i]))
      /\ pc' = [pc EXCEPT ![p] = Files[i]] /\ pc[p] \in {"write"} \union Range(Files)
  BY DEF Write, Goto
<1>2. CASE pc[p] = "write"
  <2>1. i = 1
    BY <1>2
  <2> HIDE DEF i
  <2>2. 1 \in 1..Len(Files) /\ \A m \in 1..1 : m = 1
    BY FilesFacts
  <2> QED BY <1>1, <2>1, <2>2
<1>3. CASE pc[p] # "write"
  <2>1. \E n \in DOMAIN Files : Files[n] = pc[p]
    BY <1>1, <1>3, FilesFacts
  <2>2. at \in 1..Len(Files) /\ Files[at] = pc[p]
    BY <2>1, FilesFacts
  <2>3. i = 1 + at
    BY <1>3
  <2> HIDE DEF i, at
  <2>4. \A m \in 1..at : Files[m] \in DOMAIN disk
    BY <2>2 DEF RunInv, InOrder
  <2>5. i \in 1..Len(Files) /\ \A m \in 1..i : m # i => m \in 1..at
    BY <1>1, <2>2, <2>3, FilesFacts
  <2> QED BY <1>1, <2>4, <2>5
<1> QED BY <1>2, <1>3

LEMMA WriteInv ==
  ASSUME RunInv, NEW p \in Process, Write(p)
  PROVE  RunInv'
<1>1. Files' = Files
  BY FilesConstant DEF Write
<1>2. /\ Types /\ Passage /\ Succession /\ InOrder /\ Results /\ Reported
      /\ config \in {WithSections(c) : c \in Configs}
  BY DEF RunInv
<1>3. UNCHANGED <<config, source, loaded, result, engine, before>>
  BY DEF Write
<1>4. PICK i \in 1..Len(Files) :
        /\ pc' = [pc EXCEPT ![p] = Files[i]]
        /\ Put(Files[i], Contents(p, Files[i]))
        /\ \A m \in 1..i : m # i => Files[m] \in DOMAIN disk
  BY WriteFacts
<1> DEFINE f == Files[i]
<1>5. /\ f \in Range(Files) /\ f \in Names /\ f # "traces"
      /\ f \notin Early \union Working \union Outcomes
  BY FilesFacts, NamesFacts
<1>6. pc[p] = "write" \/ Writing(p)
  BY DEF Write, Writing
<1>7. /\ pc[p] \notin Outcomes /\ ~ Ended(p)
  BY NamesFacts DEF Write, Ended, Outcomes, Working
<1>8. Past(p) /\ KeepsEvidence(result[p]) /\ Whole(result[p])
  BY <1>2, <1>6 DEF Passage, Results, Working
<1>9. /\ pc'[p] = f /\ \A q \in Process \ {p} : pc'[q] = pc[q]
      /\ \A q \in Process : Ended(q) => (Ended(q))'
  BY <1>2, <1>4, <1>7 DEF Types, Ended
<1>10. /\ \A q : (Past(q))' <=> Past(q)
       /\ (Writing(p))' /\ \A q \in Process \ {p} : (Writing(q))' <=> Writing(q)
  BY <1>1, <1>3, <1>5, <1>9 DEF Past, Writing
<1>11. /\ DOMAIN disk' = DOMAIN disk \union {f}
       /\ \A a \in DOMAIN disk \ {f} : disk'[a] = disk[a]
       /\ disk'[f] = Contents(p, f)
  BY <1>4 DEF Put
<1>12. /\ disk'[f].run = p
       /\ IF f = "summary" THEN disk'[f].status = result[p].status
          ELSE disk'[f] = [run |-> p, full |-> f \in result[p].full]
  BY <1>11 DEF Contents, Summary
<1> HIDE DEF f
<1>13. Types'
  <2>1. pc' \in [Process -> (Early \union Working \union Outcomes \union Range(Files))']
    BY <1>1, <1>2, <1>4, <1>5 DEF Types, f
  <2>2. DOMAIN disk' \subseteq Range(Files)' \union {"traces"}
    BY <1>1, <1>2, <1>5, <1>11 DEF Types
  <2>3. ASSUME NEW a \in DOMAIN disk'
        PROVE  disk'[a].run \in Process /\ (Past(disk[a].run))'
    <3>1. CASE a = f
      BY <3>1, <1>8, <1>10, <1>12
    <3>2. CASE a # f
      BY <3>2, <1>2, <1>10, <1>11 DEF Types
    <3> QED BY <3>1, <3>2
  <2>4. "traces" \in DOMAIN disk' => config'.profiling.enabled
    BY <1>2, <1>3, <1>5, <1>11 DEF Types
  <2> QED BY <2>1, <2>2, <2>3, <2>4, <1>2, <1>3 DEF Types
<1>14. Passage'
  <2>1. LoadConfigAccepts(config)' <=> LoadConfigAccepts(config)
    BY <1>3, Zenon
  <2>2. ConfigAccepts(Loaded(config).engine)' <=> ConfigAccepts(Loaded(config).engine)
    BY <1>3, Zenon
  <2>3. f \notin {"verify", "resolve", "start"}
    BY <1>5 DEF Early, Working
  <2> SUFFICES ASSUME NEW q \in Process
      PROVE  /\ (Past(q))' => pc'[q] \notin Early
             /\ pc'[q] \in Working \/ (Writing(q))' => (Past(q))'
             /\ (Past(q))' \/ pc'[q] = "resolve" => loaded'[q] = 0
             /\ pc'[q] \in {"verify", "resolve", "start"} => LoadConfigAccepts(config)'
             /\ "config" \in result'[q].errors =>
                  LoadConfigAccepts(config)' /\ ~ ConfigAccepts(Loaded(config).engine)'
    BY DEF Passage
  <2>4. CASE q = p
    BY <2>1, <2>2, <2>3, <2>4, <1>2, <1>3, <1>5, <1>8, <1>9, <1>10 DEF Passage
  <2>5. CASE q # p
    BY <2>1, <2>2, <2>5, <1>2, <1>3, <1>9, <1>10 DEF Passage
  <2> QED BY <2>4, <2>5
<1>15. Succession'
  <2> SUFFICES ASSUME NEW q \in Process, (Past(q))'
      PROVE  /\ \A r \in before'[q] : (Ended(r))' /\ ~ (Writing(r))'
             /\ \A a \in DOMAIN disk' : disk'[a].run \notin before'[q]
    BY DEF Succession
  <2>1. /\ \A r \in before[q] : r \in Process /\ Ended(r) /\ ~ Writing(r)
        /\ \A a \in DOMAIN disk : disk[a].run \notin before[q]
    BY <1>2, <1>10 DEF Succession, Types
  <2>2. p \notin before[q]
    BY <2>1, <1>7
  <2>3. \A r \in before[q] : (Ended(r))' /\ ~ (Writing(r))'
    BY <2>1, <2>2, <1>9, <1>10
  <2>4. \A a \in DOMAIN disk' : disk'[a].run \notin before[q]
    BY <2>1, <2>2, <1>11, <1>12
  <2> QED BY <2>3, <2>4, <1>3
<1>16. InOrder'
  <2>1. \A m \in 1..i : Files[m] \in DOMAIN disk'
    BY <1>4, <1>11 DEF f
  <2>2. ASSUME NEW q \in Process, NEW n \in 1..Len(Files), pc'[q] = Files[n]
        PROVE  \A m \in 1..n : Files[m] \in DOMAIN disk'
    <3>1. CASE q = p
      <4>1. n = i
        BY <2>2, <3>1, <1>9, FilesFacts DEF f
      <4> QED BY <4>1, <2>1
    <3>2. CASE q # p
      <4>1. pc[q] = Files[n]
        BY <2>2, <3>2, <1>9
      <4>2. \A m \in 1..n : Files[m] \in DOMAIN disk
        BY <4>1, <1>2 DEF InOrder
      <4> QED BY <4>2, <1>11
    <3> QED BY <3>1, <3>2
  <2>3. ASSUME NEW q \in Process, pc'[q] \in {"exit 0", "exit 1"}
        PROVE  "summary" \in DOMAIN disk'
    BY <2>3, <1>2, <1>5, <1>9, <1>11 DEF InOrder, Outcomes
  <2>4. ASSUME "summary" \in DOMAIN disk'
        PROVE  Range(Files) \subseteq DOMAIN disk'
    <3>1. CASE "summary" \in DOMAIN disk
      BY <3>1, <1>2, <1>11 DEF InOrder
    <3>2. CASE "summary" \notin DOMAIN disk
      <4>1. f = "summary"
        BY <2>4, <3>2, <1>11
      <4>2. i = Len(Files)
        BY <4>1, FilesFacts DEF f
      <4> QED BY <4>2, <2>1, FilesFacts
    <3> QED BY <3>1, <3>2
  <2> QED BY <2>2, <2>3, <2>4, <1>1 DEF InOrder
<1>17. Results'
  <2>1. \A q : /\ KeepsEvidence(result[q])' <=> KeepsEvidence(result[q])
               /\ Whole(result[q])' <=> Whole(result[q])
               /\ WholeButMemory(result[q])' <=> WholeButMemory(result[q])
    BY <1>3 DEF KeepsEvidence, Whole, WholeButMemory
  <2>2. f \notin {"collect", "exit 0"}
    BY <1>5 DEF Working, Outcomes
  <2> SUFFICES ASSUME NEW q \in Process
      PROVE  /\ pc'[q] \in {"cleanup", "collect", "write"} \/ (Writing(q))'
                  => (KeepsEvidence(result[q]))'
             /\ pc'[q] \in {"cleanup", "write"} \/ (Writing(q))' => (Whole(result[q]))'
             /\ pc'[q] = "collect" => (WholeButMemory(result[q]))'
             /\ pc'[q] = "exit 0" => result'[q].status = "passed"
    BY DEF Results
  <2>3. CASE q = p
    BY <2>1, <2>2, <2>3, <1>8, <1>9
  <2>4. CASE q # p
    BY <2>1, <2>4, <1>2, <1>3, <1>9, <1>10 DEF Results
  <2> QED BY <2>3, <2>4
<1>18. Reported'
  <2>1. \A q : /\ KeepsEvidence(result[q])' <=> KeepsEvidence(result[q])
               /\ Whole(result[q])' <=> Whole(result[q])
    BY <1>3 DEF KeepsEvidence, Whole
  <2> SUFFICES ASSUME NEW a \in DOMAIN disk' \ {"traces"}, NEW r, r = disk'[a].run
      PROVE  /\ (Writing(r))' \/ pc'[r] = "killed"
             /\ KeepsEvidence(result[r])' /\ Whole(result[r])'
             /\ IF a = "summary" THEN disk'[a].status = result'[r].status
                ELSE disk'[a] = [run |-> r, full |-> a \in result'[r].full]
    BY DEF Reported
  <2>2. CASE a = f
    <3>1. r = p
      BY <2>2, <1>12
    <3> QED BY <2>1, <2>2, <3>1, <1>3, <1>8, <1>10, <1>12
  <2>3. CASE a # f
    <3>1. a \in DOMAIN disk \ {"traces"} /\ disk'[a] = disk[a] /\ r = disk[a].run
      BY <2>3, <1>11
    <3>2. /\ r \in Process /\ (Writing(r) \/ pc[r] = "killed")
          /\ KeepsEvidence(result[r]) /\ Whole(result[r])
      BY <3>1, <1>2 DEF Reported, Types
    <3>3. IF a = "summary" THEN disk[a].status = result[r].status
          ELSE disk[a] = [run |-> r, full |-> a \in result[r].full]
      BY <3>1, <1>2 DEF Reported
    <3>4. (Writing(r))' \/ pc'[r] = "killed"
      BY <3>2, <1>9, <1>10
    <3>5. IF a = "summary" THEN disk'[a].status = result'[r].status
          ELSE disk'[a] = [run |-> r, full |-> a \in result'[r].full]
      BY <3>1, <3>3, <1>3
    <3> QED BY <2>1, <3>2, <3>4, <3>5
  <2> QED BY <2>2, <2>3
<1> QED BY <1>2, <1>3, <1>13, <1>14, <1>15, <1>16, <1>17, <1>18 DEF RunInv

LEMMA ExitInv ==
  ASSUME RunInv, NEW p \in Process, Exit(p)
  PROVE  RunInv'
<1>1. Files' = Files
  BY FilesConstant DEF Exit
<1>2. /\ Types /\ Passage /\ Succession /\ InOrder /\ Results /\ Reported
      /\ config \in {WithSections(c) : c \in Configs}
  BY DEF RunInv
<1>3. UNCHANGED <<config, source, loaded, result, engine, disk, before>>
  BY DEF Exit
<1>4. PICK x \in {"exit 0", "exit 1"} :
        pc' = [pc EXCEPT ![p] = x] /\ (x = "exit 0" => result[p].status = "passed")
  BY DEF Exit, Goto
<1>5. /\ pc[p] = "summary" /\ pc[p] \in Range(Files)
      /\ pc[p] = Files[Len(Files)] /\ Len(Files) \in 1..Len(Files)
  <2>1. pc[p] = Files[Len(Files)]
    BY DEF Exit
  <2> QED BY <2>1, FilesFacts
<1>6. pc[p] \notin Outcomes /\ ~ Ended(p) /\ Writing(p)
  BY <1>5, NamesFacts DEF Ended, Outcomes, Writing
<1>7. x \in Outcomes /\ x \notin Early \union Working \union Range(Files)
  BY NamesFacts DEF Outcomes, Early, Working, Names
<1>8. /\ pc'[p] = x /\ \A q \in Process \ {p} : pc'[q] = pc[q]
      /\ \A q \in Process : Ended(q) => (Ended(q))'
  BY <1>2, <1>4, <1>6 DEF Types, Ended
<1>9. /\ \A q : (Past(q))' <=> Past(q)
      /\ \A q \in Process : (Writing(q))' <=> Writing(q)
  BY <1>1, <1>3, <1>6, <1>8 DEF Past, Writing
<1>10. Past(p)
  BY <1>2, <1>6 DEF Passage
<1>11. Types'
  <2>1. pc' \in [Process -> (Early \union Working \union Outcomes \union Range(Files))']
    BY <1>1, <1>2, <1>4, <1>7 DEF Types
  <2> QED BY <2>1, <1>1, <1>2, <1>3, <1>9 DEF Types
<1>12. Passage'
  <2>1. LoadConfigAccepts(config)' <=> LoadConfigAccepts(config)
    BY <1>3, Zenon
  <2>2. ConfigAccepts(Loaded(config).engine)' <=> ConfigAccepts(Loaded(config).engine)
    BY <1>3, Zenon
  <2> SUFFICES ASSUME NEW q \in Process
      PROVE  /\ (Past(q))' => pc'[q] \notin Early
             /\ pc'[q] \in Working \/ (Writing(q))' => (Past(q))'
             /\ (Past(q))' \/ pc'[q] = "resolve" => loaded'[q] = 0
             /\ pc'[q] \in {"verify", "resolve", "start"} => LoadConfigAccepts(config)'
             /\ "config" \in result'[q].errors =>
                  LoadConfigAccepts(config)' /\ ~ ConfigAccepts(Loaded(config).engine)'
    BY DEF Passage
  <2>3. CASE q = p
    BY <2>1, <2>2, <2>3, <1>2, <1>3, <1>7, <1>8, <1>9, <1>10 DEF Passage
  <2>4. CASE q # p
    BY <2>1, <2>2, <2>4, <1>2, <1>3, <1>8, <1>9 DEF Passage
  <2> QED BY <2>3, <2>4
<1>13. Succession'
  <2>1. \A q \in Process : Past(q) =>
          \A r \in before[q] : r \in Process /\ (Ended(r))' /\ ~ (Writing(r))'
    BY <1>2, <1>8, <1>9 DEF Succession, Types
  <2> QED BY <2>1, <1>2, <1>3, <1>9 DEF Succession
<1>14. InOrder'
  <2>1. \A q \in Process, n \in 1..Len(Files) : pc'[q] = Files[n] => pc[q] = Files[n]
    <3>1. \A n \in 1..Len(Files) : x # Files[n]
      BY <1>7, FilesFacts
    <3> QED BY <3>1, <1>8
  <2>2. "summary" \in DOMAIN disk
    BY <1>2, <1>5 DEF InOrder
  <2> QED BY <2>1, <2>2, <1>1, <1>2, <1>3 DEF InOrder
<1>15. Results'
  <2>1. \A q : /\ KeepsEvidence(result[q])' <=> KeepsEvidence(result[q])
               /\ Whole(result[q])' <=> Whole(result[q])
               /\ WholeButMemory(result[q])' <=> WholeButMemory(result[q])
    BY <1>3 DEF KeepsEvidence, Whole, WholeButMemory
  <2>2. x \notin {"cleanup", "collect", "write"}
    BY <1>7 DEF Working
  <2> SUFFICES ASSUME NEW q \in Process
      PROVE  /\ pc'[q] \in {"cleanup", "collect", "write"} \/ (Writing(q))'
                  => (KeepsEvidence(result[q]))'
             /\ pc'[q] \in {"cleanup", "write"} \/ (Writing(q))' => (Whole(result[q]))'
             /\ pc'[q] = "collect" => (WholeButMemory(result[q]))'
             /\ pc'[q] = "exit 0" => result'[q].status = "passed"
    BY DEF Results
  <2>3. CASE q = p
    BY <2>1, <2>2, <2>3, <1>2, <1>3, <1>4, <1>6, <1>8, <1>9 DEF Results
  <2>4. CASE q # p
    BY <2>1, <2>4, <1>2, <1>3, <1>8, <1>9 DEF Results
  <2> QED BY <2>3, <2>4
<1>16. Reported'
  <2>1. \A q : /\ KeepsEvidence(result[q])' <=> KeepsEvidence(result[q])
               /\ Whole(result[q])' <=> Whole(result[q])
    BY <1>3 DEF KeepsEvidence, Whole
  <2>2. \A r \in Process : Writing(r) \/ pc[r] = "killed" => (Writing(r))' \/ pc'[r] = "killed"
    BY <1>6, <1>8, <1>9
  <2> QED BY <2>1, <2>2, <1>2, <1>3 DEF Reported, Types
<1> QED BY <1>2, <1>3, <1>11, <1>12, <1>13, <1>14, <1>15, <1>16 DEF RunInv

LEMMA NextInv == RunInv /\ [Next]_vars => RunInv'
<1> SUFFICES ASSUME RunInv, [Next]_vars PROVE RunInv'
  OBVIOUS
<1>1. ASSUME NEW p \in Process, Launch(p) \/ Main(p) \/ Kill(p) PROVE RunInv'
  BY <1>1, BeforeStartInv, ResolveInv, StartInv, ServeInv, CleanupInv, CollectInv,
     WriteInv, ExitInv DEF Main
<1>2. CASE Edit
  BY <1>2, EditInv
<1>3. CASE UNCHANGED vars
  <2>1. /\ Types /\ Passage /\ Succession /\ InOrder /\ Results /\ Reported
        /\ UNCHANGED <<config, source, pc, loaded, result, engine, disk, before>>
    BY <1>3 DEF RunInv, vars
  <2>2. Files' = Files
    BY <2>1, FilesConstant
  <2>3. Types' BY <2>1, <2>2 DEF Types, Past
  <2>4. Passage' BY <2>1, <2>2 DEF Passage, Past, Writing
  <2>5. Succession' BY <2>1, <2>2 DEF Succession, Past, Writing, Ended
  <2>6. InOrder' BY <2>1, <2>2 DEF InOrder
  <2>7. Results' BY <2>1, <2>2 DEF Results, Writing, KeepsEvidence, Whole, WholeButMemory
  <2>8. Reported' BY <2>1, <2>2 DEF Reported, Writing, KeepsEvidence, Whole
  <2> QED BY <2>1, <2>3, <2>4, <2>5, <2>6, <2>7, <2>8 DEF RunInv
<1> QED BY <1>1, <1>2, <1>3 DEF Next, Over

(* The inductive invariant of open-loop runs.                              *)
THEOREM RunInvariant == Spec => []RunInv
BY InitInv, NextInv, PTL DEF Spec

---------------------------------------------------------------------------
(* What it implies.                                                        *)

(* A summary on disk stands for a complete run: whatever was killed or     *)
(* failed on the way, all the artifacts main writes before it are there.   *)
THEOREM SummaryMarksCompleteRun == Spec => []SummaryLast
<1>1. RunInv => SummaryLast
  BY DEF RunInv, InOrder, SummaryLast
<1> QED BY <1>1, RunInvariant, PTL

(* Every write of a process that passed resolve_output_paths leaves alone  *)
(* the files of the runs that were over by then.                           *)
THEOREM NothingOverwritten == Spec => NoOverwrite
<1> DEFINE Leaves == \A a \in DOMAIN disk :
             disk'[a] # disk[a] => disk[a].run \notin before[disk'[a].run]
<1>1. ASSUME RunInv, [Next]_vars PROVE [Leaves]_vars
  <2>1. CASE UNCHANGED disk
    BY <2>1
  <2>2. ASSUME NEW p \in Process, NEW f, NEW content, content.run = p,
               pc[p] \in Working \/ Writing(p), Put(f, content)
        PROVE  Leaves
    <3>1. Past(p)
      BY <1>1, <2>2 DEF RunInv, Passage
    <3>2. \A a \in DOMAIN disk : disk[a].run \notin before[p]
      BY <1>1, <3>1 DEF RunInv, Succession
    <3>3. \A a \in DOMAIN disk : disk'[a] # disk[a] => disk'[a].run = p
      BY <2>2 DEF Put
    <3> QED BY <3>2, <3>3
  <2>3. ASSUME NEW p \in Process, Serve(p) PROVE [Leaves]_vars
    <3>1. pc[p] \in Working
      BY <2>3 DEF Serve, Working
    <3>2. [run |-> p].run = p
      OBVIOUS
    <3>3. CASE Put("traces", [run |-> p])
      BY <3>1, <3>2, <3>3, <2>2
    <3> QED BY <2>1, <3>3, <2>3 DEF Serve
  <2>4. ASSUME NEW p \in Process, Write(p) PROVE [Leaves]_vars
    <3>1. pc[p] \in Working \/ Writing(p)
      BY <2>4 DEF Write, Working, Writing
    <3>2. PICK i \in 1..Len(Files) : Put(Files[i], Contents(p, Files[i]))
      BY <1>1, <2>4, WriteFacts
    <3>3. Contents(p, Files[i]).run = p
      BY DEF Contents, Summary
    <3> QED BY <3>1, <3>2, <3>3, <2>2
  <2>5. ASSUME NEW p \in Process, Launch(p) \/ Main(p) \/ Kill(p) PROVE [Leaves]_vars
    <3> HIDE DEF Leaves
    <3> QED BY <2>5, <2>1, <2>3, <2>4
          DEF Main, Launch, Load, Verify, Resolve, Start, Cleanup, Collect, Exit, Kill
  <2> HIDE DEF Leaves
  <2> QED BY <1>1, <2>1, <2>5 DEF Next, Edit, Over, vars
<1> QED BY <1>1, RunInvariant, PTL DEF Spec, NoOverwrite

(* The configuration errors that reach a result are those of the three     *)
(* checks that only Config makes.                                          *)
THEOREM ValidatorsDisagreeOnThree == Spec => []ValidatorsAgree
<1>1. ASSUME RunInv PROVE ValidatorsAgree
  <2> SUFFICES ASSUME NEW p \in Process, "config" \in result[p].errors
               PROVE  OnlyConfigRefuses(Loaded(config).engine)
    BY DEF ValidatorsAgree
  <2>1. LoadConfigAccepts(config) /\ ~ ConfigAccepts(Loaded(config).engine)
    BY <1>1 DEF RunInv, Passage
  <2>2. PICK c \in Configs : config = WithSections(c)
    BY <1>1 DEF RunInv
  <2>3. "engine" \in DOMAIN c /\ Numeric(c.engine)
    BY RunAssumption DEF Numeric, Switches
  <2>4. "engine" \in DOMAIN config /\ config.engine = c.engine
    BY <2>2, <2>3 DEF WithSections, Completed, Given
  <2> QED BY <2>1, <2>3, <2>4, ValidatorsDiffer
<1> QED BY <1>1, RunInvariant, PTL

(* What happens after the loop, in cleanup, in the collection or by a kill, *)
(* does not take the evidence of the loop from the disk.                   *)
THEOREM EvidenceSurvives == Spec => []EvidenceKept
<1>1. ASSUME RunInv PROVE EvidenceKept
  <2> SUFFICES ASSUME NEW a \in DOMAIN disk \intersect Kept, NEW r, r = disk[a].run
      PROVE  disk[a].full \/ result[r].errors \intersect {"startup", "config", "profiler"} # {}
    BY DEF EvidenceKept, Kept
  <2>1. a \notin {"traces", "summary"}
    BY DEF Kept
  <2>2. KeepsEvidence(result[r]) /\ disk[a] = [run |-> r, full |-> a \in result[r].full]
    BY <1>1, <2>1 DEF RunInv, Reported
  <2> DEFINE b == a \in result[r].full
  <2>3. disk[a].full = b
    <3>1. disk[a] = [run |-> r, full |-> b]
      BY <2>2
    <3> HIDE DEF b
    <3>2. [run |-> r, full |-> b].full = b
      OBVIOUS
    <3> QED BY <3>1, <3>2, Zenon
  <2>4. CASE Kept \subseteq result[r].full
    BY <2>3, <2>4, Zenon
  <2> QED BY <2>2, <2>4 DEF KeepsEvidence
<1> QED BY <1>1, RunInvariant, PTL

(* An accepted summary, or an exit with 0, means a run without error, of   *)
(* the frozen code, whose evidence is all its own; but for runs that were  *)
(* past the check of the directory at the same time.                       *)
THEOREM PassedIsWhole == Spec => []PassedWhole
<1>1. ASSUME RunInv PROVE PassedWhole
  <2>1. Types /\ Passage /\ Succession /\ InOrder /\ Results /\ Reported
    BY <1>1 DEF RunInv
  <2>2. ASSUME Accepted, NEW p, p = disk["summary"].run, ~ Overlap(p)
        PROVE  /\ result[p].errors = {} /\ loaded[p] = 0
               /\ \A a \in Range(Files) \ {"summary"} : disk[a] = [run |-> p, full |-> TRUE]
    <3>1. "summary" \in DOMAIN disk \ {"traces"} /\ disk["summary"].status = "passed"
      BY <2>2 DEF Accepted
    <3>2. p \in Process /\ Past(p)
      BY <2>1, <2>2, <3>1 DEF Types
    <3>3. Whole(result[p]) /\ result[p].status = "passed"
      BY <2>1, <2>2, <3>1 DEF Reported
    <3>4. result[p].errors = {} /\ result[p].full = Evidence
      BY <3>3 DEF Whole
    <3>5. loaded[p] = 0
      BY <2>1, <3>2 DEF Passage
    <3>6. \A a \in DOMAIN disk : disk[a].run = p
      <4> SUFFICES ASSUME NEW a \in DOMAIN disk, NEW r, r = disk[a].run, r # p PROVE FALSE
        OBVIOUS
      <4>1. r \in Process /\ Past(r)
        BY <2>1 DEF Types
      <4>2. p \in before[r] \/ r \in before[p]
        BY <2>2, <4>1 DEF Overlap
      <4> QED BY <2>1, <2>2, <3>1, <3>2, <4>1, <4>2 DEF Succession
    <3>7. ASSUME NEW a \in Range(Files) \ {"summary"}
          PROVE  disk[a] = [run |-> p, full |-> TRUE]
      <4>1. a \in Evidence /\ a # "traces" /\ a # "summary"
        BY FilesFacts, NamesFacts
      <4>2. a \in DOMAIN disk
        BY <2>1, <3>1 DEF InOrder
      <4>3. disk[a] = [run |-> p, full |-> a \in result[p].full]
        BY <2>1, <3>6, <4>1, <4>2 DEF Reported
      <4> QED BY <3>4, <4>1, <4>3
    <3> QED BY <3>4, <3>5, <3>7
  <2>3. ASSUME NEW p \in Process, pc[p] = "exit 0", ~ Overlap(p)
        PROVE  disk["summary"].run = p /\ disk["summary"].status = "passed"
    <3>1. Writing(p) /\ Past(p) /\ result[p].status = "passed"
      BY <2>1, <2>3 DEF Writing, Passage, Results
    <3>2. "summary" \in DOMAIN disk \ {"traces"}
      BY <2>1, <2>3 DEF InOrder
    <3>3. disk["summary"].run = p
      <4> SUFFICES ASSUME NEW r, r = disk["summary"].run, r # p PROVE FALSE
        OBVIOUS
      <4>1. r \in Process /\ Past(r)
        BY <2>1, <3>2 DEF Types
      <4>2. p \in before[r] \/ r \in before[p]
        BY <2>3, <4>1 DEF Overlap
      <4> QED BY <2>1, <3>1, <3>2, <4>1, <4>2 DEF Succession
    <3>4. disk["summary"].status = result[p].status
      BY <2>1, <3>2, <3>3 DEF Reported
    <3> QED BY <3>1, <3>3, <3>4
  <2> QED BY <2>2, <2>3 DEF PassedWhole
<1> QED BY <1>1, RunInvariant, PTL
=============================================================================
