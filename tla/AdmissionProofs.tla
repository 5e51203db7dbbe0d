---------------------------- MODULE AdmissionProofs ----------------------------
(***************************************************************************)
(* Proofs about Admission, for any number of requests, blocks and tokens:  *)
(* a reservation is held exactly by the requests the engine works on, the  *)
(* reservations of the full footprint cover the blocks in use, and under   *)
(* them the engine never preempts anybody.                                 *)
(***************************************************************************)
EXTENDS Admission, SchedulerCoreProofs

---------------------------------------------------------------------------
(* The invariant.                                                          *)

(* The loop has not been left.                                             *)
Open == loop \in {"top", "admit", "model"}

(* The requests admission still answers for.                               *)
Unfinished == admitted \ st.finished

(* What every request is promised: the blocks of its prompt and of all the *)
(* tokens it may emit but the last.                                        *)
Footprint(e, r) == BlocksFor(e.plen[r] + e.maxTokens[r] - 1)

(* A reservation for every request, 0 without one, and what they add up to.*)
Holding(res) == [r \in SeqIds |-> IF r \in DOMAIN res THEN res[r] ELSE 0]
Total(g) ==
  LET f[n \in 0..NumSeqs] == IF n = 0 THEN 0 ELSE f[n - 1] + g[n]
  IN  f[NumSeqs]

(* No sequence has more blocks than its tokens need, and one that runs and *)
(* is not in C, the sequences selected in this step, none for its last     *)
(* token.                                                                  *)
Lean(e, C) ==
  /\ \A s \in SeqIds : Len(e.table[s]) <= BlocksFor(e.len[s])
  /\ \A s \in Elems(e.running) \ C :
       Len(e.table[s]) <= BlocksFor(e.len[s] - 1)

(* Every request of A that is not finished has its footprint in g, and     *)
(* together they fit.                                                      *)
Backed(e, A, g) ==
  /\ g \in [SeqIds -> Nat] /\ Total(g) <= NumBlocks
  /\ \A r \in A \ e.finished : Footprint(e, r) <= g[r]

QueueOK ==
  /\ arrived \in 0..NumSeqs /\ queue \in Seq(SeqIds) /\ Distinct(queue)
  /\ Elems(queue) \subseteq 1..arrived /\ admitted \subseteq 1..arrived
  /\ Elems(queue) \cap admitted = {}

(* A record is open before the request has arrived, while it is queued,    *)
(* and from its admission until the engine has finished it.                *)
RecordsOK ==
  /\ terminal \in [SeqIds -> TerminalStates \union {None}]
  /\ Open =>
       /\ \A r \in SeqIds : r > arrived \/ r \in Elems(queue) => terminal[r] = None
       /\ \A r \in admitted : terminal[r] = None <=> r \notin st.finished
  /\ loop = "closed" => \A r \in SeqIds : terminal[r] \in TerminalStates

ReservationsOK ==
  /\ reserved = [r \in DOMAIN reserved |-> reserved[r]]
  /\ ~ Enabled \/ loop = "closed" => reserved = << >>
  /\ Open /\ Enabled => DOMAIN reserved = Unfinished

EngineOK ==
  /\ Open => Good(st, admitted) /\ (loop # "model" => st.batch = << >>)
  /\ {"tokens", "steps"} \subseteq DOMAIN fb /\ fb.tokens \in Nat
  /\ \E config \in Configs : st.policy = config.policy

AdmissionInv ==
  /\ loop \in {"top", "admit", "model", "raised", "closed"}
  /\ policy \in AdmissionPolicies
  /\ QueueOK /\ RecordsOK /\ ReservationsOK /\ EngineOK

(* What holds beyond that when requests are admitted by their footprint,   *)
(* and as long as the loop goes on.                                        *)
ByFootprint == policy = "kv_aware_fifo"
Covered ==
  /\ Backed(st, admitted, Holding(reserved))
  /\ \A r \in DOMAIN reserved : reserved[r] = Footprint(st, r)
  /\ Lean(st, Selected(st))
CoverInv == ByFootprint => st.preempts = 0 /\ ~ failed /\ (Open => Covered)
---------------------------------------------------------------------------
(* The engine.  Admission extends SchedulerCore and instantiates the       *)
(* scheduler that is built on it; the operators of the instance are those  *)
(* of SchedulerCore.                                                       *)
LEMMA EngineIsCore ==
  /\ \A a, b : Engine!SmallerOf(a, b) = SmallerOf(a, b)
  /\ \A a, b : Engine!LargerOf(a, b) = LargerOf(a, b)
  /\ \A e : Engine!Selected(e) = Selected(e)
  /\ \A e : Engine!FreeKvForWaitingHead(e) = FreeKvForWaitingHead(e)
  /\ \A e, budget :
       Engine!SchedulePrefill(e, budget) =
         SchedulePrefill(e, budget)
  /\ \A e, budget, rotate :
       Engine!ScheduleDecode(e, budget, rotate) =
         ScheduleDecode(e, budget, rotate)
  /\ \A e, eos : Engine!Postprocessed(e, eos) = Postprocessed(e, eos)
<1>1. \A S : Engine!Cardinality(S) = Cardinality(S)
  BY DEF Cardinality, Engine!Cardinality
<1>2. \A n : Engine!BlocksFor(n) = BlocksFor(n)
  BY DEF BlocksFor, Engine!BlocksFor
<1>3. \A toks, i : Engine!Chain(toks, i) = Chain(toks, i)
  BY DEF Chain, Engine!Chain
<1>4. Engine!Root = Root BY DEF Root, Engine!Root
<1>5. \A p, b : Engine!TokenIds(p, b) = TokenIds(p, b)
  BY <1>4 DEF TokenIds, Engine!TokenIds
<1>6. \A toks, i : Engine!TokenBlock(toks, i) = TokenBlock(toks, i)
  BY DEF TokenBlock, Engine!TokenBlock
<1>7. \A p, toks, i : Engine!Hit(p, toks, i) = Hit(p, toks, i)
  BY <1>3, <1>5, <1>6 DEF Hit, Engine!Hit
<1>8. \A p, toks : Engine!CachedBlocks(p, toks) = CachedBlocks(p, toks)
  BY <1>2, <1>7 DEF CachedBlocks, Engine!CachedBlocks
<1>9. \A p, toks : Engine!ActiveCachedBlocks(p, toks) =
        ActiveCachedBlocks(p, toks)
  <2>1. \A p, toks :
          {i \in 1..Engine!CachedBlocks(p, toks) :
             p.map[Engine!Chain(toks, i)] \in p.used} =
          {i \in 1..CachedBlocks(p, toks) : p.map[Chain(toks, i)] \in p.used}
    BY <1>3, <1>8
  <2> QED BY <1>1, <2>1 DEF ActiveCachedBlocks, Engine!ActiveCachedBlocks
<1>10. \A p, toks, materialized : Engine!CanAllocate(p, toks, materialized) =
        CanAllocate(p, toks, materialized)
  BY <1>2, <1>8, <1>9 DEF CanAllocate, Engine!CanAllocate
<1>11. \A e, s : Engine!Toks(e, s) = Toks(e, s) BY DEF Toks, Engine!Toks
<1>12. \A q : Engine!Elems(q) = Elems(q) BY DEF Elems, Engine!Elems
<1>13. Engine!Block = Block BY DEF Block, Engine!Block
<1>14. \A q, K : Engine!Keep(q, K) = Keep(q, K) BY DEF Keep, Engine!Keep
<1>15. \A q : Engine!Reversed(q) = Reversed(q) BY DEF Reversed, Engine!Reversed
<1>16. \A p, table : Engine!Deallocated(p, table) = Deallocated(p, table)
  BY <1>12, <1>13, <1>14, <1>15 DEF Deallocated, Engine!Deallocated
<1>17. Engine!SeqIds = SeqIds BY DEF SeqIds, Engine!SeqIds
<1>18. \A q, s : Engine!Without(q, s) = Without(q, s)
  BY <1>14, <1>17 DEF Without, Engine!Without
<1>19. \A e, s, prepend : Engine!Preempted(e, s, prepend) =
        Preempted(e, s, prepend)
  BY <1>16, <1>18 DEF Preempted, Engine!Preempted
<1>20. \A key, other : Engine!Precedes(key, other) = Precedes(key, other)
  BY DEF Precedes, Engine!Precedes
<1>21. \A a, b : Engine!LargerOf(a, b) = LargerOf(a, b)
  BY DEF LargerOf, Engine!LargerOf
<1>22. \A cost, other : Engine!VictimKey(cost, other) = VictimKey(cost, other)
  BY <1>21 DEF VictimKey, Engine!VictimKey
<1>23. \A cost, other : Engine!Cheaper(cost, other) = Cheaper(cost, other)
  BY <1>20, <1>22 DEF Cheaper, Engine!Cheaper
<1>24. \A e, s : Engine!Releasable(e, s) = Releasable(e, s)
  <2> SUFFICES ASSUME NEW e, NEW s
               PROVE  Engine!Releasable(e, s) = Releasable(e, s)
    OBVIOUS
  <2>1. {b \in Engine!Elems(e.table[s]) : e.pool.ref[b] = 1} =
          {b \in Elems(e.table[s]) : e.pool.ref[b] = 1}
    BY <1>12
  <2> QED BY <1>1, <2>1 DEF Releasable, Engine!Releasable
<1>25. \A e, s : Engine!SharedPrefixTokens(e, s) = SharedPrefixTokens(e, s)
  BY DEF SharedPrefixTokens, Engine!SharedPrefixTokens
<1>26. \A e, s : Engine!EstimatedRecompute(e, s) = EstimatedRecompute(e, s)
  BY <1>21, <1>25 DEF EstimatedRecompute, Engine!EstimatedRecompute
<1>27. \A e, s : Engine!Cost(e, s) = Cost(e, s)
  BY <1>24, <1>26 DEF Cost, Engine!Cost
<1>28. \A e, candidates : Engine!SelectVictim(e, candidates) =
        SelectVictim(e, candidates)
  <2> SUFFICES ASSUME NEW e, NEW candidates
               PROVE  Engine!SelectVictim(e, candidates) =
                        SelectVictim(e, candidates)
    OBVIOUS
  <2>1. (CHOOSE s \in Engine!Elems(candidates) :
           \A t \in Engine!Elems(candidates) \ {s} :
             Engine!Cheaper(Engine!Cost(e, s), Engine!Cost(e, t))) =
        (CHOOSE s \in Elems(candidates) :
           \A t \in Elems(candidates) \ {s} :
             Cheaper(Cost(e, s), Cost(e, t)))
    BY <1>12, <1>23, <1>27
  <2>2. CASE e.policy \in {"recompute_aware", "recompute_aware_bounded"}
    <3>1. SelectVictim(e, candidates) =
            CHOOSE s \in Elems(candidates) :
              \A t \in Elems(candidates) \ {s} :
                Cheaper(Cost(e, s), Cost(e, t))
      BY <2>2 DEF SelectVictim
    <3>2. Engine!SelectVictim(e, candidates) =
            CHOOSE s \in Engine!Elems(candidates) :
              \A t \in Engine!Elems(candidates) \ {s} :
                Engine!Cheaper(Engine!Cost(e, s), Engine!Cost(e, t))
      BY <2>2 DEF Engine!SelectVictim
    <3> QED BY <3>1, <3>2, <2>1
  <2>3. CASE ~ (e.policy \in {"recompute_aware", "recompute_aware_bounded"})
    BY <2>3 DEF SelectVictim, Engine!SelectVictim
  <2> QED BY <2>2, <2>3
<1>29. \A e, head : Engine!FreeTurn(e, head) = FreeTurn(e, head)
  BY <1>10, <1>11, <1>19, <1>28 DEF FreeTurn, Engine!FreeTurn
<1>30. \A e, head : Engine!FreeKvFor(e, head) = FreeKvFor(e, head)
  BY <1>29 DEF FreeKvFor, Engine!FreeKvFor
<1>31. \A e : Engine!FreeKvForWaitingHead(e) = FreeKvForWaitingHead(e)
  BY <1>30 DEF FreeKvForWaitingHead, Engine!FreeKvForWaitingHead
<1>32. \A l, after : Engine!Joined(l, after) = Joined(l, after)
  BY DEF Joined, Engine!Joined
<1>33. \A l, after : Engine!PrefillStep(l, after) = PrefillStep(l, after)
  BY <1>32 DEF PrefillStep, Engine!PrefillStep
<1>34. \A e, s, n : Engine!Queued(e, s, n) = Queued(e, s, n)
  BY DEF Queued, Engine!Queued
<1>35. \A p, table, endTokens : Engine!CanMaterialize(p, table, endTokens) =
        CanMaterialize(p, table, endTokens)
  BY <1>2 DEF CanMaterialize, Engine!CanMaterialize
<1>36. \A e, s, new : Engine!Installed(e, s, new) = Installed(e, s, new)
  BY DEF Installed, Engine!Installed
<1>37. \A p, n : Engine!Popped(p, n) = Popped(p, n)
  BY DEF Popped, Engine!Popped
<1>38. \A p, n : Engine!PopFree(p, n) = PopFree(p, n)
  BY <1>4, <1>13, <1>37 DEF PopFree, Engine!PopFree
<1>39. \A p, table, n : Engine!Extended(p, table, n) = Extended(p, table, n)
  BY <1>38 DEF Extended, Engine!Extended
<1>40. \A table, endTokens : Engine!Missing(table, endTokens) =
        Missing(table, endTokens)
  BY <1>2 DEF Missing, Engine!Missing
<1>41. \A e, s, n : Engine!NextChunk(e, s, n) = NextChunk(e, s, n)
  BY <1>34, <1>35, <1>36, <1>39, <1>40 DEF NextChunk, Engine!NextChunk
<1>42. \A a, b : Engine!SmallerOf(a, b) = SmallerOf(a, b)
  BY DEF SmallerOf, Engine!SmallerOf
<1>43. \A left, remaining : Engine!Chunk(left, remaining) =
        Chunk(left, remaining)
  BY <1>42 DEF Chunk, Engine!Chunk
<1>44. \A p, hits : Engine!ShareCached(p, hits) = ShareCached(p, hits)
  BY <1>13, <1>14 DEF ShareCached, Engine!ShareCached
<1>45. \A p, toks, c : Engine!Cached(p, toks, c) = Cached(p, toks, c)
  BY <1>3 DEF Cached, Engine!Cached
<1>46. \A p, toks, c : Engine!CachedTable(p, toks, c) = CachedTable(p, toks, c)
  BY <1>3 DEF CachedTable, Engine!CachedTable
<1>47. \A p, toks, c, materialized :
        Engine!Allocated(p, toks, c, materialized) =
        Allocated(p, toks, c, materialized)
  BY <1>2, <1>39, <1>44, <1>45, <1>46 DEF Allocated, Engine!Allocated
<1>48. \A e, s : Engine!Done(e, s) = Done(e, s)
  BY <1>8, <1>11 DEF Done, Engine!Done
<1>49. \A e, s, n : Engine!FirstTarget(e, s, n) = FirstTarget(e, s, n)
  BY <1>48 DEF FirstTarget, Engine!FirstTarget
<1>50. \A e, s, n, c : Engine!FirstChunk(e, s, n, c) = FirstChunk(e, s, n, c)
  BY <1>11, <1>34, <1>36, <1>47, <1>49 DEF FirstChunk, Engine!FirstChunk
<1>51. \A e, s, left, remaining, count :
        Engine!PrefillTurn(e, s, left, remaining, count) =
        PrefillTurn(e, s, left, remaining, count)
  BY <1>10, <1>11, <1>41, <1>43, <1>49, <1>50
  DEF PrefillTurn, Engine!PrefillTurn
<1>52. \A e, s, remaining, count : Engine!NextHead(e, s, remaining, count) =
        NextHead(e, s, remaining, count)
  BY <1>48, <1>51 DEF NextHead, Engine!NextHead
<1>53. \A l : Engine!PrefillOn(l) = PrefillOn(l)
  BY <1>33, <1>52 DEF PrefillOn, Engine!PrefillOn
<1>54. \A e, budget : Engine!PrefillLoop(e, budget) = PrefillLoop(e, budget)
  BY <1>53 DEF PrefillLoop, Engine!PrefillLoop
<1>55. \A e, budget : Engine!SchedulePrefill(e, budget) =
        SchedulePrefill(e, budget)
  BY <1>54 DEF SchedulePrefill, Engine!SchedulePrefill
<1>56. \A e, chosen, rotate : Engine!Requeued(e, chosen, rotate) =
        Requeued(e, chosen, rotate)
  BY DEF Requeued, Engine!Requeued
<1>57. \A r, rotate : Engine!Decoded(r, rotate) = Decoded(r, rotate)
  BY <1>56 DEF Decoded, Engine!Decoded
<1>58. \A len : Engine!AppendNeeds(len) = AppendNeeds(len)
  BY DEF AppendNeeds, Engine!AppendNeeds
<1>59. \A e, s : Engine!Grown(e, s) = Grown(e, s)
  BY <1>36, <1>39, <1>58 DEF Grown, Engine!Grown
<1>60. \A l, room, s : Engine!Decided(l, room, s) = Decided(l, room, s)
  BY <1>12, <1>59 DEF Decided, Engine!Decided
<1>61. \A p, len : Engine!CanAppend(p, len) = CanAppend(p, len)
  BY <1>58 DEF CanAppend, Engine!CanAppend
<1>62. \A e, s : Engine!RoomTurn(e, s) = RoomTurn(e, s)
  BY <1>12, <1>19, <1>28, <1>61 DEF RoomTurn, Engine!RoomTurn
<1>63. \A e, s : Engine!MakeRoom(e, s) = MakeRoom(e, s)
  BY <1>62 DEF MakeRoom, Engine!MakeRoom
<1>64. \A l, size : Engine!DecodeTurn(l, size) = DecodeTurn(l, size)
  BY <1>60, <1>63 DEF DecodeTurn, Engine!DecodeTurn
<1>65. \A e, size : Engine!DecodeLoop(e, size) = DecodeLoop(e, size)
  BY <1>64 DEF DecodeLoop, Engine!DecodeLoop
<1>66. \A e, budget, rotate : Engine!ScheduleDecode(e, budget, rotate) =
        ScheduleDecode(e, budget, rotate)
  BY <1>42, <1>57, <1>65 DEF ScheduleDecode, Engine!ScheduleDecode
<1>67. \A e, s : Engine!Completion(e, s) = Completion(e, s)
  BY DEF Completion, Engine!Completion
<1>68. \A e, s : Engine!Released(e, s) = Released(e, s)
  BY <1>16, <1>18 DEF Released, Engine!Released
<1>69. \A e, s, eos : Engine!Ended(e, s, eos) = Ended(e, s, eos)
  BY <1>67, <1>68 DEF Ended, Engine!Ended
<1>70. \A e, s : Engine!Emitted(e, s) = Emitted(e, s)
  BY DEF Emitted, Engine!Emitted
<1>71. \A e, item, eos : Engine!ItemAfter(e, item, eos) =
        ItemAfter(e, item, eos)
  BY <1>69, <1>70 DEF ItemAfter, Engine!ItemAfter
<1>72. \A block, prefix : Engine!ComputeHash(block, prefix) =
        ComputeHash(block, prefix)
  BY DEF ComputeHash, Engine!ComputeHash
<1>73. \A p, toks, table, cached, n :
        Engine!Hashed(p, toks, table, cached, n) =
          Hashed(p, toks, table, cached, n)
  BY DEF Hashed, Engine!Hashed, ComputeHash, Engine!ComputeHash, Root,
         Engine!Root, Block, Engine!Block
<1>74. \A e, item : Engine!Recorded(e, item) = Recorded(e, item)
  BY <1>11, <1>73 DEF Recorded, Engine!Recorded
<1>75. \A e, item, eos : Engine!ItemDone(e, item, eos) = ItemDone(e, item, eos)
  BY <1>71, <1>74 DEF ItemDone, Engine!ItemDone
<1>76. \A e, eos : Engine!AllDone(e, eos) = AllDone(e, eos)
  BY <1>75 DEF AllDone, Engine!AllDone
<1>77. \A e, eos : Engine!Postprocessed(e, eos) = Postprocessed(e, eos)
  BY <1>76 DEF Postprocessed, Engine!Postprocessed
<1>78. \A e : Engine!Selected(e) = Selected(e) BY DEF Selected, Engine!Selected
<1> QED BY <1>42, <1>21, <1>78, <1>31, <1>55, <1>66, <1>77
---------------------------------------------------------------------------
(* The steps of the engine: StaticScheduler for the admitted requests.     *)

LEMMA OutcomeFields ==
  \A e, tokens, steps :
    LET r == Engine!Outcome(e, tokens, steps)
    IN  r.st = e /\ r.tokens = tokens /\ r.steps = steps
BY DEF Engine!Outcome

(* What schedule() decides: how the engine came there, and a new count.    *)
Fine(r, e, A) == Advances(e, r.st, A) /\ r.tokens \in Nat

LEMMA DecidedFine ==
  ASSUME EngineOK, NEW A, NEW e, Advances(st, e, A), NEW counted \in BOOLEAN
  PROVE  /\ Fine(Engine!Prefilled(e), st, A)
         /\ Fine(Engine!Decoding(e, counted), st, A)
         /\ Fine(Engine!AfterLastPrefill(e), st, A)
<1>1. Len(e.batch) \in Nat BY LenProperties DEF Advances, Good, BatchOK
<1>2. fb.tokens \in Nat /\ fb.tokens + Len(e.batch) \in Nat /\ 0 \in Nat
  BY <1>1 DEF EngineOK
<1>3. Fine(Engine!Prefilled(e), st, A)
  BY <1>2, OutcomeFields DEF Fine, Engine!Prefilled
<1>4. Fine(Engine!Decoding(e, counted), st, A)
  BY <1>2, OutcomeFields DEF Fine, Engine!Decoding
<1>5. Fine(Engine!Outcome(e, fb.tokens, fb.steps), st, A)
  BY <1>2, OutcomeFields DEF Fine
<1>6. Fine(Engine!AfterLastPrefill(e), st, A)
  BY <1>3, <1>5 DEF Engine!AfterLastPrefill
<1> QED BY <1>3, <1>4, <1>6

LEMMA FirstDecodeAdvances ==
  ASSUME EngineOK, NEW A, Ready(st, A)
  PROVE  Advances(st, Engine!FirstDecode, A)
<1>1. /\ fb.tokens \in Nat /\ DecodeBudget \in Nat /\ MaxNumSeqs \in Nat
      /\ TRUE \in BOOLEAN
  BY AdmissionAssumption, CoreAssumption DEF EngineOK
<1>2. Advances(st, st, A) BY ReadyGood
<1>3. Advances(st, Engine!ScheduleDecode(st, DecodeBudget, TRUE), A)
  BY <1>1, DecodeAdvances, EngineIsCore
<1> DEFINE size == Engine!SmallerOf(MaxNumSeqs, Engine!TokensLeft)
<1>4. ASSUME Engine!TokensLeft > 0
      PROVE  Advances(st, Engine!ScheduleDecode(st, size, TRUE), A)
  <2>1. size \in Nat
    BY <1>1, <1>4, EngineIsCore DEF Engine!TokensLeft, SmallerOf
  <2> HIDE DEF size
  <2> QED BY <1>1, <2>1, DecodeAdvances, EngineIsCore
<1>5. Advances(st, Engine!FreeKvForWaitingHead(st), A)
  BY FreeAdvances, EngineIsCore
<1> QED BY <1>2, <1>3, <1>4, <1>5 DEF Engine!FirstDecode

LEMMA ScheduleImplFine ==
  ASSUME EngineOK, NEW A, Ready(st, A)
  PROVE  Fine(Engine!ScheduleImpl, st, A)
<1>1. MaxBatched \in Nat /\ MaxBatched <= MaxBatched BY CoreAssumption
<1>2. ASSUME NEW e, Advances(st, e, A), e.batch = << >>
      PROVE  Advances(st, Engine!SchedulePrefill(e, MaxBatched), A)
  <2>1. Ready(e, A) BY <1>2, AdvancesOn
  <2>2. Advances(e, SchedulePrefill(e, MaxBatched), A)
    BY <1>1, <2>1, PrefillAdvances
  <2> QED BY <1>2, <2>2, AdvancesOn, EngineIsCore
<1>3. ASSUME NEW e, Advances(st, e, A) PROVE Fine(Engine!AfterFallback(e), st, A)
  <2>1. (Engine!Rotate /\ e.waiting # << >>) \in BOOLEAN OBVIOUS
  <2>2. Fine(Engine!Counted(e), st, A)
    BY <2>1, <1>3, DecidedFine DEF Engine!Counted
  <2>3. TRUE \in BOOLEAN OBVIOUS
  <2> QED BY <2>2, <2>3, <1>2, <1>3, DecidedFine DEF Engine!AfterFallback
<1>4. ASSUME NEW e, Advances(st, e, A) PROVE Fine(Engine!AfterFirstPrefill(e), st, A)
  <2>1. CASE e.batch # << >>
    <3>1. TRUE \in BOOLEAN OBVIOUS
    <3> QED BY <2>1, <3>1, <1>4, DecidedFine DEF Engine!AfterFirstPrefill
  <2>2. CASE e.batch = << >>
    <3> DEFINE d == Engine!ScheduleDecode(e, Engine!FallbackBudget(e), Engine!Rotate)
    <3>1. Ready(e, A) BY <2>2, <1>4, AdvancesOn
    <3>2. Engine!FallbackBudget(e) \in Nat
      <4>1. fb.tokens \in Nat /\ DecodeBudget \in Nat /\ MaxNumSeqs \in Nat
        BY AdmissionAssumption, CoreAssumption DEF EngineOK
      <4> QED BY <4>1, EngineIsCore
              DEF Engine!FallbackBudget, Engine!TokensLeft, LargerOf
    <3>3. Engine!Rotate \in BOOLEAN BY DEF Engine!Rotate
    <3>4. Advances(e, d, A) BY <3>1, <3>2, <3>3, DecodeAdvances, EngineIsCore
    <3> HIDE DEF d
    <3>5. Fine(Engine!AfterFallback(d), st, A) BY <3>4, <1>3, <1>4, AdvancesOn
    <3> QED BY <2>2, <3>5 DEF Engine!AfterFirstPrefill, d
  <2> QED BY <2>1, <2>2
<1>5. ASSUME NEW e, Advances(st, e, A) PROVE Fine(Engine!AfterFirstDecode(e), st, A)
  <2>1. (st.waiting # << >>) \in BOOLEAN OBVIOUS
  <2>2. Fine(Engine!Decoding(e, st.waiting # << >>), st, A)
    BY <2>1, <1>5, DecidedFine
  <2> QED BY <2>2, <1>2, <1>4, <1>5 DEF Engine!AfterFirstDecode
<1> QED BY <1>5, FirstDecodeAdvances DEF Engine!ScheduleImpl
---------------------------------------------------------------------------
(* The loop keeps its books.                                               *)

LEMMA GoodWork ==
  ASSUME NEW e, NEW A, Good(e, A)
  PROVE  /\ A \subseteq SeqIds /\ e.finished \subseteq A
         /\ Elems(e.waiting \o e.running) = A \ e.finished
         /\ e.batch = << >> => Ready(e, A)
<1>1. /\ e.waiting \in Seq(SeqIds) /\ e.running \in Seq(SeqIds)
      /\ Distinct(e.waiting) /\ Distinct(e.running)
      /\ Elems(e.waiting) \cap Elems(e.running) = {} /\ Held(e, {}) = Elems(e.running)
  BY DEF Good, EInv, Queues, Held
<1>2. Elems(e.waiting \o e.running) = Elems(e.waiting) \union Elems(e.running)
  BY <1>1, ConcatDistinct
<1> QED BY <1>1, <1>2 DEF Good, Ready, EInv, Queues

LEMMA InitInv == Init => AdmissionInv
<1> SUFFICES ASSUME Init PROVE AdmissionInv
  OBVIOUS
<1>1. PICK config \in Configs, kind \in [SeqIds -> Kinds] : st = Fresh(config, kind)
  BY DEF Init
<1>2. /\ policy \in AdmissionPolicies /\ fb = Engine!NoFeedback /\ arrived = 0
      /\ queue = << >> /\ reserved = << >> /\ admitted = {} /\ loop = "top"
      /\ terminal = [r \in SeqIds |-> None]
  BY DEF Init
<1>3. /\ << >> \in Seq(SeqIds) /\ Distinct(<< >>) /\ Elems(<< >>) = {}
      /\ DOMAIN << >> = {} /\ << >> = [r \in DOMAIN << >> |-> << >>[r]]
  BY EmptyQueue DEF Elems
<1>4. Ready(st, admitted) BY <1>1, <1>2, FreshFacts
<1>5. Good(st, admitted) /\ st.batch = << >>
  BY <1>4, ReadyGood DEF Advances, Ready
<1>6. QueueOK BY <1>2, <1>3, CoreAssumption DEF QueueOK
<1>7. RecordsOK BY <1>2, <1>3 DEF RecordsOK
<1>8. Unfinished = {} BY <1>2 DEF Unfinished
<1>9. ReservationsOK BY <1>2, <1>3, <1>8 DEF ReservationsOK
<1>10. EngineOK
  <2>1. st.policy = config.policy BY <1>1 DEF Fresh
  <2>2. {"tokens", "steps"} \subseteq DOMAIN fb /\ fb.tokens \in Nat
    BY <1>2 DEF Engine!NoFeedback
  <2> QED BY <1>5, <2>1, <2>2 DEF EngineOK
<1> QED BY <1>2, <1>6, <1>7, <1>9, <1>10 DEF AdmissionInv

(* Requests arrive in the order of their numbers.                          *)
LEMMA TurnInv ==
  ASSUME AdmissionInv, Turn
  PROVE  AdmissionInv'
<1>1. PICK n \in arrived..NumSeqs :
        arrived' = n /\ queue' = queue \o [i \in 1..(n - arrived) |-> arrived + i]
  BY DEF Turn
<1> DEFINE new == [i \in 1..(n - arrived) |-> arrived + i]
<1>2. /\ loop = "top" /\ loop' = "admit" /\ policy' = policy /\ st' = st /\ fb' = fb
      /\ failed' = failed /\ reserved' = reserved /\ admitted' = admitted
      /\ terminal' = terminal
  BY DEF Turn, engine, books
<1>3. /\ arrived \in Nat /\ n \in Nat /\ NumSeqs \in Nat /\ arrived <= n /\ n <= NumSeqs
      /\ SeqIds = 1..NumSeqs /\ QueueOK
  BY <1>1, CoreAssumption DEF AdmissionInv, QueueOK, SeqIds
<1>4. /\ new \in Seq(SeqIds) /\ Len(new) = n - arrived
      /\ \A i \in 1..Len(new) : new[i] = arrived + i
  BY <1>3
<1>12. queue' = queue \o new BY <1>1
<1> HIDE DEF new
<1>5. Distinct(new) BY <1>3, <1>4 DEF Distinct
<1>6. Elems(new) = (arrived + 1)..n
  <2>1. Elems(new) = {new[i] : i \in 1..Len(new)} BY <1>4, LenProperties DEF Elems
  <2>2. ASSUME NEW x \in (arrived + 1)..n PROVE x \in Elems(new)
    <3>1. x - arrived \in 1..Len(new) /\ new[x - arrived] = x BY <1>3, <1>4, <2>2
    <3> QED BY <2>1, <3>1
  <2>3. ASSUME NEW i \in 1..Len(new) PROVE new[i] \in (arrived + 1)..n
    BY <1>3, <1>4
  <2> QED BY <2>1, <2>2, <2>3
<1>7. /\ queue' \in Seq(SeqIds) /\ Distinct(queue')
      /\ Elems(queue') = Elems(queue) \union Elems(new)
  <2>1. Elems(queue) \cap Elems(new) = {}
    <3>1. Elems(queue) \subseteq 1..arrived BY <1>3 DEF QueueOK
    <3> QED BY <1>3, <1>6, <3>1
  <2> QED BY <1>3, <1>4, <1>5, <1>12, <2>1, ConcatDistinct DEF QueueOK
<1>8. QueueOK'
  <2>1. Elems(queue) \subseteq 1..arrived /\ admitted \subseteq 1..arrived
    BY <1>3 DEF QueueOK
  <2>2. 1..arrived \subseteq 1..n /\ (arrived + 1)..n \subseteq 1..n
        /\ ((arrived + 1)..n) \cap (1..arrived) = {} /\ n \in 0..NumSeqs
    BY <1>3
  <2> QED BY <1>1, <1>2, <1>3, <1>6, <1>7, <2>1, <2>2 DEF QueueOK
<1>9. RecordsOK'
  <2>1. \A r \in SeqIds : r > n \/ r \in Elems(queue') =>
                          r > arrived \/ r \in Elems(queue)
    BY <1>3, <1>6, <1>7
  <2> QED BY <1>1, <1>2, <2>1 DEF AdmissionInv, RecordsOK, Open
<1>10. ReservationsOK'
  BY <1>2 DEF AdmissionInv, ReservationsOK, Open, Enabled, Unfinished
<1>11. EngineOK' BY <1>2 DEF AdmissionInv, EngineOK, Open
<1> QED BY <1>2, <1>8, <1>9, <1>10, <1>11 DEF AdmissionInv

(* The queue without its head.                                             *)
LEMMA HeadLeaves ==
  ASSUME QueueOK, queue # << >>, NEW r, r = Head(queue)
  PROVE  /\ r \in SeqIds /\ r \in Elems(queue) /\ r \in 1..arrived /\ r \notin admitted
         /\ Tail(queue) \in Seq(SeqIds) /\ Distinct(Tail(queue))
         /\ Elems(Tail(queue)) = Elems(queue) \ {r}
<1>1. queue \in Seq(SeqIds) /\ Distinct(queue) BY DEF QueueOK
<1>2. /\ r \in SeqIds /\ r \in Elems(queue)
      /\ Tail(queue) \in Seq(SeqIds) /\ Distinct(Tail(queue))
      /\ Elems(Tail(queue)) = Elems(queue) \ {r}
  BY <1>1, HeadTail
<1> QED BY <1>2 DEF QueueOK

LEMMA RejectInv ==
  ASSUME AdmissionInv, loop = "admit", queue # << >>, Reject(Head(queue))
  PROVE  AdmissionInv'
<1> DEFINE r == Head(queue)
<1>1. /\ queue' = Tail(queue) /\ terminal' = [terminal EXCEPT ![r] = "Rejected"]
      /\ st' = st /\ fb' = fb /\ failed' = failed /\ policy' = policy
      /\ arrived' = arrived /\ reserved' = reserved /\ admitted' = admitted
      /\ loop' = loop
  BY DEF Reject, engine
<1>2. QueueOK BY DEF AdmissionInv
<1>3. /\ r \in SeqIds /\ r \in Elems(queue) /\ r \in 1..arrived /\ r \notin admitted
      /\ Tail(queue) \in Seq(SeqIds) /\ Distinct(Tail(queue))
      /\ Elems(Tail(queue)) = Elems(queue) \ {r}
  BY <1>2, HeadLeaves
<1> HIDE DEF r
<1>4. QueueOK' BY <1>1, <1>2, <1>3 DEF QueueOK
<1>5. RecordsOK'
  <2>1. terminal \in [SeqIds -> TerminalStates \union {None}] BY DEF AdmissionInv, RecordsOK
  <2>2. /\ terminal' \in [SeqIds -> TerminalStates \union {None}]
        /\ \A q \in SeqIds : q # r => terminal'[q] = terminal[q]
    BY <1>1, <1>3, <2>1 DEF TerminalStates
  <2>3. ~ (r > arrived) /\ arrived \in Nat BY <1>2, <1>3, CoreAssumption DEF QueueOK
  <2>4. admitted \subseteq SeqIds
    BY <1>2, CoreAssumption DEF QueueOK, SeqIds
  <2>5. loop = "admit" /\ loop' = "admit" BY <1>1
  <2>6. \A q \in SeqIds : q > arrived \/ q \in Elems(queue') => terminal'[q] = None
    <3>1. \A q \in SeqIds : q > arrived \/ q \in Elems(queue) => terminal[q] = None
      BY DEF AdmissionInv, RecordsOK, Open
    <3> QED BY <1>1, <1>3, <2>2, <2>3, <3>1
  <2>7. \A q \in admitted : terminal'[q] = None <=> q \notin st.finished
    <3>1. \A q \in admitted : terminal[q] = None <=> q \notin st.finished
      BY DEF AdmissionInv, RecordsOK, Open
    <3> QED BY <1>3, <2>2, <2>4, <3>1
  <2> QED BY <1>1, <2>2, <2>5, <2>6, <2>7 DEF RecordsOK
<1>6. ReservationsOK'
  BY <1>1 DEF AdmissionInv, ReservationsOK, Open, Enabled, Unfinished
<1>7. EngineOK' BY <1>1 DEF AdmissionInv, EngineOK, Open
<1> QED BY <1>1, <1>4, <1>5, <1>6, <1>7 DEF AdmissionInv

(* The head of the queue is admitted, whether or not the engine takes it.  *)
LEMMA AdmittingQueue ==
  ASSUME AdmissionInv, Admitting, NEW r, r = Head(queue)
  PROVE  /\ r \in SeqIds /\ r \in Elems(queue) /\ r \in 1..arrived /\ r \notin admitted
         /\ admitted' = admitted \union {r} /\ terminal[r] = None
         /\ loop = "admit" /\ policy' = policy /\ arrived' = arrived
         /\ terminal' = terminal /\ failed' = failed
         /\ QueueOK'
<1>1. /\ loop = "admit" /\ queue # << >> /\ queue' = Tail(queue)
      /\ admitted' = admitted \union {r} /\ policy' = policy /\ arrived' = arrived
      /\ terminal' = terminal /\ failed' = failed
  BY DEF Admitting
<1>2. QueueOK BY DEF AdmissionInv
<1>3. /\ r \in SeqIds /\ r \in Elems(queue) /\ r \in 1..arrived /\ r \notin admitted
      /\ Tail(queue) \in Seq(SeqIds) /\ Distinct(Tail(queue))
      /\ Elems(Tail(queue)) = Elems(queue) \ {r}
  BY <1>1, <1>2, HeadLeaves
<1>4. QueueOK' BY <1>1, <1>2, <1>3 DEF QueueOK
<1>5. terminal[r] = None BY <1>1, <1>3 DEF AdmissionInv, RecordsOK, Open
<1> QED BY <1>1, <1>3, <1>4, <1>5

LEMMA AdmitInv ==
  ASSUME AdmissionInv, Admit
  PROVE  AdmissionInv'
<1> DEFINE r == Head(queue)
<1>1. /\ Admitting /\ reserved' = Reserve(r) /\ st' = Added(st, r) /\ loop' = loop
      /\ \/ fb' = [fb EXCEPT !.tokens = 0, !.steps = 0]
         \/ fb' = fb
  BY DEF Admit
<1>2. /\ r \in SeqIds /\ r \in Elems(queue) /\ r \in 1..arrived /\ r \notin admitted
      /\ admitted' = admitted \union {r} /\ terminal[r] = None
      /\ loop = "admit" /\ policy' = policy /\ arrived' = arrived
      /\ terminal' = terminal /\ failed' = failed
      /\ QueueOK'
  BY <1>1, AdmittingQueue
<1> HIDE DEF r
<1>3. Good(st, admitted) /\ st.batch = << >>
  BY <1>2 DEF AdmissionInv, EngineOK, Open
<1>4. Ready(st, admitted) /\ st.finished \subseteq admitted
  BY <1>3, GoodWork
<1>5. Ready(st', admitted') BY <1>1, <1>2, <1>4, AddedFacts
<1>6. Good(st', admitted') /\ st'.batch = << >>
  BY <1>5, ReadyGood DEF Advances, Ready
<1>7. st'.finished = st.finished /\ st'.policy = st.policy
  <2>1. DOMAIN st = EngineFields BY <1>4 DEF Ready, EInv, Setup
  <2> QED BY <1>1, <2>1 DEF Added, EngineFields
<1>8. RecordsOK'
  <2>1. loop' = "admit" BY <1>1, <1>2
  <2>2. terminal' \in [SeqIds -> TerminalStates \union {None}]
    BY <1>2 DEF AdmissionInv, RecordsOK
  <2>3. \A q \in SeqIds : q > arrived \/ q \in Elems(queue') => terminal'[q] = None
    <3>1. \A q \in SeqIds : q > arrived \/ q \in Elems(queue) => terminal[q] = None
      BY <1>2 DEF AdmissionInv, RecordsOK, Open
    <3>2. Elems(queue') \subseteq Elems(queue)
      <4>1. QueueOK /\ queue # << >> /\ queue' = Tail(queue)
        BY <1>1 DEF AdmissionInv, Admitting
      <4> QED BY <4>1, HeadLeaves
    <3> QED BY <1>2, <3>1, <3>2
  <2>4. \A q \in admitted' : terminal'[q] = None <=> q \notin st'.finished
    <3>1. \A q \in admitted : terminal[q] = None <=> q \notin st.finished
      BY <1>2 DEF AdmissionInv, RecordsOK, Open
    <3> QED BY <1>2, <1>4, <1>7, <3>1
  <2> QED BY <1>2, <2>1, <2>2, <2>3, <2>4 DEF RecordsOK
<1>9. ReservationsOK'
  <2>1. ReservationsOK /\ (Enabled' <=> Enabled) /\ loop' = "admit"
    BY <1>1, <1>2 DEF AdmissionInv, Enabled
  <2>2. CASE ~ Enabled
    <3>1. reserved' = reserved BY <1>1, <2>2 DEF Reserve
    <3> QED BY <2>1, <2>2, <3>1 DEF ReservationsOK
  <2>3. CASE Enabled
    <3>1. reserved' = [q \in DOMAIN reserved \union {r} |->
                         IF q = r THEN ReservationBlocks(r) ELSE reserved[q]]
      BY <1>1, <2>3 DEF Reserve
    <3>2. DOMAIN reserved' = DOMAIN reserved \union {r}
          /\ reserved' = [q \in DOMAIN reserved' |-> reserved'[q]]
      BY <3>1
    <3>3. DOMAIN reserved = Unfinished
      BY <1>2, <2>1, <2>3 DEF ReservationsOK, Open
    <3>4. DOMAIN reserved' = Unfinished'
      BY <1>2, <1>4, <1>7, <3>2, <3>3 DEF Unfinished
    <3> QED BY <2>1, <2>3, <3>2, <3>4 DEF ReservationsOK
  <2> QED BY <2>2, <2>3
<1>10. EngineOK'
  <2>1. {"tokens", "steps"} \subseteq DOMAIN fb' /\ fb'.tokens \in Nat
    <3>1. {"tokens", "steps"} \subseteq DOMAIN fb /\ fb.tokens \in Nat
      BY DEF AdmissionInv, EngineOK
    <3>2. CASE fb' = fb BY <3>1, <3>2
    <3>3. CASE fb' = [fb EXCEPT !.tokens = 0, !.steps = 0]
      <4>1. DOMAIN fb' = DOMAIN fb /\ fb'.tokens = 0 BY <3>1, <3>3
      <4> QED BY <3>1, <4>1
    <3> QED BY <1>1, <3>2, <3>3
  <2>2. \E config \in Configs : st'.policy = config.policy
    BY <1>7 DEF AdmissionInv, EngineOK
  <2> QED BY <1>6, <2>1, <2>2 DEF EngineOK
<1> QED BY <1>1, <1>2, <1>8, <1>9, <1>10 DEF AdmissionInv

LEMMA AdmitFailsInv ==
  ASSUME AdmissionInv, AdmitFails
  PROVE  AdmissionInv'
<1> DEFINE r == Head(queue)
<1>1. /\ Admitting /\ reserved' = reserved /\ st' = st /\ loop' = "raised"
      /\ fb' = fb
  BY DEF AdmitFails
<1>2. /\ QueueOK' /\ policy' = policy /\ terminal' = terminal /\ loop = "admit"
  BY <1>1, AdmittingQueue
<1> HIDE DEF r
<1>3. RecordsOK' BY <1>1, <1>2 DEF AdmissionInv, RecordsOK, Open
<1>4. ReservationsOK'
  BY <1>1, <1>2 DEF AdmissionInv, ReservationsOK, Open, Enabled
<1>5. EngineOK' BY <1>1 DEF AdmissionInv, EngineOK, Open
<1> QED BY <1>1, <1>2, <1>3, <1>4, <1>5 DEF AdmissionInv

LEMMA IdleInv ==
  ASSUME AdmissionInv, Idle
  PROVE  AdmissionInv'
<1>1. /\ loop = "admit" /\ loop' = "top" /\ policy' = policy /\ st' = st /\ fb' = fb
      /\ failed' = failed /\ reserved' = reserved /\ admitted' = admitted
      /\ terminal' = terminal /\ arrived' = arrived /\ queue' = queue
  BY DEF Idle, engine, books
<1>2. QueueOK' BY <1>1 DEF AdmissionInv, QueueOK
<1>3. RecordsOK' BY <1>1 DEF AdmissionInv, RecordsOK, Open
<1>4. ReservationsOK'
  BY <1>1 DEF AdmissionInv, ReservationsOK, Open, Enabled, Unfinished
<1>5. EngineOK' BY <1>1 DEF AdmissionInv, EngineOK, Open
<1> QED BY <1>1, <1>2, <1>3, <1>4, <1>5 DEF AdmissionInv

(* What schedule() does to the loop's state.                               *)
LEMMA StepTakes ==
  ASSUME AdmissionInv, Step
  PROVE  /\ loop = "admit" /\ Ready(st, admitted) /\ Fine(Engine!ScheduleImpl, st, admitted)
         /\ st' = Engine!ScheduleImpl.st
         /\ failed' = (Engine!ScheduleImpl.st.batch = << >>)
         /\ fb' = [fb EXCEPT !.tokens = Engine!ScheduleImpl.tokens,
                             !.steps = Engine!ScheduleImpl.steps]
         /\ loop' = IF failed' THEN "raised" ELSE "model"
         /\ policy' = policy /\ arrived' = arrived /\ queue' = queue
         /\ reserved' = reserved /\ admitted' = admitted /\ terminal' = terminal
<1>1. /\ loop = "admit" /\ policy' = policy /\ arrived' = arrived /\ queue' = queue
      /\ reserved' = reserved /\ admitted' = admitted /\ terminal' = terminal
      /\ loop' = IF failed' THEN "raised" ELSE "model"
  BY DEF Step, books
<1>2. /\ st' = Engine!ScheduleImpl.st
      /\ failed' = (Engine!ScheduleImpl.st.batch = << >>)
      /\ fb' = [fb EXCEPT !.tokens = Engine!ScheduleImpl.tokens,
                          !.steps = Engine!ScheduleImpl.steps]
  BY DEF Step, Engine!StaticSchedule, Engine!Takes
<1>3. Ready(st, admitted) BY <1>1, GoodWork DEF AdmissionInv, EngineOK, Open
<1>4. EngineOK BY DEF AdmissionInv
<1> QED BY <1>1, <1>2, <1>3, <1>4, ScheduleImplFine

LEMMA StepInv ==
  ASSUME AdmissionInv, Step
  PROVE  AdmissionInv'
<1> DEFINE r == Engine!ScheduleImpl
<1>1. /\ loop = "admit" /\ Fine(r, st, admitted) /\ st' = r.st
      /\ fb' = [fb EXCEPT !.tokens = r.tokens, !.steps = r.steps]
      /\ loop' \in {"raised", "model"}
      /\ policy' = policy /\ arrived' = arrived /\ queue' = queue
      /\ reserved' = reserved /\ admitted' = admitted /\ terminal' = terminal
  BY StepTakes
<1> HIDE DEF r
<1>2. /\ Good(st', admitted') /\ st'.finished = st.finished
      /\ st'.policy = st.policy /\ r.tokens \in Nat
  BY <1>1 DEF Fine, Advances, SameBooks
<1>3. QueueOK' BY <1>1 DEF AdmissionInv, QueueOK
<1>4. RecordsOK' BY <1>1, <1>2 DEF AdmissionInv, RecordsOK, Open
<1>5. ReservationsOK'
  BY <1>1, <1>2 DEF AdmissionInv, ReservationsOK, Open, Enabled, Unfinished
<1>6. EngineOK'
  <2>1. {"tokens", "steps"} \subseteq DOMAIN fb BY DEF AdmissionInv, EngineOK
  <2>2. {"tokens", "steps"} \subseteq DOMAIN fb' /\ fb'.tokens \in Nat
    BY <1>1, <1>2, <2>1
  <2>3. \E config \in Configs : st'.policy = config.policy
    BY <1>2 DEF AdmissionInv, EngineOK
  <2> QED BY <1>1, <1>2, <2>2, <2>3 DEF EngineOK, Open
<1> QED BY <1>1, <1>3, <1>4, <1>5, <1>6 DEF AdmissionInv

(* What the events of a step do to the loop's state.                       *)
LEMMA ResultsTake ==
  ASSUME AdmissionInv, Results
  PROVE  /\ loop = "model" /\ Good(st, admitted) /\ Served(st, st', admitted)
         /\ reserved' = ReleasedFor(st'.finished \ st.finished)
         /\ terminal' = [r \in SeqIds |-> IF r \in st'.finished \ st.finished
                                          THEN "Finished" ELSE terminal[r]]
         /\ loop' = IF Enabled /\ ~ (st'.finished \ st.finished \subseteq DOMAIN reserved)
                    THEN "raised" ELSE "top"
         /\ policy' = policy /\ arrived' = arrived /\ queue' = queue
         /\ admitted' = admitted /\ failed' = failed
         /\ fb' = [fb EXCEPT !.watch = fb.watch \ Selected(st)]
<1>1. /\ loop = "model" /\ policy' = policy /\ arrived' = arrived /\ queue' = queue
      /\ admitted' = admitted
      /\ reserved' = ReleasedFor(st'.finished \ st.finished)
      /\ terminal' = [r \in SeqIds |-> IF r \in st'.finished \ st.finished
                                       THEN "Finished" ELSE terminal[r]]
      /\ loop' = IF Enabled /\ ~ (st'.finished \ st.finished \subseteq DOMAIN reserved)
                 THEN "raised" ELSE "top"
  BY DEF Results
<1>2. /\ \E eos : st' = Engine!Postprocessed(st, eos)
      /\ fb' = [fb EXCEPT !.watch = fb.watch \ Engine!Selected(st)]
      /\ failed' = failed
  BY DEF Results, Engine!Postprocess
<1>3. PICK eos : st' = Postprocessed(st, eos) BY <1>2, EngineIsCore
<1>4. Good(st, admitted) BY <1>1 DEF AdmissionInv, EngineOK, Open
<1>5. Served(st, st', admitted) BY <1>3, <1>4, PostprocessedFacts DEF Good
<1> QED BY <1>1, <1>2, <1>4, <1>5, EngineIsCore

LEMMA ResultsInv ==
  ASSUME AdmissionInv, Results
  PROVE  AdmissionInv'
<1> DEFINE done == st'.finished \ st.finished
<1>1. /\ loop = "model" /\ Good(st, admitted) /\ Served(st, st', admitted)
      /\ reserved' = ReleasedFor(done)
      /\ terminal' = [r \in SeqIds |-> IF r \in done THEN "Finished" ELSE terminal[r]]
      /\ loop' = IF Enabled /\ ~ (done \subseteq DOMAIN reserved) THEN "raised" ELSE "top"
      /\ policy' = policy /\ arrived' = arrived /\ queue' = queue
      /\ admitted' = admitted
      /\ fb' = [fb EXCEPT !.watch = fb.watch \ Selected(st)]
  BY ResultsTake
<1>2. /\ Good(st', admitted') /\ st'.batch = << >> /\ st'.policy = st.policy
      /\ \A r \in SeqIds : Emits(st, st', r)
  <2>1. Ready(st', admitted) BY <1>1 DEF Served
  <2> QED BY <1>1, <2>1, ReadyGood DEF Served, Advances, Ready, SameLimits
<1>3. /\ admitted \subseteq SeqIds /\ st.finished \subseteq st'.finished
      /\ st'.finished \subseteq admitted /\ done \subseteq Unfinished
      /\ Unfinished' = Unfinished \ done
  <2>1. admitted \subseteq SeqIds /\ st.finished \subseteq admitted
        /\ st'.finished \subseteq admitted
    BY <1>1, <1>2, GoodWork
  <2>2. \A r \in SeqIds : r \in st.finished => r \in st'.finished
    BY <1>2 DEF Emits
  <2>3. st.finished \subseteq st'.finished BY <2>1, <2>2
  <2>4. done \subseteq Unfinished BY <2>1 DEF Unfinished
  <2>5. Unfinished' = Unfinished \ done BY <1>1, <2>3 DEF Unfinished
  <2> QED BY <2>1, <2>3, <2>4, <2>5
<1>4. QueueOK' BY <1>1 DEF AdmissionInv, QueueOK
<1>5. RecordsOK'
  <2>1. terminal \in [SeqIds -> TerminalStates \union {None}]
    BY DEF AdmissionInv, RecordsOK
  <2>2. terminal' \in [SeqIds -> TerminalStates \union {None}]
    BY <1>1, <2>1 DEF TerminalStates
  <2>3. \A r \in SeqIds : r > arrived \/ r \in Elems(queue) => terminal'[r] = None
    <3>1. \A r \in SeqIds : r > arrived \/ r \in Elems(queue) => terminal[r] = None
      BY <1>1 DEF AdmissionInv, RecordsOK, Open
    <3>2. \A r \in SeqIds : r > arrived \/ r \in Elems(queue) => r \notin admitted
      <4>1. /\ arrived \in Nat /\ admitted \subseteq 1..arrived
            /\ Elems(queue) \cap admitted = {} /\ SeqIds \subseteq Nat
        BY CoreAssumption DEF AdmissionInv, QueueOK, SeqIds
      <4>2. \A r \in Nat : r > arrived => r \notin 1..arrived BY <4>1
      <4> QED BY <4>1, <4>2
    <3>3. \A r \in done : r \in admitted BY <1>3
    <3> HIDE DEF done
    <3> QED BY <1>1, <3>1, <3>2, <3>3
  <2>4. \A r \in admitted : terminal'[r] = None <=> r \notin st'.finished
    <3>1. \A r \in admitted : terminal[r] = None <=> r \notin st.finished
      BY <1>1 DEF AdmissionInv, RecordsOK, Open
    <3>2. "Finished" # None BY DEF None
    <3> QED BY <1>1, <1>3, <3>1, <3>2
  <2>5. loop' \in {"raised", "top"} BY <1>1
  <2> QED BY <1>1, <2>2, <2>3, <2>4, <2>5 DEF RecordsOK
<1>6. ReservationsOK'
  <2>1. /\ reserved' = [q \in DOMAIN reserved \ done |-> reserved[q]]
        /\ (Enabled' <=> Enabled) /\ ReservationsOK
    BY <1>1 DEF ReleasedFor, AdmissionInv, Enabled
  <2>2. /\ DOMAIN reserved' = DOMAIN reserved \ done
        /\ reserved' = [q \in DOMAIN reserved' |-> reserved'[q]]
    BY <2>1
  <2>3. ~ Enabled => reserved' = << >>
    <3>1. ASSUME ~ Enabled PROVE reserved' = << >>
      <4>1. reserved = << >> BY <2>1, <3>1 DEF ReservationsOK
      <4>2. DOMAIN reserved = {} BY <4>1
      <4>3. reserved' = [q \in {} |-> reserved[q]] BY <2>1, <4>2
      <4>4. reserved = [q \in {} |-> reserved[q]]
        BY <2>1, <4>2 DEF ReservationsOK
      <4> QED BY <4>1, <4>3, <4>4
    <3> QED BY <3>1
  <2>4. Enabled => DOMAIN reserved' = Unfinished'
    BY <1>1, <1>3, <2>1, <2>2 DEF ReservationsOK, Open
  <2>5. loop' # "closed" BY <1>1
  <2> HIDE DEF done
  <2> QED BY <2>1, <2>2, <2>3, <2>4, <2>5 DEF ReservationsOK
<1>7. EngineOK'
  <2>1. /\ {"tokens", "steps"} \subseteq DOMAIN fb' /\ fb'.tokens \in Nat
        /\ \E config \in Configs : st'.policy = config.policy
    BY <1>1, <1>2 DEF AdmissionInv, EngineOK
  <2> QED BY <1>2, <2>1 DEF EngineOK
<1>8. loop' \in {"top", "admit", "model", "raised", "closed"} BY <1>1
<1> QED BY <1>1, <1>4, <1>5, <1>6, <1>7, <1>8 DEF AdmissionInv

LEMMA CloseInv ==
  ASSUME AdmissionInv, Close
  PROVE  AdmissionInv'
<1>1. /\ loop' = "closed" /\ policy' = policy /\ st' = st /\ fb' = fb
      /\ failed' = failed /\ admitted' = admitted /\ arrived' = arrived
      /\ queue' = queue /\ loop \in {"top", "raised"}
      /\ reserved' = IF loop = "raised" \/ \E r \in SeqIds : terminal[r] = None
                     THEN << >> ELSE reserved
      /\ terminal' = [r \in SeqIds |-> IF terminal[r] = None THEN Unserved(r)
                                       ELSE terminal[r]]
  BY DEF Close, engine
<1>2. QueueOK' BY <1>1 DEF AdmissionInv, QueueOK
<1>3. \A r \in SeqIds : terminal'[r] \in TerminalStates
  <2>1. \A r \in SeqIds : terminal[r] \in TerminalStates \union {None}
    BY DEF AdmissionInv, RecordsOK
  <2>2. \A r \in SeqIds : Unserved(r) \in TerminalStates
    BY DEF Unserved, TerminalStates
  <2> QED BY <1>1, <2>1, <2>2
<1>4. RecordsOK' BY <1>1, <1>3 DEF RecordsOK, Open
<1>5. reserved' = << >>
  <2>1. CASE loop = "raised" \/ \E r \in SeqIds : terminal[r] = None
    BY <1>1, <2>1
  <2>2. CASE loop # "raised" /\ \A r \in SeqIds : terminal[r] # None
    <3>1. reserved' = reserved /\ loop = "top" BY <1>1, <2>2
    <3>2. admitted \subseteq SeqIds BY CoreAssumption DEF AdmissionInv, QueueOK, SeqIds
    <3>3. Unfinished = {}
      BY <2>2, <3>1, <3>2 DEF AdmissionInv, RecordsOK, Open, Unfinished
    <3>4. reserved = << >>
      <4>1. CASE ~ Enabled BY <4>1 DEF AdmissionInv, ReservationsOK
      <4>2. CASE Enabled
        <5>1. DOMAIN reserved = {} /\ reserved = [q \in DOMAIN reserved |-> reserved[q]]
          BY <3>1, <3>3, <4>2 DEF AdmissionInv, ReservationsOK, Open
        <5> QED BY <5>1
      <4> QED BY <4>1, <4>2
    <3> QED BY <3>1, <3>4
  <2> QED BY <2>1, <2>2
<1>6. ReservationsOK'
  <2>1. << >> = [r \in DOMAIN << >> |-> << >>[r]] OBVIOUS
  <2> QED BY <1>1, <1>5, <2>1 DEF ReservationsOK, Open
<1>7. EngineOK' BY <1>1 DEF AdmissionInv, EngineOK, Open
<1> QED BY <1>1, <1>2, <1>4, <1>6, <1>7 DEF AdmissionInv

LEMMA NextInv == AdmissionInv /\ [Next]_vars => AdmissionInv'
<1> SUFFICES ASSUME AdmissionInv, [Next]_vars PROVE AdmissionInv'
  OBVIOUS
<1>1. CASE Turn BY <1>1, TurnInv
<1>2. CASE RejectLate BY <1>2, RejectInv DEF RejectLate
<1>3. CASE RejectEarly BY <1>3, RejectInv DEF RejectEarly
<1>4. CASE Admit BY <1>4, AdmitInv
<1>5. CASE AdmitFails BY <1>5, AdmitFailsInv
<1>6. CASE Idle BY <1>6, IdleInv
<1>7. CASE Step BY <1>7, StepInv
<1>8. CASE Results BY <1>8, ResultsInv
<1>9. CASE Close BY <1>9, CloseInv
<1>10. CASE UNCHANGED vars
  BY <1>10 DEF vars, engine, books, AdmissionInv, QueueOK, RecordsOK,
               ReservationsOK, EngineOK, Open, Enabled, Unfinished
<1>11. CASE Closed BY <1>10, <1>11 DEF Closed
<1> QED BY <1>1, <1>2, <1>3, <1>4, <1>5, <1>6, <1>7, <1>8, <1>9, <1>10, <1>11 DEF Next

(* The loop's books agree with the engine in every reachable state.        *)
THEOREM AdmissionInvariant == Spec => []AdmissionInv
BY InitInv, NextInv, PTL DEF Spec

(* Whoever is admitted and not terminal is in the engine's queues and has  *)
(* a reservation, nobody else has, and a closed run leaves none behind.    *)
THEOREM ReservationsStayExact == Spec => []ReservationsExact
<1>1. AdmissionInv => ReservationsExact
  <2> SUFFICES ASSUME AdmissionInv PROVE ReservationsExact
    OBVIOUS
  <2>1. ASSUME loop \notin {"raised", "closed"}
        PROVE  /\ Elems(st.waiting \o st.running) = {r \in admitted : terminal[r] = None}
               /\ Enabled => DOMAIN reserved = {r \in admitted : terminal[r] = None}
    <3>1. Open BY <2>1 DEF AdmissionInv, Open
    <3>2. Unfinished = {r \in admitted : terminal[r] = None}
      BY <3>1 DEF AdmissionInv, RecordsOK, Unfinished
    <3>3. Elems(st.waiting \o st.running) = Unfinished
      BY <3>1, GoodWork DEF AdmissionInv, EngineOK, Unfinished
    <3> QED BY <3>1, <3>2, <3>3 DEF AdmissionInv, ReservationsOK
  <2>2. ASSUME loop = "closed"
        PROVE  reserved = << >> /\ \A r \in SeqIds : terminal[r] \in TerminalStates
    BY <2>2 DEF AdmissionInv, ReservationsOK, RecordsOK
  <2> QED BY <2>1, <2>2 DEF ReservationsExact
<1> QED BY <1>1, AdmissionInvariant, PTL
---------------------------------------------------------------------------
(* Sums of reservations.                                                   *)

LEMMA TotalTurns ==
  ASSUME NEW g
  PROVE  \E f : /\ f[0] = 0 /\ Total(g) = f[NumSeqs]
                /\ \A i \in 1..NumSeqs : f[i] = f[i - 1] + g[i]
<1> DEFINE items == [i \in 1..NumSeqs |-> [n |-> g[i]]]
<1>1. /\ NumSeqs \in Nat /\ Len(items) = NumSeqs
      /\ \A i \in 1..NumSeqs : items[i].n = g[i]
  BY CoreAssumption
<1> HIDE DEF items
<1>2. TokensOf(items) = Total(g)
  <2>1. \A h : [n \in 0..NumSeqs |-> IF n = 0 THEN 0 ELSE h[n - 1] + items[n].n] =
               [n \in 0..NumSeqs |-> IF n = 0 THEN 0 ELSE h[n - 1] + g[n]]
    <3> SUFFICES ASSUME NEW h, NEW k \in 0..NumSeqs, k # 0
                 PROVE  items[k].n = g[k]
      OBVIOUS
    <3> QED BY <1>1
  <2>2. (CHOOSE h : h = [n \in 0..NumSeqs |->
                           IF n = 0 THEN 0 ELSE h[n - 1] + items[n].n]) =
        (CHOOSE h : h = [n \in 0..NumSeqs |-> IF n = 0 THEN 0 ELSE h[n - 1] + g[n]])
    BY <2>1
  <2>3. TokensOf(items) =
          (CHOOSE h : h = [n \in 0..NumSeqs |->
                             IF n = 0 THEN 0 ELSE h[n - 1] + items[n].n])[NumSeqs]
    BY <1>1 DEF TokensOf
  <2>4. Total(g) =
          (CHOOSE h : h = [n \in 0..NumSeqs |->
                             IF n = 0 THEN 0 ELSE h[n - 1] + g[n]])[NumSeqs]
    BY DEF Total
  <2> QED BY <2>2, <2>3, <2>4
<1>3. \E f : /\ f[0] = 0 /\ TokensOf(items) = f[Len(items)]
            /\ \A i \in 1..Len(items) : f[i] = f[i - 1] + items[i].n
  BY <1>1, SumTurns
<1> QED BY <1>1, <1>2, <1>3

(* The loop of reserved_blocks adds up the reservations.                   *)
LEMMA ReservedTotal ==
  ReservedBlocks = Total(Holding(reserved))
<1>1. \A f : [n \in 0..NumSeqs |->
                IF n = 0 THEN 0
                ELSE f[n - 1] + IF n \in DOMAIN reserved THEN reserved[n] ELSE 0] =
             [n \in 0..NumSeqs |->
                IF n = 0 THEN 0 ELSE f[n - 1] + Holding(reserved)[n]]
  <2> SUFFICES ASSUME NEW n \in 0..NumSeqs, n # 0
               PROVE  Holding(reserved)[n] =
                        IF n \in DOMAIN reserved THEN reserved[n] ELSE 0
    OBVIOUS
  <2>1. n \in SeqIds BY CoreAssumption DEF SeqIds
  <2> QED BY <2>1 DEF Holding
<1> QED BY <1>1 DEF ReservedBlocks, Total

(* Two sums of which the first is the smaller in all places but s.         *)
LEMMA TotalCompare ==
  ASSUME NEW g \in [SeqIds -> Nat], NEW h \in [SeqIds -> Nat], NEW s \in SeqIds,
         \A r \in SeqIds \ {s} : g[r] <= h[r]
  PROVE  /\ Total(g) \in Nat /\ Total(h) \in Nat
         /\ Total(g) + h[s] <= Total(h) + g[s]
<1>1. PICK f : /\ f[0] = 0 /\ Total(g) = f[NumSeqs]
               /\ \A i \in 1..NumSeqs : f[i] = f[i - 1] + g[i]
  BY TotalTurns
<1>2. PICK k : /\ k[0] = 0 /\ Total(h) = k[NumSeqs]
               /\ \A i \in 1..NumSeqs : k[i] = k[i - 1] + h[i]
  BY TotalTurns
<1> DEFINE T == {n \in Nat : n <= NumSeqs =>
                   /\ f[n] \in Nat /\ k[n] \in Nat
                   /\ n < s => f[n] <= k[n]
                   /\ s <= n => f[n] + h[s] <= k[n] + g[s]}
<1>3. NumSeqs \in Nat /\ SeqIds = 1..NumSeqs BY CoreAssumption DEF SeqIds
<1>4. 0 \in T BY <1>1, <1>2, <1>3
<1>5. ASSUME NEW n \in T PROVE n + 1 \in T
  <2> SUFFICES ASSUME n + 1 <= NumSeqs
               PROVE  /\ f[n + 1] \in Nat /\ k[n + 1] \in Nat
                      /\ n + 1 < s => f[n + 1] <= k[n + 1]
                      /\ s <= n + 1 => f[n + 1] + h[s] <= k[n + 1] + g[s]
    OBVIOUS
  <2>1. n \in Nat /\ n + 1 \in 1..NumSeqs /\ (n + 1) - 1 = n /\ n + 1 \in SeqIds
    BY <1>3
  <2>2. /\ f[n] \in Nat /\ k[n] \in Nat
        /\ n < s => f[n] <= k[n]
        /\ s <= n => f[n] + h[s] <= k[n] + g[s]
    BY <1>3, <2>1
  <2>3. f[n + 1] = f[n] + g[n + 1] /\ k[n + 1] = k[n] + h[n + 1]
    BY <1>1, <1>2, <2>1
  <2>4. g[n + 1] \in Nat /\ h[n + 1] \in Nat /\ g[s] \in Nat /\ h[s] \in Nat
        /\ s \in Nat /\ (n + 1 # s => g[n + 1] <= h[n + 1])
    BY <1>3, <2>1
  <2> HIDE DEF T
  <2>5. CASE n + 1 = s BY <2>1, <2>2, <2>3, <2>4, <2>5
  <2>6. CASE n + 1 # s BY <2>1, <2>2, <2>3, <2>4, <2>6
  <2> QED BY <2>5, <2>6
<1>6. T = Nat
  <2>1. T \in SUBSET Nat OBVIOUS
  <2> HIDE DEF T
  <2> QED BY <1>4, <1>5, <2>1, SetInduction
<1>7. NumSeqs \in T /\ s <= NumSeqs BY <1>3, <1>6
<1> QED BY <1>1, <1>2, <1>3, <1>7

LEMMA TotalMonotone ==
  ASSUME NEW g \in [SeqIds -> Nat], NEW h \in [SeqIds -> Nat],
         \A r \in SeqIds : g[r] <= h[r]
  PROVE  Total(g) \in Nat /\ Total(h) \in Nat /\ Total(g) <= Total(h)
<1>1. 1 \in SeqIds BY CoreAssumption DEF SeqIds
<1>2. Total(g) \in Nat /\ Total(h) \in Nat /\ Total(g) + h[1] <= Total(h) + g[1]
  BY <1>1, TotalCompare
<1>3. g[1] \in Nat /\ h[1] \in Nat /\ g[1] <= h[1] BY <1>1
<1> QED BY <1>2, <1>3

(* The blocks of all tables are at most as many as their entries.          *)
Lengths(tab) == [s \in SeqIds |-> Len(tab[s])]
BlocksUpto(tab, n) == UNION {Elems(tab[s]) : s \in 1..n}

LEMMA TotalCovers ==
  ASSUME NEW tab \in [SeqIds -> Seq(Block)], \A s \in SeqIds : Distinct(tab[s])
  PROVE  LET blocks == UNION {Elems(tab[s]) : s \in SeqIds}
         IN  /\ IsFiniteSet(blocks) /\ Cardinality(blocks) <= Total(Lengths(tab))
             /\ Lengths(tab) \in [SeqIds -> Nat]
<1> DEFINE g == Lengths(tab)
<1>1. NumSeqs \in Nat /\ SeqIds = 1..NumSeqs BY CoreAssumption DEF SeqIds
<1>2. PICK f : /\ f[0] = 0 /\ Total(g) = f[NumSeqs]
               /\ \A i \in 1..NumSeqs : f[i] = f[i - 1] + g[i]
  BY TotalTurns
<1>3. \A s \in SeqIds : /\ g[s] = Len(tab[s]) /\ Len(tab[s]) \in Nat
                        /\ IsFiniteSet(Elems(tab[s]))
                        /\ Cardinality(Elems(tab[s])) = Len(tab[s])
  BY DistinctLen, LenProperties DEF Lengths
<1>4. g \in [SeqIds -> Nat] BY <1>3 DEF Lengths
<1> HIDE DEF g
<1> DEFINE T == {n \in Nat : n <= NumSeqs =>
                   /\ IsFiniteSet(BlocksUpto(tab, n)) /\ f[n] \in Nat
                   /\ Cardinality(BlocksUpto(tab, n)) <= f[n]}
<1>5. 0 \in T
  <2>1. BlocksUpto(tab, 0) = {} BY DEF BlocksUpto
  <2>2. IsFiniteSet({}) /\ Cardinality({}) = 0 BY FS_EmptySet
  <2>3. IsFiniteSet(BlocksUpto(tab, 0)) /\ Cardinality(BlocksUpto(tab, 0)) = 0
    BY <2>1, <2>2
  <2> QED BY <2>3, <1>2
<1>6. ASSUME NEW n \in T PROVE n + 1 \in T
  <2> SUFFICES ASSUME n + 1 <= NumSeqs
               PROVE  /\ IsFiniteSet(BlocksUpto(tab, n + 1)) /\ f[n + 1] \in Nat
                      /\ Cardinality(BlocksUpto(tab, n + 1)) <= f[n + 1]
    OBVIOUS
  <2>1. n \in Nat /\ n + 1 \in 1..NumSeqs /\ (n + 1) - 1 = n /\ n + 1 \in SeqIds
    BY <1>1
  <2> DEFINE a == BlocksUpto(tab, n)
             b == Elems(tab[n + 1])
  <2>2. IsFiniteSet(a) /\ f[n] \in Nat /\ Cardinality(a) <= f[n]
    BY <1>1, <2>1
  <2>3. IsFiniteSet(b) /\ Cardinality(b) = g[n + 1] /\ g[n + 1] \in Nat
    BY <1>3, <2>1
  <2>4. f[n + 1] = f[n] + g[n + 1] BY <1>2, <2>1
  <2>5. BlocksUpto(tab, n + 1) = a \union b
    <3>1. 1..(n + 1) = (1..n) \union {n + 1} BY <2>1
    <3> QED BY <3>1 DEF BlocksUpto
  <2> HIDE DEF T, a, b
  <2>6. /\ IsFiniteSet(a \union b) /\ IsFiniteSet(a \cap b)
        /\ Cardinality(a \union b) = Cardinality(a) + Cardinality(b) - Cardinality(a \cap b)
    BY <2>2, <2>3, FS_Union, FS_Intersection
  <2>7. Cardinality(a) \in Nat /\ Cardinality(b) \in Nat /\ Cardinality(a \cap b) \in Nat
    BY <2>2, <2>3, <2>6, FS_CardinalityType
  <2>8. f[n + 1] \in Nat /\ Cardinality(a \union b) <= f[n + 1]
    BY <2>2, <2>3, <2>4, <2>6, <2>7
  <2> QED BY <2>5, <2>6, <2>8
<1>7. T = Nat
  <2>1. T \in SUBSET Nat OBVIOUS
  <2> HIDE DEF T
  <2> QED BY <1>5, <1>6, <2>1, SetInduction
<1>8. /\ IsFiniteSet(BlocksUpto(tab, NumSeqs))
      /\ Cardinality(BlocksUpto(tab, NumSeqs)) <= f[NumSeqs]
  <2> HIDE DEF T
  <2>1. NumSeqs \in T /\ NumSeqs <= NumSeqs BY <1>1, <1>7
  <2> QED BY <2>1 DEF T
<1> QED BY <1>1, <1>2, <1>4, <1>8 DEF g, BlocksUpto

(* The free and the used blocks are all blocks, and the used ones are at   *)
(* most as many as the entries of the tables.                              *)
LEMMA FreeBlocks ==
  ASSUME NEW e, Memory(e)
  PROVE  /\ Len(e.pool.free) \in Nat
         /\ IsFiniteSet(e.pool.used) /\ Cardinality(e.pool.used) \in Nat
         /\ Len(e.pool.free) + Cardinality(e.pool.used) = NumBlocks
         /\ Cardinality(e.pool.used) <= Total(Lengths(e.table))
         /\ Lengths(e.table) \in [SeqIds -> Nat]
<1> DEFINE p == e.pool
           all == UNION {Elems(e.table[s]) : s \in SeqIds}
<1>1. /\ e.table \in [SeqIds -> Seq(Block)] /\ PoolTyped(p, Nat)
      /\ Accounts(p, e.table, SeqIds)
  BY DEF Memory
<1>2. /\ p.free \in Seq(Block) /\ Distinct(p.free) /\ Elems(p.free) = Block \ p.used
      /\ p.used \subseteq Block /\ p.used = {b \in Block : p.ref[b] > 0}
      /\ \A s \in SeqIds : Distinct(e.table[s])
      /\ \A b \in Block : p.ref[b] = HolderCount(e.table, SeqIds, b)
  BY <1>1 DEF PoolTyped, Accounts
<1>3. /\ IsFiniteSet(all) /\ Cardinality(all) <= Total(Lengths(e.table))
      /\ Lengths(e.table) \in [SeqIds -> Nat]
  BY <1>1, <1>2, TotalCovers
<1>4. p.used \subseteq all
  <2> SUFFICES ASSUME NEW b \in p.used PROVE \E s \in SeqIds : b \in Elems(e.table[s])
    OBVIOUS
  <2>1. HolderCount(e.table, SeqIds, b) > 0 BY <1>2
  <2>2. HoldersOf(e.table, SeqIds, b) # {}
    BY <2>1, FS_EmptySet DEF HolderCount
  <2> QED BY <2>2 DEF HoldersOf
<1> HIDE DEF all
<1>5. /\ IsFiniteSet(p.used) /\ Cardinality(p.used) <= Cardinality(all)
      /\ Cardinality(p.used) \in Nat /\ Cardinality(all) \in Nat
  BY <1>3, <1>4, FS_Subset, FS_CardinalityType
<1>6. IsFiniteSet(Block) /\ Cardinality(Block) = NumBlocks /\ NumBlocks \in Nat
  <2>1. NumBlocks \in Nat /\ NumBlocks - 1 \in Int /\ 0 \in Int
        /\ ~ (0 > NumBlocks - 1) /\ (NumBlocks - 1) - 0 + 1 = NumBlocks
    BY PoolAssumption
  <2>2. /\ IsFiniteSet(0..(NumBlocks - 1))
        /\ Cardinality(0..(NumBlocks - 1)) =
             IF 0 > NumBlocks - 1 THEN 0 ELSE (NumBlocks - 1) - 0 + 1
    BY <2>1, FS_Interval
  <2> QED BY <2>1, <2>2 DEF Block
<1>7. Cardinality(Block \ p.used) = Cardinality(Block) - Cardinality(Block \cap p.used)
  BY <1>6, FS_Difference
<1>8. Block \cap p.used = p.used BY <1>2
<1>9. Cardinality(Elems(p.free)) = Len(p.free) /\ Len(p.free) \in Nat
  BY <1>2, DistinctLen, LenProperties
<1>10. Len(p.free) = NumBlocks - Cardinality(p.used)
  BY <1>2, <1>6, <1>7, <1>8, <1>9
<1>11. Total(Lengths(e.table)) \in Nat BY <1>3, TotalMonotone
<1> QED BY <1>3, <1>5, <1>6, <1>9, <1>10, <1>11
---------------------------------------------------------------------------
(* Blocks to spare.                                                        *)

(* A request has at most its footprint.                                    *)
LEMMA TablesFit ==
  ASSUME NEW e, NEW A, NEW X, EInv(e, A, X), NEW g, Backed(e, A, g),
         \A s \in SeqIds : Len(e.table[s]) <= BlocksFor(e.len[s])
  PROVE  /\ \A s \in SeqIds : /\ Len(e.table[s]) \in Nat /\ g[s] \in Nat
                              /\ Len(e.table[s]) <= g[s]
         /\ \A s \in A \ e.finished :
              s \in SeqIds /\ BlocksFor(e.len[s]) \in Nat /\ BlocksFor(e.len[s]) <= g[s]
<1>1. ASSUME NEW s \in A \ e.finished
      PROVE  s \in SeqIds /\ BlocksFor(e.len[s]) \in Nat /\ BlocksFor(e.len[s]) <= g[s]
  <2> DEFINE n == e.plen[s] + e.maxTokens[s] - 1
  <2>1. s \in SeqIds BY DEF EInv, Queues
  <2>2. e.len[s] \in Nat /\ e.plen[s] \in Nat \ {0} /\ e.maxTokens[s] \in Nat \ {0}
    BY <2>1 DEF EInv, Setup
  <2>3. e.len[s] < e.plen[s] + e.maxTokens[s]
    BY DEF EInv, Queues, Placed, Parked, Resident
  <2>4. n \in Nat /\ e.len[s] <= n BY <2>2, <2>3
  <2>5. BlocksFor(n) <= g[s] BY DEF Backed, Footprint
  <2>6. g[s] \in Nat BY <2>1 DEF Backed
  <2> HIDE DEF n
  <2>7. /\ BlocksFor(e.len[s]) \in Nat /\ BlocksFor(n) \in Nat
        /\ BlocksFor(e.len[s]) <= BlocksFor(n)
    BY <2>2, <2>4, BlocksForFacts, BlocksForMonotone
  <2> QED BY <2>1, <2>5, <2>6, <2>7
<1>2. ASSUME NEW s \in SeqIds
      PROVE  Len(e.table[s]) \in Nat /\ g[s] \in Nat /\ Len(e.table[s]) <= g[s]
  <2>1. Len(e.table[s]) \in Nat BY MemoryFacts, LenProperties
  <2>2. g[s] \in Nat BY DEF Backed
  <2>3. CASE s \in A \ e.finished BY <1>1, <2>1, <2>2, <2>3
  <2>4. CASE s \notin A \ e.finished
    <3>1. Vacant(e, s) BY <2>4 DEF EInv, Queues, Placed
    <3>2. Len(e.table[s]) = 0 BY <3>1, EmptyQueue DEF Vacant
    <3> QED BY <2>1, <2>2, <3>2
  <2> QED BY <2>3, <2>4
<1> QED BY <1>1, <1>2

(* So no more blocks are in use than have been promised, and every request *)
(* finds the blocks of its tokens.                                         *)
LEMMA Spare ==
  ASSUME NEW e, NEW A, NEW X, EInv(e, A, X), NEW g, Backed(e, A, g),
         \A s \in SeqIds : Len(e.table[s]) <= BlocksFor(e.len[s])
  PROVE  /\ Cardinality(e.pool.used) <= Total(g)
         /\ \A s \in A \ e.finished : ~ Lacks(e, s)
<1> DEFINE h == Lengths(e.table)
           used == Cardinality(e.pool.used)
           f == Len(e.pool.free)
<1>1. /\ f \in Nat /\ used \in Nat /\ f + used = NumBlocks
      /\ used <= Total(h) /\ h \in [SeqIds -> Nat]
  BY FreeBlocks DEF EInv
<1>2. g \in [SeqIds -> Nat] /\ Total(g) <= NumBlocks BY DEF Backed
<1>3. /\ \A s \in SeqIds : h[s] <= g[s] /\ h[s] = Len(e.table[s])
      /\ \A s \in A \ e.finished :
           s \in SeqIds /\ BlocksFor(e.len[s]) \in Nat /\ BlocksFor(e.len[s]) <= g[s]
  BY TablesFit DEF Lengths
<1> HIDE DEF h, used, f
<1>4. Total(g) \in Nat /\ Total(h) \in Nat /\ Total(h) <= Total(g)
  BY <1>1, <1>2, <1>3, TotalMonotone
<1>5. ASSUME NEW s \in A \ e.finished PROVE ~ Lacks(e, s)
  <2>1. s \in SeqIds BY <1>3
  <2>2. Total(h) + g[s] <= Total(g) + h[s] BY <1>1, <1>2, <1>3, <2>1, TotalCompare
  <2>3. h[s] \in Nat /\ g[s] \in Nat BY <1>1, <1>2, <2>1
  <2>4. NumBlocks \in Nat BY PoolAssumption
  <2>5. g[s] <= h[s] + f BY <1>1, <1>2, <1>4, <2>2, <2>3, <2>4
  <2>6. ~ (h[s] + f < BlocksFor(e.len[s])) BY <1>1, <1>3, <2>3, <2>5
  <2> QED BY <1>3, <2>1, <2>6 DEF Lacks, f
<1> QED BY <1>1, <1>4, <1>5 DEF used
---------------------------------------------------------------------------
(* _schedule_prefill preempts nobody, and adds nothing only when there is  *)
(* nothing to add or no room for it.                                       *)

LEMMA SelectedGrows ==
  ASSUME NEW e, e.batch \in Seq(Item), NEW item \in Item,
         NEW d, d.batch = Append(e.batch, item)
  PROVE  /\ Len(e.batch) \in Nat /\ Len(d.batch) = Len(e.batch) + 1
         /\ Selected(d) = Selected(e) \union {item.seq}
<1>1. /\ Len(e.batch) \in Nat /\ d.batch \in Seq(Item)
      /\ Len(d.batch) = Len(e.batch) + 1 /\ d.batch[Len(e.batch) + 1] = item
      /\ \A i \in 1..Len(e.batch) : d.batch[i] = e.batch[i]
  BY LenProperties, AppendProperties
<1>2. DOMAIN e.batch = 1..Len(e.batch) /\ DOMAIN d.batch = 1..Len(d.batch)
  BY <1>1, LenProperties
<1>3. ASSUME NEW r \in Selected(e) PROVE r \in Selected(d)
  <2>1. PICK i \in 1..Len(e.batch) : e.batch[i].seq = r BY <1>2, <1>3 DEF Selected
  <2>2. i \in 1..Len(d.batch) /\ d.batch[i].seq = r BY <1>1, <2>1
  <2> QED BY <1>2, <2>2 DEF Selected
<1>4. item.seq \in Selected(d)
  <2>1. Len(e.batch) + 1 \in 1..Len(d.batch) BY <1>1
  <2> QED BY <1>1, <1>2, <2>1 DEF Selected
<1>5. ASSUME NEW r \in Selected(d) PROVE r \in Selected(e) \union {item.seq}
  <2>1. PICK i \in 1..Len(d.batch) : d.batch[i].seq = r BY <1>2, <1>5 DEF Selected
  <2>2. i = Len(e.batch) + 1 \/ i \in 1..Len(e.batch) BY <1>1, <2>1
  <2> QED BY <1>1, <1>2, <2>1, <2>2 DEF Selected
<1> QED BY <1>1, <1>3, <1>4, <1>5

LEMMA TurnSpares ==
  ASSUME NEW e, NEW A, EInv(e, A, {}), e.batch \in Seq(Item), e.waiting # << >>,
         NEW remaining \in Nat \ {0}, NEW count,
         NEW s, s = Head(e.waiting),
         NEW d, d = NextHead(e, s, remaining, count)
  PROVE  /\ d.preempts = e.preempts
         /\ Lean(e, Selected(e)) => Lean(d, Selected(d))
         /\ \/ d = e /\ (count > 0 \/ Lacks(e, s))
            \/ Len(d.batch) > Len(e.batch)
<1>1. CASE d = e /\ (count > 0 \/ Lacks(e, s))
  BY <1>1
<1>2. CASE ~ (d = e /\ (count > 0 \/ Lacks(e, s)))
  <2>1. PICK k \in 1..remaining : TurnJoins(e, d, A, s, k)
    <3>1. TurnOK(e, d, A, s, remaining, count) BY TurnFacts
    <3> QED BY <1>2, <3>1 DEF TurnOK
  <2> DEFINE item == [seq |-> s, phase |-> "prefill", n |-> k]
  <2>2. /\ EInv(d, A, {}) /\ SameBooks(e, d) /\ Slim(e, d, s)
        /\ d.batch = Append(e.batch, item) /\ ItemOK(d, {}, item)
        /\ \A r \in SeqIds \ {s} : /\ Untouched(e, d, r)
                                   /\ r \in Elems(d.running) <=> r \in Elems(e.running)
    BY <2>1 DEF TurnJoins
  <2>3. item.seq = s OBVIOUS
  <2> HIDE DEF item
  <2>4. item \in Item BY <2>2 DEF ItemOK
  <2>5. /\ Len(e.batch) \in Nat /\ Len(d.batch) = Len(e.batch) + 1
        /\ Selected(d) = Selected(e) \union {s}
    BY <2>2, <2>3, <2>4, SelectedGrows
  <2>6. Elems(d.running) \subseteq SeqIds BY <2>2, QueueFacts
  <2>7. ASSUME Lean(e, Selected(e)) PROVE Lean(d, Selected(d))
    <3>1. \A r \in SeqIds : Len(d.table[r]) <= BlocksFor(d.len[r])
      BY <2>2, <2>7 DEF Lean, Slim, SameBooks, Untouched
    <3>2. \A r \in Elems(d.running) \ Selected(d) :
            Len(d.table[r]) <= BlocksFor(d.len[r] - 1)
      BY <2>2, <2>5, <2>6, <2>7 DEF Lean, SameBooks, Untouched
    <3> QED BY <3>1, <3>2 DEF Lean
  <2> QED BY <2>2, <2>5, <2>7 DEF Slim
<1> QED BY <1>1, <1>2

(* After i turns of the loop.                                              *)
Sparing(e, l, budget, i) ==
  /\ l.st.preempts = e.preempts
  /\ Lean(e, Selected(e)) => Lean(l.st, Selected(l.st))
  /\ \/ Len(l.st.batch) > Len(e.batch)
     \/ /\ l.st = e /\ l.count = 0 /\ l.remaining = budget
        /\ i > 0 /\ e.waiting # << >> /\ budget > 0 => Lacks(e, Head(e.waiting))

LEMMA PrefillOnSpares ==
  ASSUME NEW e, e.batch \in Seq(Item), NEW A, NEW budget \in Nat, NEW i \in Nat,
         NEW l, Filling(e, l, A, budget, i), Sparing(e, l, budget, i)
  PROVE  Sparing(e, PrefillOn(l), budget, i + 1)
<1> DEFINE a == l.st
           s == Head(a.waiting)
           d == NextHead(a, s, l.remaining, l.count)
<1>1. /\ EInv(a, A, {}) /\ a.batch \in Seq(Item) /\ l.remaining \in Nat
  BY DEF Filling, Prefills, BatchOK
<1>2. Len(a.batch) \in Nat /\ Len(e.batch) \in Nat BY <1>1, LenProperties
<1>3. CASE a.waiting = << >> \/ l.remaining = 0
  <2>1. PrefillOn(l) = l BY <1>3 DEF PrefillOn
  <2> QED BY <1>3, <2>1 DEF Sparing
<1>4. CASE a.waiting # << >> /\ l.remaining # 0
  <2>1. PrefillOn(l) = PrefillStep(l, d) BY <1>4 DEF PrefillOn
  <2>2. l.remaining \in Nat \ {0} BY <1>1, <1>4
  <2>3. /\ d.preempts = a.preempts
        /\ Lean(a, Selected(a)) => Lean(d, Selected(d))
        /\ \/ d = a /\ (l.count > 0 \/ Lacks(a, s))
           \/ Len(d.batch) > Len(a.batch)
    BY <1>1, <1>4, <2>2, TurnSpares
  <2>4. CASE Len(d.batch) > Len(a.batch)
    <3>1. Len(d.batch) # Len(a.batch) BY <1>2, <2>4
    <3>2. PrefillOn(l).st = d BY <2>1, <3>1 DEF PrefillStep, Joined
    <3> HIDE DEF d
    <3>3. Len(d.batch) > Len(e.batch) BY <1>2, <2>4 DEF Sparing
    <3> QED BY <2>3, <3>2, <3>3 DEF Sparing
  <2>5. CASE d = a /\ (l.count > 0 \/ Lacks(a, s))
    <3>1. PrefillOn(l) = l BY <2>1, <2>5 DEF PrefillStep
    <3>2. l.count = 0 /\ a = e => Lacks(e, Head(e.waiting)) BY <2>5
    <3> QED BY <3>1, <3>2 DEF Sparing
  <2> QED BY <2>3, <2>4, <2>5
<1> QED BY <1>3, <1>4

LEMMA PrefillSpares ==
  ASSUME NEW e, NEW A, EInv(e, A, {}), BatchOK(e, {}), NEW budget \in Nat,
         Selected(e) \cap Elems(e.waiting) = {},
         NEW d, d = SchedulePrefill(e, budget)
  PROVE  /\ d.preempts = e.preempts
         /\ Lean(e, Selected(e)) => Lean(d, Selected(d))
         /\ \/ Len(d.batch) > Len(e.batch)
            \/ /\ d = e
               /\ e.waiting # << >> /\ budget > 0 => Lacks(e, Head(e.waiting))
<1>1. MaxNumSeqs \in Nat /\ MaxNumSeqs > 0 BY CoreAssumption
<1>2. PICK g : /\ g[0] = [st |-> e, count |-> 0, remaining |-> budget]
               /\ PrefillLoop(e, budget) = g[MaxNumSeqs]
               /\ \A i \in 1..MaxNumSeqs : g[i] = PrefillOn(g[i - 1])
  BY <1>1, PrefillTurns
<1>3. e.batch \in Seq(Item) BY DEF BatchOK
<1>4. TokensOf(e.batch) \in Nat /\ PhaseCount(e.batch, "prefill") \in Nat
  BY <1>3, ConcatTokens, PhaseCountFacts
<1> DEFINE Fed(i) == Filling(e, g[i], A, budget, i) /\ Sparing(e, g[i], budget, i)
           T == {i \in Nat : i <= MaxNumSeqs => Fed(i)}
<1>5. 0 \in T
  <2>1. g[0].st = e /\ g[0].remaining = budget /\ g[0].count = 0 BY <1>2
  <2>2. SameBooks(e, e) BY DEF SameBooks
  <2>3. Prefills(e, e, A, budget, 0) BY <1>4, <2>2 DEF Prefills
  <2>4. Filling(e, g[0], A, budget, 0) BY <1>4, <2>1, <2>3 DEF Filling
  <2>5. Sparing(e, g[0], budget, 0) BY <2>1 DEF Sparing
  <2> QED BY <2>4, <2>5
<1>6. ASSUME NEW i \in T PROVE i + 1 \in T
  <2> HIDE DEF Fed
  <2> SUFFICES ASSUME i + 1 <= MaxNumSeqs PROVE Fed(i + 1)
    OBVIOUS
  <2>1. i \in Nat /\ i <= MaxNumSeqs /\ i + 1 \in 1..MaxNumSeqs /\ (i + 1) - 1 = i
    BY <1>1
  <2>2. Fed(i) BY <2>1
  <2>3. Filling(e, g[i], A, budget, i) /\ Sparing(e, g[i], budget, i) BY <2>2 DEF Fed
  <2>4. g[i + 1] = PrefillOn(g[i]) BY <1>2, <2>1
  <2>5. Filling(e, g[i + 1], A, budget, i + 1)
    BY <1>3, <2>1, <2>3, <2>4, PrefillOnFacts
  <2>6. Sparing(e, g[i + 1], budget, i + 1)
    BY <1>3, <2>1, <2>3, <2>4, PrefillOnSpares
  <2> QED BY <2>5, <2>6 DEF Fed
<1>7. T = Nat
  <2>1. T \in SUBSET Nat OBVIOUS
  <2> HIDE DEF T
  <2> QED BY <1>5, <1>6, <2>1, SetInduction
<1>8. Sparing(e, g[MaxNumSeqs], budget, MaxNumSeqs)
  <2>1. MaxNumSeqs \in T BY <1>1, <1>7
  <2> QED BY <1>1, <2>1
<1>9. d = g[MaxNumSeqs].st BY <1>2 DEF SchedulePrefill
<1> QED BY <1>1, <1>8, <1>9 DEF Sparing
---------------------------------------------------------------------------
(* _schedule_decode preempts nobody, and selects something when it can.    *)

LEMMA RoomIdle ==
  ASSUME NEW e, NEW s, Len(e.running) \in Nat, RoomDone(e, s)
  PROVE  MakeRoom(e, s) = e
<1> DEFINE n == Len(e.running) + 1
<1>1. n \in Nat OBVIOUS
<1>2. PICK g : /\ g[0] = e /\ MakeRoom(e, s) = g[n]
               /\ \A i \in 1..n : g[i] = RoomTurn(g[i - 1], s)
  BY <1>1, RoomTurns
<1> HIDE DEF n
<1>3. RoomTurn(e, s) = e BY DEF RoomTurn, RoomDone
<1> DEFINE T == {i \in Nat : i <= n => g[i] = e}
<1>4. 0 \in T BY <1>2
<1>5. ASSUME NEW i \in T PROVE i + 1 \in T
  <2> SUFFICES ASSUME i + 1 <= n PROVE g[i + 1] = e
    OBVIOUS
  <2>1. i \in Nat /\ i <= n /\ i + 1 \in 1..n /\ (i + 1) - 1 = i BY <1>1
  <2> QED BY <1>2, <1>3, <2>1
<1>6. T = Nat
  <2>1. T \in SUBSET Nat OBVIOUS
  <2> HIDE DEF T
  <2> QED BY <1>4, <1>5, <2>1, SetInduction
<1>7. g[n] = e BY <1>1, <1>6
<1> QED BY <1>2, <1>7

LEMMA BackedOn ==
  ASSUME NEW e, NEW d, NEW A, NEW g, Backed(e, A, g), SameBooks(e, d)
  PROVE  Backed(d, A, g)
BY DEF Backed, SameBooks, Footprint

(* After i turns of the loop.                                              *)
Keeping(e, l, size, i) ==
  /\ l.st.preempts = e.preempts /\ Lean(l.st, {})
  /\ l.chosen = << >> => l.st = e
  /\ i > 0 /\ e.running # << >> /\ size > 0 => l.chosen # << >>

LEMMA DecodeTurnKeeps ==
  ASSUME NEW e, NEW A, EInv(e, A, {}), NEW g, Backed(e, A, g), NEW size \in Nat,
         NEW i \in Nat, NEW l, Choosing(e, l, A, {}, size), Keeping(e, l, size, i)
  PROVE  Keeping(e, DecodeTurn(l, size), size, i + 1)
<1> DEFINE a == l.st
           s == Head(a.running)
           b == [a EXCEPT !.running = Tail(@)]
           Y == Elems(l.chosen)
<1>1. /\ EInv(a, A, Y) /\ SameBooks(e, a) /\ l.chosen \in Seq(SeqIds)
  <2>1. {} \union Elems(l.chosen) = Elems(l.chosen) OBVIOUS
  <2> QED BY <2>1 DEF Choosing
<1>2. /\ a.preempts = e.preempts /\ Lean(a, {})
      /\ l.chosen = << >> => a = e
  BY DEF Keeping
<1>3. CASE a.running = << >> \/ Len(l.chosen) >= size
  <2>1. DecodeTurn(l, size) = l BY <1>3 DEF DecodeTurn
  <2>2. e.running # << >> /\ size > 0 => l.chosen # << >>
    <3>1. Len(<< >>) = 0 BY EmptyQueue
    <3> QED BY <1>2, <1>3, <3>1
  <2> QED BY <2>1, <2>2 DEF Keeping
<1>4. CASE ~ (a.running = << >> \/ Len(l.chosen) >= size)
  <2>1. DecodeTurn(l, size) = Decided(l, MakeRoom(b, s), s) BY <1>4 DEF DecodeTurn
  <2>2. b.preempts = a.preempts
    BY <1>1 DEF EInv, Setup, EngineFields
  <2> HIDE DEF a, Y
  <2>3. /\ EInv(b, A, Y \union {s}) /\ SameBooks(a, b)
        /\ b.table = a.table /\ Elems(b.running) = Elems(a.running) \ {s}
        /\ s \in Elems(a.running) /\ s \in SeqIds
    <3>1. EInv(a, A, Y) /\ a.running # << >> BY <1>1, <1>4
    <3>3. /\ EInv(b, A, Y \union {s}) /\ SameBooks(a, b) /\ b.batch = a.batch
          /\ b.waiting = a.waiting /\ b.table = a.table /\ b.cached = a.cached
          /\ Elems(b.running) = Elems(a.running) \ {s}
          /\ s \in Elems(a.running) /\ s \in SeqIds
      BY <3>1, TakenFacts
    <3> QED BY <3>3
  <2> HIDE DEF b, s
  <2>4. SameBooks(e, b) BY <1>1, <2>3 DEF SameBooks
  <2>5. s \in A \ b.finished /\ s \notin Elems(b.waiting) /\ s \in Held(b, Y \union {s})
    BY <2>3 DEF EInv, Queues, Held
  <2> DEFINE n == b.len[s]
             t == Len(b.table[s])
             f == Len(b.pool.free)
             k == AppendNeeds(n)
  <2>6. /\ n \in Nat /\ n > 0 /\ t \in Nat /\ f \in Nat /\ k \in Nat
    <3>1. n \in Nat /\ n > 0 BY <2>3, TokensFacts DEF EInv
    <3>2. t \in Nat BY <2>3, MemoryFacts, LenProperties
    <3>3. f \in Nat BY <2>3, FreeBlocks DEF EInv
    <3>4. k \in Nat BY DEF AppendNeeds
    <3> QED BY <3>1, <3>2, <3>3, <3>4
  <2>7. \A r \in SeqIds : Len(b.table[r]) <= BlocksFor(b.len[r])
    BY <1>2, <2>3 DEF Lean, SameBooks
  <2>8. ~ (t + f < BlocksFor(n))
    <3>1. ~ Lacks(b, s) BY <2>3, <2>4, <2>5, <2>7, BackedOn, Spare
    <3> QED BY <3>1 DEF Lacks
  <2>9. t <= BlocksFor(n - 1) BY <1>2, <2>3 DEF Lean, SameBooks
  <2>10. /\ BlocksFor(n - 1) + k <= BlocksFor(n)
         /\ BlocksFor(n) \in Nat /\ BlocksFor(n - 1) \in Nat
    <3>1. n - 1 \in Nat BY <2>6
    <3> HIDE DEF n
    <3> QED BY <2>6, <3>1, AppendFits, BlocksForFacts
  <2>11. f >= k /\ t + k <= BlocksFor(n)
    <3> HIDE DEF n, t, f, k
    <3> QED BY <2>6, <2>8, <2>9, <2>10
  <2>12. CanAppend(b.pool, b.len[s]) BY <2>11 DEF CanAppend
  <2>13. MakeRoom(b, s) = b
    <3>1. Len(b.running) \in Nat BY <2>3, QueueFacts
    <3> QED BY <2>12, <3>1, RoomIdle DEF RoomDone
  <2> DEFINE d == Grown(b, s)
             c == Append(l.chosen, s)
             m == [st |-> d, chosen |-> c]
  <2>14. DecodeTurn(l, size) = m BY <2>1, <2>5, <2>13 DEF Decided
  <2>15. Grows(b, d, A, Y \union {s}, s, k)
    BY <2>3, <2>5, <2>12, AppendFacts
  <2>16. c # << >>
    <3>1. Len(c) = Len(l.chosen) + 1 /\ Len(l.chosen) \in Nat /\ Len(<< >>) = 0
      BY <1>1, <2>3, AppendProperties, LenProperties, EmptyQueue
    <3> QED BY <3>1
  <2>17. m.st = d /\ m.chosen = c OBVIOUS
  <2> HIDE DEF d, c, m, k, n, t, f
  <2>18. /\ d.preempts = b.preempts /\ d.running = b.running /\ SameBooks(b, d)
         /\ Len(d.table[s]) = t + k
         /\ \A r \in SeqIds \ {s} : Untouched(b, d, r)
    BY <2>15 DEF Grows, t
  <2>19. Lean(d, {})
    <3>1. \A r \in SeqIds : Len(d.table[r]) <= BlocksFor(d.len[r])
      BY <2>7, <2>11, <2>18 DEF SameBooks, Untouched, n
    <3>2. \A r \in Elems(d.running) \ {} : Len(d.table[r]) <= BlocksFor(d.len[r] - 1)
      <4>1. \A r \in Elems(d.running) : r \in SeqIds \ {s} /\ r \in Elems(a.running)
        BY <1>1, <2>3, <2>18, QueueFacts
      <4>2. \A r \in Elems(a.running) : Len(a.table[r]) <= BlocksFor(a.len[r] - 1)
        BY <1>2 DEF Lean
      <4> QED BY <2>3, <2>18, <4>1, <4>2 DEF SameBooks, Untouched
    <3> QED BY <3>1, <3>2 DEF Lean
  <2> QED BY <1>2, <2>2, <2>14, <2>16, <2>17, <2>18, <2>19 DEF Keeping
<1> QED BY <1>3, <1>4

LEMMA DecodeLoopKeeps ==
  ASSUME NEW e, NEW A, EInv(e, A, {}), NEW g, Backed(e, A, g), Lean(e, {}),
         NEW size \in Nat
  PROVE  /\ Choosing(e, DecodeLoop(e, size), A, {}, size)
         /\ Keeping(e, DecodeLoop(e, size), size, Len(e.running))
<1> DEFINE len == Len(e.running)
<1>1. len \in Nat BY QueueFacts
<1>2. PICK f : /\ f[0] = [st |-> e, chosen |-> << >>]
               /\ DecodeLoop(e, size) = f[len]
               /\ \A i \in 1..len : f[i] = DecodeTurn(f[i - 1], size)
  BY <1>1, DecodeTurns
<1> DEFINE Fed(i) == Choosing(e, f[i], A, {}, size) /\ Keeping(e, f[i], size, i)
           T == {i \in Nat : i <= len => Fed(i)}
<1>3. 0 \in T
  <2>1. f[0].st = e /\ f[0].chosen = << >> BY <1>2
  <2> DEFINE z == f[0]
  <2>2. z.st = e /\ z.chosen = << >> BY <2>1
  <2>3. << >> \in Seq(SeqIds) /\ Len(<< >>) = 0 /\ Elems(<< >>) = {} /\ Distinct(<< >>)
    BY EmptyQueue
  <2>4. SameBooks(e, e) /\ \A t \in SeqIds : Untouched(e, e, t)
    BY DEF SameBooks, Untouched
  <2> HIDE DEF z
  <2>5. EInv(z.st, A, {} \union Elems(z.chosen))
    <3>1. {} \union Elems(z.chosen) = {} BY <2>2, <2>3
    <3> QED BY <2>2, <3>1
  <2>6. Choosing(e, z, A, {}, size)
    <3>1. /\ z.chosen \in Seq(SeqIds) /\ Distinct(z.chosen) /\ Len(z.chosen) <= size
          /\ Elems(z.chosen) = {}
      BY <2>2, <2>3
    <3> QED BY <2>2, <2>4, <2>5, <3>1 DEF Choosing
  <2>7. Keeping(e, z, size, 0) BY <2>2 DEF Keeping
  <2> QED BY <2>6, <2>7 DEF z
<1>4. ASSUME NEW i \in T PROVE i + 1 \in T
  <2> HIDE DEF Fed
  <2> SUFFICES ASSUME i + 1 <= len PROVE Fed(i + 1)
    OBVIOUS
  <2>1. i \in Nat /\ i <= len /\ i + 1 \in 1..len /\ (i + 1) - 1 = i BY <1>1
  <2>2. Fed(i) BY <2>1
  <2>3. Choosing(e, f[i], A, {}, size) /\ Keeping(e, f[i], size, i) BY <2>2 DEF Fed
  <2>4. f[i + 1] = DecodeTurn(f[i], size) BY <1>2, <2>1
  <2>5. Choosing(e, f[i + 1], A, {}, size) BY <2>3, <2>4, DecodeTurnFacts
  <2>6. Keeping(e, f[i + 1], size, i + 1) BY <2>1, <2>3, <2>4, DecodeTurnKeeps
  <2> QED BY <2>5, <2>6 DEF Fed
<1>5. T = Nat
  <2>1. T \in SUBSET Nat OBVIOUS
  <2> HIDE DEF T
  <2> QED BY <1>3, <1>4, <2>1, SetInduction
<1>6. Choosing(e, f[len], A, {}, size) /\ Keeping(e, f[len], size, len)
  <2>1. len \in T BY <1>1, <1>5
  <2> QED BY <1>1, <2>1
<1> QED BY <1>2, <1>6

LEMMA DecodeKeeps ==
  ASSUME NEW e, NEW A, Ready(e, A), NEW g, Backed(e, A, g), Lean(e, {}),
         NEW budget \in Nat, NEW rotate \in BOOLEAN,
         NEW d, d = ScheduleDecode(e, budget, rotate)
  PROVE  /\ d.preempts = e.preempts /\ Lean(d, Selected(d))
         /\ d.batch = << >> => /\ d.waiting = e.waiting
                               /\ Elems(d.running) = Elems(e.running)
         /\ e.running # << >> /\ budget > 0 => d.batch # << >>
<1> DEFINE size == SmallerOf(SmallerOf(MaxNumSeqs, MaxBatched), budget)
           l == DecodeLoop(e, size)
           a == l.st
           chosen == l.chosen
           items == DecodeItems(chosen)
           m == Len(chosen)
<1>1. size \in Nat /\ (budget > 0 => size > 0) BY CoreAssumption DEF SmallerOf
<1>2. d = Requeued(a, chosen, rotate) BY DEF ScheduleDecode, Decoded
<1> HIDE DEF size
<1>3. EInv(e, A, {}) /\ e.batch = << >> /\ Len(e.running) \in Nat
  BY QueueFacts DEF Ready
<1>4. Choosing(e, l, A, {}, size) /\ Keeping(e, l, size, Len(e.running))
  BY <1>1, <1>3, DecodeLoopKeeps
<1> HIDE DEF l
<1>5. /\ EInv(a, A, {} \union Elems(chosen)) /\ SameBooks(e, a) /\ a.batch = << >>
      /\ chosen \in Seq(SeqIds) /\ Distinct(chosen)
  BY <1>3, <1>4 DEF Choosing
<1>6. /\ a.preempts = e.preempts /\ Lean(a, {}) /\ (chosen = << >> => a = e)
      /\ e.running # << >> /\ budget > 0 => chosen # << >>
  <2>1. e.running # << >> => Len(e.running) > 0
    <3>1. e.running \in Seq(SeqIds) BY <1>3, QueueFacts
    <3> QED BY <1>3, <3>1, EmptySeq
  <2> QED BY <1>1, <1>4, <2>1 DEF Keeping
<1> HIDE DEF a, chosen
<1>7. Requeues(a, d, A, {}, chosen)
  <2>1. {} \cap Elems(chosen) = {} OBVIOUS
  <2> QED BY <1>2, <1>5, <2>1, RequeuedFacts
<1>8. /\ d.batch = items \o << >> /\ d.preempts = a.preempts /\ SameBooks(a, d)
      /\ d.waiting = a.waiting /\ d.table = a.table
      /\ Elems(d.running) = Elems(a.running) \union Elems(chosen)
  BY <1>5, <1>7 DEF Requeues
<1>9. /\ items \in Seq(Item) /\ Len(items) = m /\ m \in Nat
      /\ \A i \in 1..m : items[i].seq = chosen[i]
  <2>1. /\ items \in Seq(Item) /\ Len(items) = m /\ m \in Nat
        /\ \A i \in 1..m :
             items[i] = [seq |-> chosen[i], phase |-> "decode", n |-> 1]
    BY <1>5, DecodeItemsFacts
  <2> HIDE DEF items, m
  <2> QED BY <2>1
<1> HIDE DEF items
<1>10. d.batch = items BY <1>8, <1>9
<1>11. m > 0 <=> chosen # << >> BY <1>5, <1>9, EmptySeq
<1>12. d.batch = << >> <=> chosen = << >>
  BY <1>9, <1>10, <1>11, EmptySeq
<1>13. Elems(chosen) \subseteq Selected(d)
  <2>1. DOMAIN items = 1..m /\ Elems(chosen) = {chosen[i] : i \in 1..m}
    BY <1>5, <1>9, LenProperties DEF Elems
  <2> QED BY <1>9, <1>10, <2>1 DEF Selected
<1>14. Lean(d, Selected(d))
  <2>1. \A r \in Elems(d.running) \ Selected(d) : r \in Elems(a.running)
    BY <1>8, <1>13
  <2> QED BY <1>6, <1>8, <2>1 DEF Lean, SameBooks
<1>15. d.batch = << >> => /\ d.waiting = e.waiting
                          /\ Elems(d.running) = Elems(e.running)
  <2>1. Elems(<< >>) = {} BY EmptyQueue
  <2> QED BY <1>6, <1>8, <1>12, <2>1
<1> QED BY <1>6, <1>8, <1>12, <1>14, <1>15

---------------------------------------------------------------------------
(* _free_kv_for_waiting_head finds the blocks there.                       *)
LEMMA FreeKeeps ==
  ASSUME NEW e, NEW A, Ready(e, A), NEW g, Backed(e, A, g), Lean(e, {}),
         e.waiting # << >>
  PROVE  FreeKvForWaitingHead(e) = e
<1> DEFINE head == Head(e.waiting)
           n == Len(e.running)
<1>1. EInv(e, A, {}) BY DEF Ready
<1>2. /\ e.waiting \in Seq(SeqIds) /\ Distinct(e.waiting) /\ n \in Nat
  BY <1>1, QueueFacts
<1>3. head \in SeqIds /\ head \in Elems(e.waiting)
  <2> DEFINE q == e.waiting
  <2>1. q \in Seq(SeqIds) /\ Distinct(q) /\ q # << >> BY <1>2
  <2> HIDE DEF q
  <2>2. Head(q) \in SeqIds /\ Head(q) \in Elems(q) BY <2>1, HeadTail
  <2> QED BY <2>2 DEF q
<1> HIDE DEF head, n
<1>4. head \in A \ e.finished BY <1>1, <1>3 DEF EInv, Queues
<1>5. ~ Lacks(e, head) BY <1>1, <1>4, Spare DEF Lean
<1>6. CASE e.table[head] # << >>
  BY <1>6 DEF FreeKvForWaitingHead, head
<1>7. CASE e.table[head] = << >>
  <2>1. CanAllocate(e.pool, Toks(e, head), e.len[head]) # -1
    <3> SUFFICES ASSUME CanAllocate(e.pool, Toks(e, head), e.len[head]) = -1
                 PROVE  FALSE
      OBVIOUS
    <3>1. /\ Toks(e, head) \in Seq(Nat) /\ Len(Toks(e, head)) > 0
          /\ e.len[head] \in Nat
      BY <1>1, <1>3, TokensFacts DEF EInv
    <3>2. PoolTyped(e.pool, Nat) BY <1>1, MemoryFacts
    <3>3. Len(e.pool.free) < BlocksFor(e.len[head])
      BY <3>1, <3>2, CannotAllocate
    <3>4. Len(e.pool.free) \in Nat BY <1>1, FreeBlocks DEF EInv
    <3>5. Len(e.table[head]) = 0 BY <1>7, EmptyQueue
    <3>6. 0 + Len(e.pool.free) = Len(e.pool.free) BY <3>4
    <3> QED BY <1>5, <3>3, <3>5, <3>6 DEF Lacks
  <2>2. FreeTurn(e, head) = e BY <2>1 DEF FreeTurn
  <2>3. PICK f : /\ f[0] = e /\ FreeKvFor(e, head) = f[n]
                 /\ \A i \in 1..n : f[i] = FreeTurn(f[i - 1], head)
    BY <1>2, FreeTurns DEF n
  <2> DEFINE T == {i \in Nat : i <= n => f[i] = e}
  <2>4. 0 \in T BY <2>3
  <2>5. ASSUME NEW i \in T PROVE i + 1 \in T
    <3> SUFFICES ASSUME i + 1 <= n PROVE f[i + 1] = e
      OBVIOUS
    <3>1. i \in Nat /\ i <= n /\ i + 1 \in 1..n /\ (i + 1) - 1 = i BY <1>2
    <3> QED BY <2>2, <2>3, <3>1
  <2>6. T = Nat
    <3>1. T \in SUBSET Nat OBVIOUS
    <3> HIDE DEF T
    <3> QED BY <2>4, <2>5, <3>1, SetInduction
  <2>7. f[n] = e BY <1>2, <2>6
  <2> QED BY <1>7, <2>3, <2>7 DEF FreeKvForWaitingHead, head
<1> QED BY <1>6, <1>7
---------------------------------------------------------------------------
(* schedule() under the reservations: no attempt preempts, and with work   *)
(* to do one of them selects something.                                    *)

Calm(e, A) ==
  /\ Advances(st, e, A) /\ e.preempts = st.preempts /\ Lean(e, Selected(e))
  /\ e.batch = << >> => /\ e.waiting = st.waiting
                        /\ Elems(e.running) = Elems(st.running)

LEMMA CalmStart ==
  ASSUME NEW e, NEW A, Calm(e, A), e.batch = << >>, NEW g, Backed(st, A, g)
  PROVE  Ready(e, A) /\ BatchOK(e, {}) /\ Selected(e) = {} /\ Backed(e, A, g)
         /\ Lean(e, {}) /\ EInv(e, A, {})
<1>1. Ready(e, A) BY AdvancesOn DEF Calm
<1>2. BatchOK(e, {}) /\ Selected(e) = {} BY EmptyBatch
<1>3. Backed(e, A, g) BY BackedOn DEF Calm, Advances
<1>4. Lean(e, {}) BY <1>2 DEF Calm
<1> QED BY <1>1, <1>2, <1>3, <1>4 DEF Ready

LEMMA CalmPrefill ==
  ASSUME NEW e, NEW A, Calm(e, A), e.batch = << >>, NEW g, Backed(st, A, g)
  PROVE  /\ Calm(SchedulePrefill(e, MaxBatched), A)
         /\ e.waiting # << >> => SchedulePrefill(e, MaxBatched).batch # << >>
<1> DEFINE d == SchedulePrefill(e, MaxBatched)
<1>1. /\ Ready(e, A) /\ BatchOK(e, {}) /\ Selected(e) = {} /\ Backed(e, A, g)
      /\ Lean(e, {}) /\ EInv(e, A, {})
  BY CalmStart
<1>2. MaxBatched \in Nat /\ MaxBatched > 0 /\ MaxBatched <= MaxBatched
  BY CoreAssumption
<1>3. Advances(st, d, A)
  <2>1. Advances(e, d, A) BY <1>1, <1>2, PrefillAdvances
  <2> HIDE DEF d
  <2> QED BY <2>1, AdvancesOn DEF Calm
<1>4. Len(e.batch) = 0 /\ Len(<< >>) = 0 BY EmptyQueue
<1>5. /\ d.preempts = e.preempts
      /\ Lean(e, Selected(e)) => Lean(d, Selected(d))
      /\ \/ Len(d.batch) > Len(e.batch)
         \/ /\ d = e
            /\ e.waiting # << >> /\ MaxBatched > 0 => Lacks(e, Head(e.waiting))
  <2>1. Selected(e) \cap Elems(e.waiting) = {} BY <1>1
  <2> QED BY <1>1, <1>2, <2>1, PrefillSpares
<1> HIDE DEF d
<1>6. d.batch # << >> \/ d = e BY <1>4, <1>5
<1>7. Calm(d, A) BY <1>3, <1>5, <1>6 DEF Calm
<1>8. ASSUME e.waiting # << >> PROVE d.batch # << >>
  <2> DEFINE q == e.waiting
  <2>1. q \in Seq(SeqIds) /\ Distinct(q) /\ q # << >> BY <1>1, <1>8, QueueFacts
  <2> HIDE DEF q
  <2>2. Head(q) \in Elems(q) BY <2>1, HeadTail
  <2>3. Head(q) \in A \ e.finished BY <1>1, <2>2 DEF EInv, Queues, q
  <2>4. ~ Lacks(e, Head(q)) BY <1>1, <2>3, Spare DEF Lean
  <2> QED BY <1>2, <1>4, <1>5, <1>8, <2>4 DEF q
<1> QED BY <1>7, <1>8 DEF d

LEMMA CalmDecode ==
  ASSUME NEW e, NEW A, Calm(e, A), e.batch = << >>, NEW g, Backed(st, A, g),
         NEW budget \in Nat, NEW rotate \in BOOLEAN
  PROVE  /\ Calm(ScheduleDecode(e, budget, rotate), A)
         /\ e.running # << >> /\ budget > 0 =>
              ScheduleDecode(e, budget, rotate).batch # << >>
<1> DEFINE d == ScheduleDecode(e, budget, rotate)
<1>1. Ready(e, A) /\ Backed(e, A, g) /\ Lean(e, {}) BY CalmStart
<1>2. Advances(st, d, A)
  <2>1. Advances(e, d, A) BY <1>1, DecodeAdvances
  <2> HIDE DEF d
  <2> QED BY <2>1, AdvancesOn DEF Calm
<1>3. /\ d.preempts = e.preempts /\ Lean(d, Selected(d))
      /\ d.batch = << >> => /\ d.waiting = e.waiting
                            /\ Elems(d.running) = Elems(e.running)
      /\ e.running # << >> /\ budget > 0 => d.batch # << >>
  BY <1>1, DecodeKeeps
<1> HIDE DEF d
<1>4. Calm(d, A) BY <1>2, <1>3 DEF Calm
<1> QED BY <1>3, <1>4 DEF d

(* A decode attempt that is to find something has a budget.                *)
LEMMA BudgetLeft ==
  ASSUME EngineOK, NEW e, e.waiting = << >>
  PROVE  Engine!FallbackBudget(e) \in Nat /\ Engine!FallbackBudget(e) > 0
<1>1. DecodeBudget \in Nat /\ MaxNumSeqs \in Nat /\ MaxNumSeqs > 0
  BY AdmissionAssumption, CoreAssumption
<1>2. CASE Engine!Rotate
  <2>1. Engine!FallbackBudget(e) = DecodeBudget BY <1>2 DEF Engine!FallbackBudget
  <2>2. PICK config \in Configs : config.policy = "decode_first_budgeted"
    BY <1>2 DEF EngineOK, Engine!Rotate, Engine!Policy
  <2>3. DecodeBudget > 0 BY <2>2, AdmissionAssumption
  <2> QED BY <1>1, <2>1, <2>3
<1>3. CASE ~ Engine!Rotate
  <2>1. Engine!FallbackBudget(e) = MaxNumSeqs BY <1>3 DEF Engine!FallbackBudget
  <2> QED BY <1>1, <2>1
<1> QED BY <1>2, <1>3

LEMMA FirstDecodeCalm ==
  ASSUME EngineOK, NEW A, Ready(st, A), NEW g, Backed(st, A, g), Lean(st, {})
  PROVE  Calm(Engine!FirstDecode, A)
<1>1. /\ fb.tokens \in Nat /\ DecodeBudget \in Nat /\ MaxNumSeqs \in Nat
      /\ TRUE \in BOOLEAN
  BY AdmissionAssumption, CoreAssumption DEF EngineOK
<1>2. Calm(st, A) /\ st.batch = << >>
  <2>1. st.batch = << >> BY DEF Ready
  <2>2. Selected(st) = {} BY <2>1, EmptyBatch
  <2> QED BY <2>1, <2>2, ReadyGood DEF Calm
<1>3. Calm(Engine!ScheduleDecode(st, DecodeBudget, TRUE), A)
  BY <1>1, <1>2, CalmDecode, EngineIsCore
<1> DEFINE size == Engine!SmallerOf(MaxNumSeqs, Engine!TokensLeft)
<1>4. ASSUME Engine!TokensLeft > 0
      PROVE  Calm(Engine!ScheduleDecode(st, size, TRUE), A)
  <2>1. size \in Nat
    BY <1>1, <1>4, EngineIsCore DEF Engine!TokensLeft, SmallerOf
  <2> HIDE DEF size
  <2> QED BY <1>1, <1>2, <2>1, CalmDecode, EngineIsCore
<1>5. st.waiting # << >> => Calm(Engine!FreeKvForWaitingHead(st), A)
  BY <1>2, FreeKeeps, EngineIsCore
<1> QED BY <1>2, <1>3, <1>4, <1>5 DEF Engine!FirstDecode

LEMMA ScheduleServes ==
  ASSUME EngineOK, NEW A, Ready(st, A), NEW g, Backed(st, A, g), Lean(st, {}),
         st.waiting # << >> \/ st.running # << >>
  PROVE  LET e == Engine!ScheduleImpl.st
         IN  /\ e.batch # << >> /\ e.preempts = st.preempts
             /\ Lean(e, Selected(e))
<1> DEFINE Fruitful(r) == Calm(r.st, A) /\ r.st.batch # << >>
<1>1. ASSUME NEW e, Calm(e, A), e.batch # << >>, NEW counted \in BOOLEAN
      PROVE  Fruitful(Engine!Prefilled(e)) /\ Fruitful(Engine!Decoding(e, counted))
  <2>1. Engine!Prefilled(e).st = e BY OutcomeFields DEF Engine!Prefilled
  <2>2. Engine!Decoding(e, counted).st = e BY OutcomeFields DEF Engine!Decoding
  <2> QED BY <1>1, <2>1, <2>2
<1> HIDE DEF Fruitful
<1>2. ASSUME NEW e, Calm(e, A), e.batch = << >>, e.waiting = << >>
      PROVE  Fruitful(Engine!AfterFirstPrefill(e))
  <2> DEFINE budget == Engine!FallbackBudget(e)
             d == Engine!ScheduleDecode(e, budget, Engine!Rotate)
  <2>1. budget \in Nat /\ budget > 0 BY <1>2, BudgetLeft
  <2>2. Engine!Rotate \in BOOLEAN BY DEF Engine!Rotate
  <2>3. e.running # << >>
    <3>1. st.waiting = << >> /\ st.running # << >>
          /\ Elems(e.running) = Elems(st.running)
      BY <1>2 DEF Calm
    <3>2. st.running \in Seq(SeqIds) /\ Distinct(st.running)
      BY QueueFacts DEF Ready
    <3> DEFINE q == st.running
    <3>3. q \in Seq(SeqIds) /\ Distinct(q) /\ q # << >> BY <3>1, <3>2
    <3> HIDE DEF q
    <3>4. Head(q) \in Elems(q) BY <3>3, HeadTail
    <3>5. Elems(<< >>) = {} BY EmptyQueue
    <3> QED BY <3>1, <3>4, <3>5 DEF q
  <2> HIDE DEF budget
  <2>4. Calm(d, A) /\ d.batch # << >>
    BY <1>2, <2>1, <2>2, <2>3, CalmDecode, EngineIsCore
  <2>5. Engine!AfterFirstPrefill(e) = Engine!AfterFallback(d)
    BY <1>2 DEF Engine!AfterFirstPrefill, budget
  <2> HIDE DEF d
  <2>6. (Engine!Rotate /\ d.waiting # << >>) \in BOOLEAN OBVIOUS
  <2> QED BY <1>1, <2>4, <2>5, <2>6 DEF Engine!AfterFallback, Engine!Counted
<1>3. ASSUME NEW e, Calm(e, A) PROVE Fruitful(Engine!AfterFirstDecode(e))
  <2>1. CASE e.batch # << >>
    <3>1. (st.waiting # << >>) \in BOOLEAN OBVIOUS
    <3> QED BY <1>1, <1>3, <2>1, <3>1 DEF Engine!AfterFirstDecode
  <2>2. CASE e.batch = << >>
    <3> DEFINE d == Engine!SchedulePrefill(e, MaxBatched)
    <3>1. Calm(d, A) /\ (e.waiting # << >> => d.batch # << >>)
      BY <1>3, <2>2, CalmPrefill, EngineIsCore
    <3>2. Engine!AfterFirstDecode(e) = Engine!AfterFirstPrefill(d)
      BY <2>2 DEF Engine!AfterFirstDecode
    <3> HIDE DEF d
    <3>3. CASE d.batch # << >>
      <4>1. TRUE \in BOOLEAN OBVIOUS
      <4> QED BY <1>1, <3>1, <3>2, <3>3, <4>1 DEF Engine!AfterFirstPrefill
    <3>4. CASE d.batch = << >>
      <4>1. d.waiting = << >> BY <1>3, <2>2, <3>1, <3>4 DEF Calm
      <4> QED BY <1>2, <3>1, <3>2, <3>4, <4>1
    <3> QED BY <3>3, <3>4
  <2> QED BY <2>1, <2>2
<1>4. Fruitful(Engine!ScheduleImpl)
  BY <1>3, FirstDecodeCalm DEF Engine!ScheduleImpl
<1> QED BY <1>4 DEF Fruitful, Calm
---------------------------------------------------------------------------
(* The reservations of the full footprint cover the engine.                *)

LEMMA TotalNone ==
  ASSUME NEW g, \A s \in SeqIds : g[s] = 0
  PROVE  Total(g) = 0
<1>1. NumSeqs \in Nat /\ SeqIds = 1..NumSeqs BY CoreAssumption DEF SeqIds
<1>2. PICK f : /\ f[0] = 0 /\ Total(g) = f[NumSeqs]
               /\ \A i \in 1..NumSeqs : f[i] = f[i - 1] + g[i]
  BY TotalTurns
<1> DEFINE T == {n \in Nat : n <= NumSeqs => f[n] = 0}
<1>3. 0 \in T BY <1>2
<1>4. ASSUME NEW n \in T PROVE n + 1 \in T
  <2> SUFFICES ASSUME n + 1 <= NumSeqs PROVE f[n + 1] = 0
    OBVIOUS
  <2>1. n \in Nat /\ n <= NumSeqs /\ n + 1 \in 1..NumSeqs /\ (n + 1) - 1 = n
    BY <1>1
  <2> QED BY <1>1, <1>2, <2>1
<1>5. T = Nat
  <2>1. T \in SUBSET Nat OBVIOUS
  <2> HIDE DEF T
  <2> QED BY <1>3, <1>4, <2>1, SetInduction
<1>6. f[NumSeqs] = 0 BY <1>1, <1>5
<1> QED BY <1>2, <1>6

LEMMA FootprintType ==
  ASSUME NEW e, Setup(e), NEW r \in SeqIds
  PROVE  Footprint(e, r) \in Nat
<1>1. e.plen[r] \in Nat \ {0} /\ e.maxTokens[r] \in Nat \ {0} BY DEF Setup
<1>2. e.plen[r] + e.maxTokens[r] - 1 \in Nat BY <1>1
<1> QED BY <1>2, BlocksForFacts DEF Footprint

(* Under the policy every unfinished request has a reservation.            *)
LEMMA Reserving ==
  ASSUME AdmissionInv, ByFootprint, Open
  PROVE  /\ Enabled /\ ~ PrefixAware /\ DOMAIN reserved = Unfinished
         /\ Good(st, admitted) /\ admitted \subseteq SeqIds
<1>1. Enabled /\ ~ PrefixAware BY DEF ByFootprint, Enabled, PrefixAware
<1>2. Good(st, admitted) BY DEF AdmissionInv, EngineOK
<1>3. admitted \subseteq SeqIds BY <1>2, GoodWork
<1> QED BY <1>1, <1>2, <1>3 DEF AdmissionInv, ReservationsOK

LEMMA InitCover == Init => CoverInv
<1> SUFFICES ASSUME Init PROVE Covered /\ st.preempts = 0 /\ ~ failed
  BY DEF CoverInv
<1>1. PICK config \in Configs, kind \in [SeqIds -> Kinds] : st = Fresh(config, kind)
  BY DEF Init
<1>2. reserved = << >> /\ admitted = {} /\ failed = FALSE BY DEF Init
<1>3. st.preempts = 0 /\ st.running = << >> /\ st.batch = << >> BY <1>1 DEF Fresh
<1>4. EInv(st, {}, {}) BY <1>1, FreshFacts DEF Ready
<1>5. DOMAIN reserved = {} BY <1>2
<1>6. Backed(st, {}, Holding(reserved))
  <2> DEFINE g == Holding(reserved)
  <2>1. g \in [SeqIds -> Nat] /\ \A s \in SeqIds : g[s] = 0 BY <1>5 DEF Holding
  <2> HIDE DEF g
  <2>2. Total(g) = 0 BY <2>1, TotalNone
  <2>3. Total(g) <= NumBlocks BY <2>2, PoolAssumption
  <2> QED BY <2>1, <2>3 DEF Backed, g
<1>7. Lean(st, Selected(st))
  <2>1. \A s \in SeqIds : Vacant(st, s) BY <1>4 DEF EInv, Queues, Placed
  <2>2. ASSUME NEW s \in SeqIds PROVE Len(st.table[s]) <= BlocksFor(st.len[s])
    <3>1. Len(st.table[s]) = 0 BY <2>1, EmptyQueue DEF Vacant
    <3>2. BlocksFor(st.len[s]) \in Nat BY <1>4, TokensFacts, BlocksForFacts DEF EInv
    <3> QED BY <3>1, <3>2
  <2>3. Elems(st.running) = {} BY <1>3, EmptyQueue
  <2> QED BY <2>2, <2>3 DEF Lean
<1> QED BY <1>2, <1>3, <1>5, <1>6, <1>7 DEF Covered

LEMMA AdmitCover ==
  ASSUME AdmissionInv, CoverInv, Admit
  PROVE  CoverInv'
<1> DEFINE r == Head(queue)
           g == Holding(reserved)
           h == Holding(reserved')
<1>1. /\ Admitting /\ reserved' = Reserve(r) /\ st' = Added(st, r) /\ loop' = loop
      /\ CanAdmit(r)
  BY DEF Admit, Admitting
<1>2. /\ r \in SeqIds /\ r \notin admitted /\ admitted' = admitted \union {r}
      /\ loop = "admit" /\ policy' = policy /\ failed' = failed
  BY <1>1, AdmittingQueue
<1> HIDE DEF r
<1> SUFFICES ASSUME ByFootprint
             PROVE  st'.preempts = 0 /\ ~ failed' /\ Covered'
  BY <1>2 DEF CoverInv, ByFootprint
<1>3. Open /\ st.preempts = 0 /\ ~ failed /\ Covered
  BY <1>2 DEF CoverInv, Open
<1>4. /\ Enabled /\ ~ PrefixAware /\ DOMAIN reserved = Unfinished
      /\ Good(st, admitted) /\ admitted \subseteq SeqIds
  BY <1>3, Reserving
<1>5. /\ st'.preempts = st.preempts /\ st'.batch = st.batch
      /\ st'.running = st.running /\ st'.table = st.table /\ st'.len = st.len
      /\ st'.plen = st.plen /\ st'.maxTokens = st.maxTokens
      /\ st'.finished = st.finished
  <2>1. DOMAIN st = EngineFields BY <1>4 DEF Good, EInv, Setup
  <2> QED BY <1>1, <2>1 DEF Added, EngineFields
<1>6. \A q \in SeqIds : Footprint(st', q) = Footprint(st, q)
  BY <1>5 DEF Footprint
<1>7. ReservationBlocks(r) = Footprint(st, r)
  BY <1>4 DEF ReservationBlocks, RequiredBlocks, Footprint
<1>8. /\ DOMAIN reserved' = DOMAIN reserved \union {r}
      /\ reserved'[r] = Footprint(st, r)
      /\ \A q \in DOMAIN reserved : q # r => reserved'[q] = reserved[q]
  BY <1>1, <1>4, <1>7 DEF Reserve
<1>9. DOMAIN reserved \subseteq SeqIds /\ r \notin DOMAIN reserved
  BY <1>2, <1>4 DEF Unfinished
<1>10. /\ g \in [SeqIds -> Nat] /\ Total(g) <= NumBlocks
       /\ \A q \in DOMAIN reserved : reserved[q] = Footprint(st, q)
       /\ Lean(st, Selected(st))
  BY <1>3 DEF Covered, Backed
<1>11. \A q \in SeqIds : Footprint(st, q) \in Nat
  BY <1>4, FootprintType DEF Good, EInv
<1>12. h = [q \in SeqIds |-> IF q \in DOMAIN reserved' THEN reserved'[q] ELSE 0]
  BY DEF Holding
<1>13. g = [q \in SeqIds |-> IF q \in DOMAIN reserved THEN reserved[q] ELSE 0]
  BY DEF Holding
<1> HIDE DEF g, h
<1>14. /\ g[r] = 0 /\ h[r] = Footprint(st, r)
       /\ \A q \in SeqIds \ {r} : h[q] = g[q]
       /\ \A q \in DOMAIN reserved : q # r /\ g[q] = Footprint(st, q)
  BY <1>2, <1>8, <1>9, <1>10, <1>12, <1>13
<1>15. h \in [SeqIds -> Nat]
  <2>1. \A q \in SeqIds : h[q] \in Nat
    <3>1. \A q \in SeqIds : g[q] \in Nat BY <1>10
    <3> QED BY <1>11, <1>14, <3>1
  <2> QED BY <1>12, <2>1
<1>16. Total(h) <= NumBlocks
  <2>1. \A q \in SeqIds \ {r} : h[q] <= g[q]
    <3>1. \A q \in SeqIds : g[q] \in Nat BY <1>10
    <3> QED BY <1>14, <3>1
  <2>2. Total(h) \in Nat /\ Total(g) \in Nat /\ Total(h) + g[r] <= Total(g) + h[r]
    BY <1>2, <1>10, <1>15, <2>1, TotalCompare
  <2>3. ReservedBlocks = Total(g) BY ReservedTotal DEF g
  <2>4. Total(g) + h[r] <= NumBlocks BY <1>1, <1>4, <1>7, <1>14, <2>3 DEF CanAdmit
  <2>5. h[r] \in Nat /\ NumBlocks \in Nat BY <1>2, <1>15, PoolAssumption
  <2> QED BY <1>14, <2>2, <2>4, <2>5
<1>17. Backed(st', admitted', h)
  <2>1. ASSUME NEW q \in admitted' \ st'.finished PROVE Footprint(st', q) <= h[q]
    <3>1. q \in SeqIds /\ Footprint(st, q) \in Nat BY <1>2, <1>4, <1>11
    <3>2. h[q] = Footprint(st, q)
      <4>1. CASE q = r BY <1>14, <4>1
      <4>2. CASE q # r
        <5>1. q \in DOMAIN reserved BY <1>2, <1>4, <1>5, <2>1, <4>2 DEF Unfinished
        <5> QED BY <1>14, <3>1, <4>2, <5>1
      <4> QED BY <4>1, <4>2
    <3> QED BY <1>6, <3>1, <3>2
  <2> QED BY <1>15, <1>16, <2>1 DEF Backed
<1>18. \A q \in DOMAIN reserved' : reserved'[q] = Footprint(st', q)
  BY <1>2, <1>6, <1>8, <1>9, <1>10
<1>19. Lean(st', Selected(st'))
  BY <1>5, <1>10 DEF Lean, Selected
<1> QED BY <1>2, <1>3, <1>5, <1>17, <1>18, <1>19 DEF Covered, h

LEMMA StepCover ==
  ASSUME AdmissionInv, CoverInv, Step
  PROVE  CoverInv'
<1> DEFINE e == Engine!ScheduleImpl.st
<1>1. /\ loop = "admit" /\ Ready(st, admitted) /\ Fine(Engine!ScheduleImpl, st, admitted)
      /\ st' = e /\ failed' = (e.batch = << >>)
      /\ policy' = policy /\ reserved' = reserved /\ admitted' = admitted
  BY StepTakes
<1>2. st.waiting # << >> \/ st.running # << >>
  BY DEF Step, Engine!StaticSchedule, Engine!Takes, Engine!CanSchedule
<1>3. Advances(st, st', admitted) BY <1>1 DEF Fine
<1> SUFFICES ASSUME ByFootprint
             PROVE  st'.preempts = 0 /\ ~ failed' /\ Covered'
  BY <1>1 DEF CoverInv, ByFootprint
<1>4. st.preempts = 0 /\ Covered BY <1>1 DEF CoverInv, Open
<1>5. Lean(st, {})
  <2>1. Selected(st) = {} BY <1>1, EmptyBatch DEF Ready
  <2> QED BY <1>4, <2>1 DEF Covered
<1>6. Backed(st, admitted, Holding(reserved)) BY <1>4 DEF Covered
<1>7. e.batch # << >> /\ e.preempts = st.preempts /\ Lean(e, Selected(e))
  BY <1>1, <1>2, <1>5, <1>6, ScheduleServes DEF AdmissionInv
<1> HIDE DEF e
<1>8. Backed(st', admitted, Holding(reserved)) BY <1>3, <1>6, BackedOn DEF Advances
<1>9. \A q : Footprint(st', q) = Footprint(st, q)
  BY <1>3 DEF Footprint, Advances, SameBooks
<1> QED BY <1>1, <1>4, <1>7, <1>8, <1>9 DEF Covered

LEMMA ResultsCover ==
  ASSUME AdmissionInv, CoverInv, Results
  PROVE  CoverInv'
<1> DEFINE done == st'.finished \ st.finished
           g == Holding(reserved)
           h == Holding(reserved')
<1>1. /\ loop = "model" /\ Good(st, admitted) /\ Served(st, st', admitted)
      /\ reserved' = ReleasedFor(done)
      /\ policy' = policy /\ admitted' = admitted /\ failed' = failed
  BY ResultsTake
<1> SUFFICES ASSUME ByFootprint
             PROVE  st'.preempts = 0 /\ ~ failed' /\ Covered'
  BY <1>1 DEF CoverInv, ByFootprint
<1>2. Open /\ ~ failed /\ Covered BY <1>1 DEF CoverInv, Open
<1>3. /\ DOMAIN reserved = Unfinished /\ admitted \subseteq SeqIds
  BY <1>2, Reserving
<1>4. /\ Ready(st', admitted) /\ SameLimits(st, st') /\ st'.preempts = 0
      /\ \A r \in SeqIds : /\ Emits(st, st', r) /\ Shrinks(st, st', r)
                           /\ r \notin Selected(st) => Unmoved(st, st', r)
      /\ Leaves(st, st') /\ \A r \in Selected(st) : Progresses(st, st', r)
  BY <1>1 DEF Served
<1>5. \A q : Footprint(st', q) = Footprint(st, q)
  BY <1>4 DEF Footprint, SameLimits
<1>6. /\ DOMAIN reserved' = DOMAIN reserved \ done
      /\ \A q \in DOMAIN reserved' : reserved'[q] = reserved[q]
  BY <1>1 DEF ReleasedFor
<1>7. /\ g \in [SeqIds -> Nat] /\ Total(g) <= NumBlocks
      /\ \A q \in DOMAIN reserved : reserved[q] = Footprint(st, q)
      /\ Lean(st, Selected(st))
  BY <1>2 DEF Covered, Backed
<1>8. h = [q \in SeqIds |-> IF q \in DOMAIN reserved' THEN reserved'[q] ELSE 0]
  BY DEF Holding
<1>9. g = [q \in SeqIds |-> IF q \in DOMAIN reserved THEN reserved[q] ELSE 0]
  BY DEF Holding
<1>10. \A q \in SeqIds : Footprint(st, q) \in Nat
  BY <1>1, FootprintType DEF Good, EInv
<1> HIDE DEF g, h
<1>11. /\ h \in [SeqIds -> Nat] /\ Total(h) <= NumBlocks
  <2>1. \A q \in SeqIds : h[q] = g[q] \/ h[q] = 0 BY <1>6, <1>8, <1>9
  <2>2. \A q \in SeqIds : g[q] \in Nat BY <1>7
  <2>3. \A q \in SeqIds : h[q] \in Nat /\ h[q] <= g[q] BY <2>1, <2>2
  <2>4. h \in [SeqIds -> Nat] BY <1>8, <2>3
  <2>5. Total(h) \in Nat /\ Total(g) \in Nat /\ Total(h) <= Total(g)
    BY <1>7, <2>3, <2>4, TotalMonotone
  <2>6. NumBlocks \in Nat BY PoolAssumption
  <2> QED BY <1>7, <2>4, <2>5, <2>6
<1>12. Backed(st', admitted, h)
  <2>1. ASSUME NEW q \in admitted \ st'.finished PROVE Footprint(st', q) <= h[q]
    <3>1. q \in SeqIds /\ Footprint(st, q) \in Nat BY <1>3, <1>10
    <3>2. q \notin st.finished BY <1>4, <2>1, <3>1 DEF Emits
    <3>3. q \in DOMAIN reserved' BY <1>3, <1>6, <2>1, <3>2 DEF Unfinished
    <3>4. h[q] = Footprint(st, q) BY <1>6, <1>7, <1>8, <3>1, <3>3
    <3> QED BY <1>5, <3>1, <3>4
  <2> QED BY <1>11, <2>1 DEF Backed
<1>13. \A q \in DOMAIN reserved' : reserved'[q] = Footprint(st', q)
  BY <1>5, <1>6, <1>7
<1>14. \A q \in SeqIds : /\ st.len[q] \in Nat /\ st.len[q] > 0
                         /\ st'.len[q] \in {st.len[q], st.len[q] + 1}
                         /\ Len(st'.table[q]) \in {Len(st.table[q]), 0}
                         /\ Len(st.table[q]) \in Nat
  <2> SUFFICES ASSUME NEW q \in SeqIds
               PROVE  /\ st.len[q] \in Nat /\ st.len[q] > 0
                      /\ st'.len[q] \in {st.len[q], st.len[q] + 1}
                      /\ Len(st'.table[q]) \in {Len(st.table[q]), 0}
                      /\ Len(st.table[q]) \in Nat
    OBVIOUS
  <2>1. EInv(st, admitted, {}) BY <1>1 DEF Good
  <2>2. st.len[q] \in Nat /\ st.len[q] > 0 BY <2>1, TokensFacts DEF EInv
  <2>3. Len(st.table[q]) \in Nat BY <2>1, MemoryFacts, LenProperties
  <2>4. st'.len[q] \in {st.len[q], st.len[q] + 1} BY <1>4 DEF Emits
  <2>5. st'.table[q] \in {st.table[q], << >>} BY <1>4 DEF Shrinks
  <2>6. Len(<< >>) = 0 BY EmptyQueue
  <2> QED BY <2>2, <2>3, <2>4, <2>5, <2>6
<1>15. ASSUME NEW q \in SeqIds PROVE Len(st'.table[q]) <= BlocksFor(st'.len[q])
  <2>1. Len(st.table[q]) <= BlocksFor(st.len[q]) BY <1>7 DEF Lean
  <2>2. st.len[q] <= st'.len[q] /\ st'.len[q] \in Nat BY <1>14
  <2>3. /\ BlocksFor(st.len[q]) \in Nat /\ BlocksFor(st'.len[q]) \in Nat
        /\ BlocksFor(st.len[q]) <= BlocksFor(st'.len[q])
    BY <1>14, <2>2, BlocksForFacts, BlocksForMonotone
  <2> QED BY <1>14, <2>1, <2>3
<1>16. ASSUME NEW q \in Elems(st'.running)
       PROVE  Len(st'.table[q]) <= BlocksFor(st'.len[q] - 1)
  <2>1. q \in SeqIds BY <1>4, QueueFacts DEF Ready
  <2>2. CASE q \in Selected(st)
    <3>1. st'.len[q] = st.len[q] + 1 BY <1>4, <2>2 DEF Progresses
    <3>2. st'.len[q] - 1 = st.len[q] BY <1>14, <2>1, <3>1
    <3>3. BlocksFor(st.len[q]) \in Nat BY <1>14, <2>1, BlocksForFacts
    <3>4. Len(st.table[q]) <= BlocksFor(st.len[q]) BY <1>7, <2>1 DEF Lean
    <3> QED BY <1>14, <2>1, <3>2, <3>3, <3>4
  <2>3. CASE q \notin Selected(st)
    <3>1. /\ st'.table[q] = st.table[q] /\ st'.len[q] = st.len[q]
          /\ q \in Elems(st.running)
      BY <1>4, <2>1, <2>3 DEF Unmoved, Untouched
    <3>2. Len(st.table[q]) <= BlocksFor(st.len[q] - 1) BY <1>7, <2>3, <3>1 DEF Lean
    <3> QED BY <3>1, <3>2
  <2> QED BY <2>2, <2>3
<1>17. Lean(st', Selected(st')) BY <1>15, <1>16 DEF Lean
<1> QED BY <1>1, <1>2, <1>4, <1>12, <1>13, <1>17 DEF Covered, h

LEMMA NextCover == AdmissionInv /\ CoverInv /\ [Next]_vars => CoverInv'
<1> SUFFICES ASSUME AdmissionInv, CoverInv, [Next]_vars PROVE CoverInv'
  OBVIOUS
<1>1. ASSUME st' = st, reserved' = reserved, admitted' = admitted,
             policy' = policy, failed' = failed, Open' => Open
      PROVE  CoverInv'
  BY <1>1 DEF CoverInv, Covered, ByFootprint
<1>2. ASSUME st' = st, policy' = policy, failed' = failed, ~ Open'
      PROVE  CoverInv'
  BY <1>2 DEF CoverInv, ByFootprint
<1>3. CASE Turn BY <1>1, <1>3 DEF Turn, engine, books, Open
<1>4. CASE RejectLate BY <1>1, <1>4 DEF RejectLate, Reject, engine, Open
<1>5. CASE RejectEarly BY <1>1, <1>5 DEF RejectEarly, Reject, engine, Open
<1>6. CASE Admit BY <1>6, AdmitCover
<1>7. CASE AdmitFails BY <1>2, <1>7 DEF AdmitFails, Admitting, Open
<1>8. CASE Idle BY <1>1, <1>8 DEF Idle, engine, books, Open
<1>9. CASE Step BY <1>9, StepCover
<1>10. CASE Results BY <1>10, ResultsCover
<1>11. CASE Close BY <1>2, <1>11 DEF Close, engine, Open
<1>12. CASE UNCHANGED vars BY <1>1, <1>12 DEF vars, engine, books, Open
<1>13. CASE Closed BY <1>12, <1>13 DEF Closed
<1> QED BY <1>3, <1>4, <1>5, <1>6, <1>7, <1>8, <1>9, <1>10, <1>11, <1>12, <1>13
        DEF Next

(* Under kv_aware_fifo every admitted request has its footprint reserved,  *)
(* the reservations fit into the cache, and no sequence has more blocks    *)
(* than its tokens need.                                                   *)
THEOREM CoverInvariant == Spec => []CoverInv
<1>1. Init => CoverInv BY InitCover
<1>2. AdmissionInv /\ CoverInv /\ [Next]_vars => CoverInv' BY NextCover
<1>3. Spec => []AdmissionInv BY AdmissionInvariant
<1> QED BY <1>1, <1>2, <1>3, PTL DEF Spec

(* The blocks in use never exceed what admission believes to be taken, as  *)
(* long as it reserves the full footprint.                                 *)
THEOREM FullReservationsStayCovered == Spec => []FullReservationsCover
<1>1. AdmissionInv /\ CoverInv => FullReservationsCover
  <2> SUFFICES ASSUME AdmissionInv, CoverInv, ~ PrefixAware, Enabled,
                      loop \notin {"raised", "closed"}
               PROVE  Cardinality(st.pool.used) <= ReservedBlocks
    BY DEF FullReservationsCover, ReservationsCover
  <2>1. ByFootprint
    BY AdmissionAssumption DEF AdmissionInv, ByFootprint, PrefixAware, Enabled
  <2>2. Open BY DEF AdmissionInv, Open
  <2>3. Covered BY <2>1, <2>2 DEF CoverInv
  <2>4. EInv(st, admitted, {}) BY <2>1, <2>2, Reserving DEF Good
  <2>5. Cardinality(st.pool.used) <= Total(Holding(reserved))
    BY <2>3, <2>4, Spare DEF Covered, Lean
  <2> QED BY <2>5, ReservedTotal
<1> QED BY <1>1, AdmissionInvariant, CoverInvariant, PTL

(* Admission by full footprint keeps KV pressure out of the engine: nobody *)
(* is preempted and schedule() always finds something to do.               *)
THEOREM FootprintsPreventPreemption == Spec => []NoPreemption
<1>1. CoverInv => NoPreemption BY DEF CoverInv, NoPreemption, ByFootprint
<1> QED BY <1>1, CoverInvariant, PTL
=============================================================================
