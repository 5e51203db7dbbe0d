--------------------------- MODULE SchedulerProofs ---------------------------
(***************************************************************************)
(* The scheduler with its eight policies keeps every engine sound and      *)
(* keeps the promise of module Serving, for any number of requests, any    *)
(* KV cache and any setting of the policies.  The second half is about     *)
(* progress: which requests schedule() serves, in which order, and that it *)
(* never fails to select any.                                              *)
(***************************************************************************)
EXTENDS Scheduler, SchedulerCoreProofs

---------------------------------------------------------------------------
(* _rank_running_for_drain only permutes the running queue.                *)

LEMMA Negated ==
  ASSUME NEW r \in Int, NEW g \in Int
  PROVE  (0 - r) * g = 0 - r * g
OBVIOUS

LEMMA NeverBeforeItself ==
  ASSUME NEW a \in Int, NEW b \in Int, NEW c \in Int, NEW d \in Int, NEW x \in Int
  PROVE  ~ Precedes(<<a, b, c, d, x>>, <<a, b, c, d, x>>)
<1>1. DOMAIN <<a, b, c, d, x>> = 1..5
  OBVIOUS
<1>2. \A i \in 1..5 : i = 1 \/ i = 2 \/ i = 3 \/ i = 4 \/ i = 5
  OBVIOUS
<1>3. ~ (a < a) /\ ~ (b < b) /\ ~ (c < c) /\ ~ (d < d) /\ ~ (x < x)
  OBVIOUS
<1> QED BY <1>1, <1>2, <1>3 DEF Precedes

(* The figures of the drain key are numbers.                               *)
LEMMA RemainingFacts ==
  ASSUME NEW e, NEW A, NEW X, EInv(e, A, X), NEW s \in SeqIds
  PROVE  Remaining(e, s) \in Nat /\ LargerOf(Remaining(e, s), 1) \in Nat \ {0}
<1>1. e.len[s] \in Nat /\ e.plen[s] \in Nat /\ e.maxTokens[s] \in Nat
  BY DEF EInv, Setup
<1>2. Remaining(e, s) \in Nat
  BY <1>1 DEF Remaining, Completion, LargerOf
<1> QED BY <1>2 DEF LargerOf

(* e and d differ in the order of the running queue only.                  *)
Reordered(e, d, A) ==
  /\ EInv(d, A, {}) /\ SameBooks(e, d) /\ d.batch = e.batch
  /\ d.waiting = e.waiting /\ Elems(d.running) = Elems(e.running)
  /\ Len(d.running) = Len(e.running)

LEMMA DrainOrderFacts ==
  ASSUME NEW e, NEW A, EInv(e, A, {})
  PROVE  LET q == e.running
             r == InDrainOrder(e, q)
         IN  /\ r \in Seq(SeqIds) /\ Distinct(r) /\ Elems(r) = Elems(q)
             /\ Len(r) = Len(q)
<1> DEFINE q == e.running
           T == Elems(q)
           m == Len(q)
           Z == [s \in T |-> IF e.len[s] % BlockSize = 1 THEN 1 ELSE 0]
           F == [s \in T |-> 0 - Releasable(e, s)]
           G == [s \in T |-> LargerOf(Remaining(e, s), 1)]
           C == [s \in T |-> 0 - EstimatedRecompute(e, s)]
           D == [s \in T |-> Remaining(e, s)]
           R == Ranking(Z, F, G, C, D, T)
           Sorted(r) == /\ Elems(r) = Elems(q)
                        /\ \A i, j \in 1..m : i < j => DrainsBefore(e, r[i], r[j])
<1>1. /\ q \in Seq(SeqIds) /\ Distinct(q) /\ m \in Nat
      /\ T \subseteq SeqIds /\ IsFiniteSet(T) /\ Cardinality(T) = m
  BY QueueFacts, DistinctLen
<1>2. T \in SUBSET Int
  BY <1>1 DEF SeqIds
<1>3. \A s \in T : /\ Releasable(e, s) \in Nat /\ EstimatedRecompute(e, s) \in Nat
                   /\ Remaining(e, s) \in Nat
                   /\ LargerOf(Remaining(e, s), 1) \in Nat \ {0}
  <2>1. \A s \in T : s \in Held(e, {}) /\ s \in SeqIds BY <1>1 DEF Held
  <2> HIDE DEF T
  <2> QED BY <2>1, CostFacts, RemainingFacts
<1>4. /\ Z \in [T -> Int] /\ F \in [T -> Int] /\ G \in [T -> Nat \ {0}]
      /\ C \in [T -> Int] /\ D \in [T -> Int]
  <2> HIDE DEF T
  <2> QED BY <1>3
<1>5. ASSUME NEW s \in T, NEW t \in T
      PROVE  DrainKey(e, s, t) = RankKey(Z, F, G, C, D, s, t)
  <2>1. F[s] * G[t] = 0 - Releasable(e, s) * LargerOf(Remaining(e, t), 1)
    <3> DEFINE a == Releasable(e, s)
               g == LargerOf(Remaining(e, t), 1)
    <3>1. a \in Int /\ g \in Int BY <1>3
    <3>2. F[s] = 0 - a /\ G[t] = g OBVIOUS
    <3> HIDE DEF a, g, F, G
    <3>3. (0 - a) * g = 0 - a * g BY <3>1, Negated
    <3> QED BY <3>2, <3>3 DEF a, g
  <2>2. Z[s] = (IF e.len[s] % BlockSize = 1 THEN 1 ELSE 0)
        /\ C[s] = 0 - EstimatedRecompute(e, s) /\ D[s] = Remaining(e, s)
    OBVIOUS
  <2> HIDE DEF Z, F, G, C, D, T
  <2> QED BY <2>1, <2>2 DEF DrainKey, RankKey
<1>6. \A s, t \in T : <<s, t>> \in R <=> DrainsBefore(e, s, t)
  <2> SUFFICES ASSUME NEW s \in T, NEW t \in T
               PROVE  <<s, t>> \in R <=> DrainsBefore(e, s, t)
    OBVIOUS
  <2>1. /\ DrainKey(e, s, t) = RankKey(Z, F, G, C, D, s, t)
        /\ DrainKey(e, t, s) = RankKey(Z, F, G, C, D, t, s)
    BY <1>5
  <2>2. <<s, t>> \in T \X T /\ <<s, t>>[1] = s /\ <<s, t>>[2] = t
    OBVIOUS
  <2> HIDE DEF T, Z, F, G, C, D
  <2> QED BY <2>1, <2>2 DEF Ranking, DrainsBefore
<1>7. \A s \in T : ~ DrainsBefore(e, s, s)
  <2> SUFFICES ASSUME NEW s \in T PROVE ~ DrainsBefore(e, s, s)
    OBVIOUS
  <2>1. DrainKey(e, s, s) = RankKey(Z, F, G, C, D, s, s) BY <1>5
  <2>2. s \in Int /\ Z[s] \in Int /\ F[s] * G[s] \in Int /\ C[s] \in Int /\ D[s] \in Int
    <3> HIDE DEF T, Z, F, G, C, D
    <3>1. F[s] \in Int /\ G[s] \in Int BY <1>4
    <3>2. F[s] * G[s] \in Int BY <3>1, Swapped
    <3> QED BY <1>2, <1>4, <3>2
  <2> HIDE DEF T, Z, F, G, C, D
  <2> QED BY <2>1, <2>2, NeverBeforeItself DEF DrainsBefore, RankKey
<1>8. \E r \in [1..m -> T] : Sorted(r)
  <2> HIDE DEF Z, F, G, C, D, T
  <2>1. Orders(R, T) BY <1>2, <1>4, RankingOrders
  <2> HIDE DEF R
  <2>2. T \in SUBSET T OBVIOUS
  <2>3. PICK r \in [1..m -> T] :
             /\ \A x \in T : \E i \in 1..m : r[i] = x
             /\ \A i, j \in 1..m : i < j => <<r[i], r[j]>> \in R
    BY <1>1, <2>1, <2>2, SortedExists
  <2>4. DOMAIN r = 1..m /\ r \in Seq(T)
    BY <1>1
  <2>5. Len(r) = m BY <1>1, <2>4, LenProperties
  <2>6. Elems(r) = T BY <2>3, <2>5 DEF Elems
  <2>7. \A i, j \in 1..m : i < j => DrainsBefore(e, r[i], r[j])
    BY <2>3, <1>6
  <2> QED BY <2>3, <2>6, <2>7 DEF T
<1> DEFINE r == InDrainOrder(e, q)
<1>9. r \in [1..m -> T] /\ Sorted(r)
  BY <1>8 DEF InDrainOrder
<1> HIDE DEF r
<1>10. DOMAIN r = 1..m /\ r \in Seq(SeqIds)
  <2> HIDE DEF T, m
  <2> QED BY <1>1, <1>9
<1>11. Len(r) = m BY <1>1, <1>10, LenProperties
<1>12. Distinct(r)
  <2> SUFFICES ASSUME NEW i \in 1..m, NEW j \in 1..m, r[i] = r[j] PROVE i = j
    BY <1>10 DEF Distinct
  <2>1. r[i] \in T BY <1>9
  <2>2. ~ (i < j) /\ ~ (j < i)
    <3> HIDE DEF T
    <3> QED BY <2>1, <1>7, <1>9
  <2> QED BY <2>2, <1>1
<1> QED BY <1>9, <1>10, <1>11, <1>12 DEF r

LEMMA RankedFacts ==
  ASSUME NEW e, NEW A, EInv(e, A, {})
  PROVE  Reordered(e, Ranked(e), A)
<1> DEFINE r == InDrainOrder(e, e.running)
           d == Ranked(e)
<1>1. r \in Seq(SeqIds) /\ Distinct(r) /\ Elems(r) = Elems(e.running)
      /\ Len(r) = Len(e.running)
  BY DrainOrderFacts
<1>2. d = [e EXCEPT !.running = r]
  BY DEF Ranked
<1> HIDE DEF r, d
<1>3. /\ DOMAIN d = EngineFields /\ SameBooks(e, d) /\ d.batch = e.batch
      /\ d.preempts = e.preempts /\ d.pool = e.pool /\ d.table = e.table
      /\ d.cached = e.cached /\ d.waiting = e.waiting /\ d.running = r
  BY <1>2 DEF EInv, Setup, EngineFields, SameBooks
<1>4. Held(d, {}) = Held(e, {}) BY <1>1, <1>3 DEF Held
<1>5. Setup(d) /\ Memory(d) BY <1>3 DEF EInv, Setup, Memory, SameBooks
<1>6. Queues(d, A, {})
  BY <1>1, <1>3, <1>4 DEF EInv, Queues, SameBooks
<1>7. Placed(d, A, {})
  BY <1>3, <1>4 DEF EInv, Placed, Parked, Resident, Vacant, Capacity, SameBooks
<1> QED BY <1>1, <1>3, <1>5, <1>6, <1>7 DEF Reordered, EInv, d

LEMMA RankedAdvances ==
  ASSUME NEW e, NEW A, Ready(e, A)
  PROVE  Advances(e, Ranked(e), A) /\ Ready(Ranked(e), A)
<1> DEFINE d == Ranked(e)
<1>1. Reordered(e, d, A) BY RankedFacts DEF Ready
<1> HIDE DEF d
<1>2. EInv(d, A, {}) /\ SameBooks(e, d) /\ d.batch = << >>
  BY <1>1 DEF Reordered, Ready
<1> QED BY <1>2, EmptyBatch DEF d, Advances, Good, Ready
---------------------------------------------------------------------------
(* Steps that decode and prefill.                                          *)

(* The rest of the budget goes to prefill: nobody in the batch waits.      *)
LEMMA FillRoom ==
  ASSUME NEW e, NEW A, Good(e, A), ~ HasPrefill(e)
  PROVE  LET t == TokensOf(e.batch)
         IN  /\ t \in Nat /\ t <= MaxBatched /\ MaxBatched - t \in Nat
             /\ Selected(e) \cap Elems(e.waiting) = {}
             /\ PhaseCount(e.batch, "prefill") = 0
             /\ PhaseCount(e.batch, "decode") <= MaxNumSeqs
<1> DEFINE b == e.batch
           t == TokensOf(b)
<1>1. EInv(e, A, {}) /\ BatchOK(e, {}) /\ b \in Seq(Item) /\ Frugal(e)
  BY DEF Good, BatchOK
<1>2. \A k \in 1..Len(b) : b[k] \in Item /\ b[k].phase = "decode"
  <2>1. DOMAIN b = 1..Len(b) /\ \A k \in 1..Len(b) : b[k] \in Item
    BY <1>1, SelectedFacts
  <2>2. \A k \in 1..Len(b) : b[k].phase # "prefill" BY <2>1 DEF HasPrefill
  <2>3. \A x \in Item : x.phase = "prefill" \/ x.phase = "decode" BY DEF Item
  <2> HIDE DEF b
  <2> QED BY <2>1, <2>2, <2>3
<1>3. PhaseCount(b, "prefill") = 0
  <2> DEFINE P == {k \in DOMAIN b : b[k].phase = "prefill"}
  <2>1. P = {} BY DEF HasPrefill
  <2> QED BY <2>1, FS_EmptySet DEF PhaseCount
<1>4. Selected(e) \cap Elems(e.waiting) = {}
  <2>1. ASSUME NEW s \in Selected(e) PROVE s \notin Elems(e.waiting)
    <3>1. PICK k \in 1..Len(b) : b[k].seq = s BY <1>1, SelectedFacts
    <3>2. ItemOK(e, {}, b[k]) BY <1>1 DEF BatchOK
    <3>3. s \in Held(e, {}) BY <3>1, <3>2, <1>2 DEF ItemOK
    <3> QED BY <3>3, <1>1, QueueFacts
  <2> QED BY <2>1
<1>5. /\ t \in Nat /\ t <= MaxBatched /\ MaxBatched - t \in Nat
      /\ PhaseCount(b, "decode") <= MaxNumSeqs
  <2>1. t \in Nat BY <1>1, ConcatTokens
  <2>2. t <= MaxBatched /\ PhaseCount(b, "decode") <= MaxNumSeqs BY <1>1 DEF Frugal
  <2> HIDE DEF t
  <2> QED BY <2>1, <2>2, CoreAssumption
<1> QED BY <1>3, <1>4, <1>5

LEMMA FillUpAdvances ==
  ASSUME NEW e, NEW A, Good(e, A), ~ HasPrefill(e)
  PROVE  Advances(e, FillUp(e), A)
<1> DEFINE b == e.batch
           t == TokensOf(b)
           d == FillUp(e)
<1>1. EInv(e, A, {}) /\ BatchOK(e, {}) /\ Frugal(e) BY DEF Good
<1>3. PhaseCount(b, "prefill") = 0 BY FillRoom
<1>4. Selected(e) \cap Elems(e.waiting) = {} BY FillRoom
<1>5. /\ t \in Nat /\ t <= MaxBatched /\ MaxBatched - t \in Nat
      /\ PhaseCount(b, "decode") <= MaxNumSeqs
  BY FillRoom
<1>6. d = SchedulePrefill(e, MaxBatched - t) BY DEF FillUp
<1>7. Prefills(e, d, A, MaxBatched - t, MaxNumSeqs)
  <2> HIDE DEF d, t
  <2> QED BY <1>1, <1>4, <1>5, <1>6, PrefillFacts
<1> HIDE DEF d
<1>8. /\ EInv(d, A, {}) /\ SameBooks(e, d) /\ BatchOK(d, {})
      /\ TokensOf(d.batch) <= t + (MaxBatched - t)
      /\ PhaseCount(d.batch, "decode") = PhaseCount(b, "decode")
      /\ PhaseCount(d.batch, "prefill") <= 0 + MaxNumSeqs
  BY <1>3, <1>7 DEF Prefills
<1>9. TokensOf(d.batch) <= MaxBatched
  <2>1. TokensOf(d.batch) \in Nat BY <1>8, ConcatTokens DEF BatchOK
  <2> HIDE DEF t
  <2> QED BY <2>1, <1>5, <1>8, CoreAssumption
<1>10. Frugal(d) BY <1>5, <1>8, <1>9, CoreAssumption DEF Frugal
<1> QED BY <1>8, <1>10 DEF d, Advances, Good

(* The sequences in the batch are set aside ...                            *)
Aside(e) == [e EXCEPT !.running = Keep(@, SeqIds \ Selected(e))]

SetAside(e, d, A, X) ==
  /\ EInv(d, A, X) /\ SameBooks(e, d) /\ d.batch = e.batch
  /\ BatchOK(d, X) /\ Selected(d) \cap Elems(d.running) = {}
  /\ d.waiting = e.waiting /\ d.table = e.table /\ d.cached = e.cached
  /\ Elems(d.running) = Elems(e.running) \ Selected(e)

LEMMA AsideFacts ==
  ASSUME NEW e, NEW A, EInv(e, A, {}), BatchOK(e, {})
  PROVE  LET out == Keep(e.running, Selected(e))
         IN  /\ out \in Seq(SeqIds) /\ Distinct(out)
             /\ Elems(out) = Elems(e.running) \cap Selected(e)
             /\ SetAside(e, Aside(e), A, Elems(out))
<1> DEFINE S == Selected(e)
           K == SeqIds \ S
           out == Keep(e.running, S)
           rest == Keep(e.running, K)
           X == Elems(out)
           d == Aside(e)
<1>1. /\ e.running \in Seq(SeqIds) /\ Distinct(e.running)
      /\ Elems(e.running) \subseteq SeqIds
  BY QueueFacts
<1>2. /\ out \in Seq(SeqIds) /\ Distinct(out) /\ X = Elems(e.running) \cap S
  <2> HIDE DEF S
  <2> QED BY <1>1, KeepFacts
<1>3. /\ rest \in Seq(SeqIds) /\ Distinct(rest)
      /\ Elems(rest) = Elems(e.running) \ S
  <2> HIDE DEF K
  <2>1. /\ rest \in Seq(SeqIds) /\ Distinct(rest)
        /\ Elems(rest) = Elems(e.running) \cap K
    BY <1>1, KeepFacts
  <2> QED BY <2>1, <1>1 DEF K
<1>4. d = [e EXCEPT !.running = rest] BY DEF Aside
<1> HIDE DEF out, rest, d, S, K, X
<1>5. /\ DOMAIN d = EngineFields /\ SameBooks(e, d) /\ d.batch = e.batch
      /\ d.preempts = e.preempts /\ d.pool = e.pool /\ d.table = e.table
      /\ d.cached = e.cached /\ d.waiting = e.waiting /\ d.running = rest
  BY <1>4 DEF EInv, Setup, EngineFields, SameBooks
<1>6. Held(d, X) = Held(e, {})
  BY <1>2, <1>3, <1>5 DEF Held
<1>7. Setup(d) /\ Memory(d) BY <1>5 DEF EInv, Setup, Memory, SameBooks
<1>8. Queues(d, A, X)
  <2>1. X \subseteq SeqIds /\ Elems(d.running) \cap X = {}
    BY <1>1, <1>2, <1>3, <1>5
  <2> QED BY <1>3, <1>5, <1>6, <2>1 DEF EInv, Queues, SameBooks
<1>9. Placed(d, A, X)
  BY <1>5, <1>6 DEF EInv, Placed, Parked, Resident, Vacant, Capacity, SameBooks
<1>10. \A item : ItemOK(e, {}, item) => ItemOK(d, X, item)
  BY <1>5, <1>6 DEF ItemOK, SameBooks, Capacity
<1>11. BatchOK(d, X) BY <1>5, <1>10 DEF BatchOK
<1>12. Selected(d) \cap Elems(d.running) = {}
  BY <1>3, <1>5 DEF Selected, S
<1>13. SetAside(e, d, A, X)
  BY <1>3, <1>5, <1>7, <1>8, <1>9, <1>11, <1>12 DEF SetAside, EInv, S
<1> QED BY <1>2, <1>13 DEF out, S, X, d

(* ... and put back.                                                       *)
LEMMA RejoinedFacts ==
  ASSUME NEW e, NEW A, NEW out \in Seq(SeqIds), Distinct(out),
         EInv(e, A, Elems(out)), BatchOK(e, Elems(out))
  PROVE  LET d == Rejoined(e, out)
         IN  /\ EInv(d, A, {}) /\ BatchOK(d, {}) /\ SameBooks(e, d)
             /\ d.batch = e.batch /\ d.waiting = e.waiting /\ d.table = e.table
             /\ d.cached = e.cached
             /\ Elems(d.running) = Elems(e.running) \union Elems(out)
<1> DEFINE q == e.running
           d == Rejoined(e, out)
           X == Elems(out)
<1>1. q \in Seq(SeqIds) /\ Distinct(q) /\ Elems(q) \cap X = {}
  BY QueueFacts
<1> HIDE DEF q
<1>2. /\ q \o out \in Seq(SeqIds) /\ Distinct(q \o out)
      /\ Elems(q \o out) = Elems(q) \union X
  BY <1>1, ConcatDistinct
<1> DEFINE r == q \o out
<1>3. d = [e EXCEPT !.running = r] BY DEF Rejoined, q
<1> HIDE DEF d, r, X
<1>4. /\ DOMAIN d = EngineFields /\ SameBooks(e, d) /\ d.batch = e.batch
      /\ d.preempts = e.preempts /\ d.pool = e.pool /\ d.table = e.table
      /\ d.cached = e.cached /\ d.waiting = e.waiting /\ d.running = r
  BY <1>3 DEF EInv, Setup, EngineFields, SameBooks
<1>5. r \in Seq(SeqIds) /\ Distinct(r) /\ Elems(r) = Elems(e.running) \union X
  BY <1>2 DEF r, q
<1>6. Held(d, {}) = Held(e, X) BY <1>4, <1>5 DEF Held
<1>7. EInv(e, A, X) /\ BatchOK(e, X) BY DEF X
<1>8. Setup(d) /\ Memory(d) BY <1>4, <1>7 DEF EInv, Setup, Memory, SameBooks
<1>9. Queues(d, A, {})
  BY <1>4, <1>5, <1>6, <1>7 DEF EInv, Queues, SameBooks
<1>10. Placed(d, A, {})
  BY <1>4, <1>6, <1>7 DEF EInv, Placed, Parked, Resident, Vacant, Capacity, SameBooks
<1>11. \A item : ItemOK(e, X, item) => ItemOK(d, {}, item)
  BY <1>4, <1>6 DEF ItemOK, SameBooks, Capacity
<1>12. BatchOK(d, {}) BY <1>4, <1>7, <1>11 DEF BatchOK
<1> QED BY <1>4, <1>5, <1>8, <1>9, <1>10, <1>12 DEF EInv, d, X

LEMMA BesideAdvances ==
  ASSUME NEW e, NEW A, Good(e, A), PhaseCount(e.batch, "decode") = 0,
         PlannedPrefill \in Nat, PlannedPrefill <= MaxBatched,
         TokensOf(e.batch) <= PlannedPrefill
  PROVE  Advances(e, DecodeBeside(e), A)
<1> DEFINE p == PlannedPrefill
           budget == MaxBatched - p
           out == Keep(e.running, Selected(e))
           X == Elems(out)
           a == Aside(e)
           c == ScheduleDecode(a, budget, TRUE)
           d == Rejoined(c, out)
           size == SmallerOf(SmallerOf(MaxNumSeqs, MaxBatched), budget)
<1>1. DecodeBeside(e) = d BY DEF DecodeBeside, Aside
<1>2. EInv(e, A, {}) /\ BatchOK(e, {}) /\ Frugal(e) BY DEF Good
<1>3. out \in Seq(SeqIds) /\ Distinct(out) /\ SetAside(e, a, A, X)
  BY <1>2, AsideFacts
<1> HIDE DEF p, a, out
<1>4. budget \in Nat /\ size \in Nat /\ size <= MaxNumSeqs /\ p + size <= MaxBatched
      /\ p \in Nat /\ TokensOf(e.batch) <= p
  <2>1. p \in Nat /\ p <= MaxBatched /\ TokensOf(e.batch) <= p BY DEF p
  <2> QED BY <2>1, CoreAssumption DEF SmallerOf
<1> HIDE DEF budget, size
<1>5. /\ EInv(a, A, X) /\ SameBooks(e, a) /\ a.batch = e.batch
      /\ BatchOK(a, X) /\ Selected(a) \cap Elems(a.running) = {}
  BY <1>3 DEF SetAside
<1> HIDE DEF X
<1>6. Decodes(a, c, A, X, size)
  BY <1>4, <1>5, DecodeFacts DEF size
<1> HIDE DEF c
<1>7. /\ EInv(c, A, X) /\ SameBooks(a, c) /\ BatchOK(c, X)
      /\ TokensOf(c.batch) <= TokensOf(e.batch) + size
      /\ PhaseCount(c.batch, "decode") <= 0 + size
      /\ PhaseCount(c.batch, "prefill") <= PhaseCount(e.batch, "prefill")
  BY <1>5, <1>6 DEF Decodes
<1>8. EInv(d, A, {}) /\ BatchOK(d, {}) /\ SameBooks(c, d) /\ d.batch = c.batch
  BY <1>3, <1>7, RejoinedFacts DEF X
<1> HIDE DEF d
<1>9. SameBooks(e, d) BY <1>5, <1>7, <1>8 DEF SameBooks
<1>10. /\ TokensOf(c.batch) \in Nat /\ TokensOf(e.batch) \in Nat
       /\ PhaseCount(c.batch, "decode") \in Nat
       /\ PhaseCount(c.batch, "prefill") \in Nat
       /\ PhaseCount(e.batch, "prefill") \in Nat
       /\ PhaseCount(e.batch, "prefill") <= MaxNumSeqs
  <2>1. c.batch \in Seq(Item) /\ e.batch \in Seq(Item) BY <1>2, <1>7 DEF BatchOK
  <2> QED BY <2>1, <1>2, ConcatTokens, PhaseCountFacts DEF Frugal
<1>11. Frugal(d) BY <1>4, <1>7, <1>8, <1>10, CoreAssumption DEF Frugal
<1> QED BY <1>1, <1>8, <1>9, <1>11 DEF Advances, Good

(* The two mixed policies.                                                 *)
LEMMA TokenBudgetAdvances ==
  ASSUME NEW A, Ready(st, A)
  PROVE  Advances(st, TokenBudgetStep, A)
<1> DEFINE e == ScheduleDecode(st, MaxBatched, TRUE)
<1>1. Advances(st, e, A) /\ PhaseCount(e.batch, "prefill") = 0
  BY CoreAssumption, DecodeAdvances
<1>2. TokenBudgetStep = FillUp(e) BY DEF TokenBudgetStep
<1> HIDE DEF e
<1>3. e.batch \in Seq(Item) /\ Good(e, A) BY <1>1 DEF Advances, Good, BatchOK
<1>4. ~ HasPrefill(e)
  BY <1>1, <1>3, PhaseCountFacts, LenProperties DEF HasPrefill
<1>5. Advances(e, FillUp(e), A) BY <1>3, <1>4, FillUpAdvances
<1> QED BY <1>1, <1>2, <1>5, AdvancesOn

LEMMA UrgentAdvances ==
  ASSUME NEW A, Ready(st, A), PlannedPrefill \in Nat, PlannedPrefill <= MaxBatched
  PROVE  LET e == UrgentPrefill
         IN  /\ Advances(st, e, A) /\ PhaseCount(e.batch, "decode") = 0
             /\ TokensOf(e.batch) <= PlannedPrefill
<1> DEFINE e == UrgentPrefill
<1>1. CASE Urgent
  <2> DEFINE f == FreeKvForWaitingHead(st)
             g == SchedulePrefill(f, PlannedPrefill)
  <2>1. Advances(st, f, A) /\ Ready(f, A) BY FreeAdvances
  <2>2. e = g BY <1>1 DEF UrgentPrefill
  <2> HIDE DEF f
  <2>3. /\ BatchOK(f, {}) /\ Selected(f) = {} /\ TokensOf(f.batch) = 0
        /\ EInv(f, A, {})
    BY <2>1, EmptyBatch DEF Ready
  <2>4. Prefills(f, g, A, PlannedPrefill, MaxNumSeqs)
    BY <2>3, PrefillFacts
  <2>5. Advances(f, g, A) /\ PhaseCount(g.batch, "decode") = 0
    BY <2>1, PrefillAdvances
  <2> HIDE DEF g
  <2>6. TokensOf(g.batch) <= 0 + PlannedPrefill BY <2>3, <2>4 DEF Prefills
  <2>7. TokensOf(g.batch) \in Nat
    BY <2>5, ConcatTokens DEF Advances, Good, BatchOK
  <2> HIDE DEF e
  <2> QED BY <2>1, <2>2, <2>5, <2>6, <2>7, AdvancesOn DEF e
<1>2. CASE ~ Urgent
  <2>1. e = st BY <1>2 DEF UrgentPrefill
  <2>2. st.batch = << >> BY DEF Ready
  <2>3. TokensOf(st.batch) = 0 /\ PhaseCount(st.batch, "decode") = 0
    BY <2>2, EmptyBatch
  <2>4. Advances(st, st, A) BY ReadyGood
  <2> HIDE DEF e
  <2> QED BY <2>1, <2>3, <2>4 DEF e
<1> QED BY <1>1, <1>2

LEMMA SloAdvances ==
  ASSUME NEW A, Ready(st, A), PlannedPrefill \in Nat, PlannedPrefill <= MaxBatched
  PROVE  Advances(st, SloStep, A)
<1> DEFINE e == UrgentPrefill
           d == DecodeBeside(e)
<1>1. /\ Advances(st, e, A) /\ PhaseCount(e.batch, "decode") = 0
      /\ TokensOf(e.batch) <= PlannedPrefill
  BY UrgentAdvances
<1> HIDE DEF e
<1>2. Good(e, A) BY <1>1 DEF Advances
<1>3. Advances(e, d, A) BY <1>1, <1>2, BesideAdvances
<1> HIDE DEF d
<1>4. Advances(st, d, A) /\ Good(d, A) BY <1>1, <1>3, AdvancesOn DEF Advances
<1>5. SloStep = IF HasPrefill(d) THEN d ELSE FillUp(d)
  BY DEF SloStep, OrPrefill, d, e
<1>6. ~ HasPrefill(d) => Advances(st, FillUp(d), A)
  BY <1>4, FillUpAdvances, AdvancesOn
<1> QED BY <1>4, <1>5, <1>6
---------------------------------------------------------------------------
(* Outcomes: what a whole step leaves, with its counters.                  *)

FeedbackTyped ==
  /\ DOMAIN fb = {"tokens", "steps", "age", "state", "clean", "recent", "drain",
                  "watch"}
  /\ fb.tokens \in Nat /\ fb.steps \in Nat /\ fb.age \in [SeqIds -> Nat \union {-1}]
  /\ fb.state \in States /\ fb.clean \in 0..HysteresisSteps
  /\ fb.recent \in Seq(0..PreemptThreshold) /\ Len(fb.recent) <= PreemptWindow
  /\ fb.drain \in Nat /\ fb.watch \subseteq SeqIds

Fine(r, A) ==
  /\ DOMAIN r = {"st", "tokens", "steps", "drain", "watch"}
  /\ Advances(st, r.st, A)
  /\ r.tokens \in Nat /\ r.steps \in Nat /\ r.drain \in Nat
  /\ r.watch \subseteq SeqIds

LEMMA OutcomeFine ==
  ASSUME FeedbackTyped, NEW A, NEW e, Advances(st, e, A),
         NEW tokens \in Nat, NEW steps \in Nat
  PROVE  Fine(Outcome(e, tokens, steps), A)
<1> DEFINE r == Outcome(e, tokens, steps)
<1>1. /\ DOMAIN r = {"st", "tokens", "steps", "drain", "watch"}
      /\ r.st = e /\ r.tokens = tokens /\ r.steps = steps /\ r.drain = fb.drain
      /\ r.watch = fb.watch
  BY DEF Outcome
<1> HIDE DEF r
<1>2. Fine(r, A) BY <1>1 DEF Fine, FeedbackTyped
<1> QED BY <1>2 DEF r

LEMMA PrefilledFine ==
  ASSUME FeedbackTyped, NEW A, NEW e, Advances(st, e, A)
  PROVE  Fine(Prefilled(e), A)
<1>1. 0 \in Nat OBVIOUS
<1> QED BY <1>1, OutcomeFine DEF Prefilled

LEMMA DecodingFine ==
  ASSUME FeedbackTyped, NEW A, NEW e, Advances(st, e, A), NEW counted \in BOOLEAN
  PROVE  Fine(Decoding(e, counted), A)
<1> DEFINE m == Len(e.batch)
<1>1. m \in Nat BY LenProperties DEF Advances, Good, BatchOK
<1> HIDE DEF m
<1>2. fb.tokens \in Nat /\ fb.steps \in Nat BY DEF FeedbackTyped
<1>3. fb.tokens + m \in Nat /\ fb.steps + 1 \in Nat BY <1>1, <1>2
<1>4. /\ Fine(Outcome(e, fb.tokens + m, fb.steps + 1), A)
      /\ Fine(Outcome(e, fb.tokens, fb.steps), A)
  BY <1>2, <1>3, OutcomeFine
<1> QED BY <1>4 DEF Decoding, m

---------------------------------------------------------------------------
(* _schedule_impl: prefill_first and decode_first_budgeted.                *)

LEMMA FirstDecodeAdvances ==
  ASSUME FeedbackTyped, NEW A, Ready(st, A)
  PROVE  Advances(st, FirstDecode, A)
<1>1. fb.tokens \in Nat /\ DecodeBudget \in Nat /\ MaxNumSeqs \in Nat
      /\ TRUE \in BOOLEAN
  BY StateAssumption, CoreAssumption DEF FeedbackTyped
<1>2. Advances(st, st, A) BY ReadyGood
<1>3. Advances(st, ScheduleDecode(st, DecodeBudget, TRUE), A)
  BY <1>1, DecodeAdvances
<1>4. ASSUME TokensLeft > 0
      PROVE  Advances(st, ScheduleDecode(st, SmallerOf(MaxNumSeqs, TokensLeft), TRUE), A)
  <2>1. SmallerOf(MaxNumSeqs, TokensLeft) \in Nat
    BY <1>1, <1>4 DEF TokensLeft, SmallerOf
  <2> QED BY <1>1, <2>1, DecodeAdvances
<1>5. Advances(st, FreeKvForWaitingHead(st), A) BY FreeAdvances
<1> QED BY <1>2, <1>3, <1>4, <1>5 DEF FirstDecode

LEMMA ScheduleImplFine ==
  ASSUME FeedbackTyped, NEW A, Ready(st, A)
  PROVE  Fine(ScheduleImpl, A)
<1>1. MaxBatched \in Nat /\ MaxBatched <= MaxBatched BY CoreAssumption
<1>2. ASSUME NEW e, Advances(st, e, A) PROVE Fine(AfterLastPrefill(e), A)
  <2>1. fb.tokens \in Nat /\ fb.steps \in Nat BY DEF FeedbackTyped
  <2> QED BY <2>1, <1>2, PrefilledFine, OutcomeFine DEF AfterLastPrefill
<1>3. ASSUME NEW e, Advances(st, e, A), e.batch = << >>
      PROVE  Advances(st, SchedulePrefill(e, MaxBatched), A)
  <2>1. Ready(e, A) BY <1>3, AdvancesOn
  <2>2. Advances(e, SchedulePrefill(e, MaxBatched), A)
    BY <1>1, <2>1, PrefillAdvances
  <2> QED BY <1>3, <2>2, AdvancesOn
<1>4. ASSUME NEW e, Advances(st, e, A) PROVE Fine(AfterFallback(e), A)
  <2>1. (Rotate /\ e.waiting # << >>) \in BOOLEAN OBVIOUS
  <2>2. Fine(Counted(e), A) BY <2>1, <1>4, DecodingFine DEF Counted
  <2> QED BY <2>2, <1>2, <1>3, <1>4 DEF AfterFallback
<1>5. ASSUME NEW e, Advances(st, e, A) PROVE Fine(AfterFirstPrefill(e), A)
  <2>1. CASE e.batch # << >>
    BY <2>1, <1>5, PrefilledFine DEF AfterFirstPrefill
  <2>2. CASE e.batch = << >>
    <3> DEFINE d == ScheduleDecode(e, FallbackBudget(e), Rotate)
    <3>1. Ready(e, A) BY <2>2, <1>5, AdvancesOn
    <3>2. FallbackBudget(e) \in Nat
      <4>1. fb.tokens \in Nat /\ DecodeBudget \in Nat /\ MaxNumSeqs \in Nat
        BY StateAssumption, CoreAssumption DEF FeedbackTyped
      <4> QED BY <4>1 DEF FallbackBudget, TokensLeft, LargerOf
    <3>3. Rotate \in BOOLEAN BY DEF Rotate
    <3>4. Advances(e, d, A) BY <3>1, <3>2, <3>3, DecodeAdvances
    <3> HIDE DEF d
    <3>5. Fine(AfterFallback(d), A) BY <3>4, <1>4, <1>5, AdvancesOn
    <3> QED BY <2>2, <3>5 DEF AfterFirstPrefill, d
  <2> QED BY <2>1, <2>2
<1>6. ASSUME NEW e, Advances(st, e, A) PROVE Fine(AfterFirstDecode(e), A)
  <2>1. (st.waiting # << >>) \in BOOLEAN OBVIOUS
  <2>2. Fine(Decoding(e, st.waiting # << >>), A)
    BY <2>1, <1>6, DecodingFine
  <2> QED BY <2>2, <1>3, <1>5, <1>6 DEF AfterFirstDecode
<1> QED BY <1>6, FirstDecodeAdvances DEF ScheduleImpl
---------------------------------------------------------------------------
(* The policies that react to KV pressure.                                 *)

LEMMA BudgetFacts ==
  ASSUME FeedbackTyped
  PROVE  Budget \in Nat /\ Left \in Nat /\ SmallerOf(MaxNumSeqs, Left) \in Nat
         /\ SmallerOf(1, Left) \in Nat /\ 1 \in Nat /\ TRUE \in BOOLEAN
         /\ FALSE \in BOOLEAN
<1>1. PressureBudget \in Nat /\ DecodeBudget \in Nat /\ MaxNumSeqs \in Nat
  BY StateAssumption, PressureAssumption, CoreAssumption
<1>2. Budget \in Nat BY <1>1 DEF Budget
<1>3. fb.tokens \in Nat BY DEF FeedbackTyped
<1>4. Left \in Nat
  <2> HIDE DEF Budget
  <2> QED BY <1>2, <1>3 DEF Left, LargerOf
<1> HIDE DEF Left
<1> QED BY <1>1, <1>2, <1>4 DEF SmallerOf

LEMMA AdaptiveAdvances ==
  ASSUME NEW e, NEW A, Ready(e, A)
  PROVE  Advances(e, AdaptivePrefill(e), A)
<1>1. /\ MaxBatched \in Nat /\ MaxBatched <= MaxBatched
      /\ ChunkBudget \in Nat /\ ChunkBudget <= MaxBatched
  BY CoreAssumption, PressureAssumption
<1>2. /\ Advances(e, SchedulePrefill(e, MaxBatched), A)
      /\ Advances(e, SchedulePrefill(e, ChunkBudget), A)
  BY <1>1, PrefillAdvances
<1> QED BY <1>2 DEF AdaptivePrefill

(* A decode attempt after failed ones.                                     *)
LEMMA DecodeOn ==
  ASSUME NEW e, NEW A, Advances(st, e, A), e.batch = << >>, NEW budget \in Nat
  PROVE  Advances(st, ScheduleDecode(e, budget, TRUE), A)
<1> DEFINE d == ScheduleDecode(e, budget, TRUE)
<1>1. Ready(e, A) /\ TRUE \in BOOLEAN BY AdvancesOn
<1>2. Advances(e, d, A) BY <1>1, DecodeAdvances
<1> HIDE DEF d
<1> QED BY <1>2, AdvancesOn DEF d

LEMMA RankedDecodeOn ==
  ASSUME NEW e, NEW A, Advances(st, e, A), e.batch = << >>, NEW budget \in Nat
  PROVE  Advances(st, ScheduleDecode(Ranked(e), budget, TRUE), A)
<1> DEFINE r == Ranked(e)
<1>1. Ready(e, A) BY AdvancesOn
<1>2. Advances(e, r, A) /\ Ready(r, A) BY <1>1, RankedAdvances
<1> HIDE DEF r
<1>3. Advances(st, r, A) /\ r.batch = << >> BY <1>2, AdvancesOn DEF Ready
<1>4. Advances(st, ScheduleDecode(r, budget, TRUE), A) BY <1>3, DecodeOn
<1> QED BY <1>4 DEF r

LEMMA FreeOn ==
  ASSUME NEW e, NEW A, Advances(st, e, A), e.batch = << >>
  PROVE  /\ Advances(st, FreeKvForWaitingHead(e), A)
         /\ Ready(FreeKvForWaitingHead(e), A)
<1> DEFINE f == FreeKvForWaitingHead(e)
<1>1. Ready(e, A) BY AdvancesOn
<1>2. Advances(e, f, A) /\ Ready(f, A) BY <1>1, FreeAdvances
<1> HIDE DEF f
<1> QED BY <1>2, AdvancesOn DEF f

LEMMA AfterPrefillFine ==
  ASSUME FeedbackTyped, NEW A, NEW e, Advances(st, e, A)
  PROVE  Fine(AfterPrefill(e), A)
<1>1. CASE e.batch # << >> BY <1>1, PrefilledFine DEF AfterPrefill
<1>2. CASE e.batch = << >>
  <2> DEFINE budget == IF e.waiting # << >> THEN Left ELSE Budget
             d == ScheduleDecode(e, budget, TRUE)
  <2>1. budget \in Nat BY BudgetFacts
  <2> HIDE DEF budget
  <2>2. Advances(st, d, A) BY <1>2, <2>1, DecodeOn
  <2> HIDE DEF d
  <2>3. (d.waiting # << >>) \in BOOLEAN OBVIOUS
  <2>4. Fine(Decoding(d, d.waiting # << >>), A) BY <2>2, <2>3, DecodingFine
  <2>5. AfterPrefill(e) = Decoding(d, d.waiting # << >>)
    BY <1>2 DEF AfterPrefill, LastDecode, d, budget
  <2> QED BY <2>4, <2>5
<1> QED BY <1>1, <1>2

LEMMA PrefillOrDecodeFine ==
  ASSUME FeedbackTyped, NEW A, NEW e, Advances(st, e, A), e.batch = << >>
  PROVE  Fine(PrefillOrDecode(e), A)
<1> DEFINE d == AdaptivePrefill(e)
<1>1. Ready(e, A) BY AdvancesOn
<1>2. Advances(e, d, A) BY <1>1, AdaptiveAdvances
<1> HIDE DEF d
<1>3. Advances(st, d, A) BY <1>2, AdvancesOn
<1>4. Fine(AfterPrefill(d), A) BY <1>3, AfterPrefillFine
<1> QED BY <1>4 DEF PrefillOrDecode, d

LEMMA UnforcedFine ==
  ASSUME FeedbackTyped, NEW A, NEW e, Advances(st, e, A), e.batch = << >>
  PROVE  Fine(Unforced(e), A)
<1>1. Fine(PrefillOrDecode(e), A) BY PrefillOrDecodeFine
<1>2. ASSUME NEW d, Advances(st, d, A) PROVE Fine(AfterOnlyDecode(d), A)
  <2>1. d.batch = << >> => Fine(PrefillOrDecode(d), A)
    BY <1>2, PrefillOrDecodeFine
  <2>2. Fine(Decoding(d, FALSE), A) BY <1>2, BudgetFacts, DecodingFine
  <2> QED BY <2>1, <2>2 DEF AfterOnlyDecode
<1>3. ASSUME NEW d, Advances(st, d, A) PROVE Fine(AfterDecode(d), A)
  <2>1. ASSUME d.batch = << >> PROVE Fine(PrefillOrDecode(FreeKvForWaitingHead(d)), A)
    <3> DEFINE f == FreeKvForWaitingHead(d)
    <3>1. Advances(st, f, A) /\ f.batch = << >> BY <1>3, <2>1, FreeOn DEF Ready
    <3> HIDE DEF f
    <3>2. Fine(PrefillOrDecode(f), A) BY <3>1, PrefillOrDecodeFine
    <3> QED BY <3>2 DEF f
  <2>2. Fine(Decoding(d, TRUE), A) BY <1>3, BudgetFacts, DecodingFine
  <2> QED BY <2>1, <2>2 DEF AfterDecode
<1>4. Fine(AfterOnlyDecode(ScheduleDecode(e, Budget, TRUE)), A)
  <2>1. Advances(st, ScheduleDecode(e, Budget, TRUE), A)
    BY BudgetFacts, DecodeOn
  <2> QED BY <2>1, <1>2
<1>5. Fine(AfterDecode(DecodeWhileWaiting(e)), A)
  <2>1. Advances(st, ScheduleDecode(Ranked(e), SmallerOf(1, Left), TRUE), A)
    BY BudgetFacts, RankedDecodeOn
  <2>2. Advances(st, ScheduleDecode(e, SmallerOf(MaxNumSeqs, Left), TRUE), A)
    BY BudgetFacts, DecodeOn
  <2>3. Advances(st, DecodeWhileWaiting(e), A)
    BY <2>1, <2>2 DEF DecodeWhileWaiting
  <2> QED BY <2>3, <1>3
<1> QED BY <1>1, <1>4, <1>5 DEF Unforced

LEMMA PressureStepFine ==
  ASSUME FeedbackTyped, NEW A, Ready(st, A)
  PROVE  Fine(PressureStep, A)
<1>1. Advances(st, st, A) /\ st.batch = << >> BY ReadyGood DEF Ready
<1>2. Advances(st, ForcedPrefill, A)
  <2> DEFINE f == FreeKvForWaitingHead(st)
             d == AdaptivePrefill(f)
  <2>1. Advances(st, f, A) /\ Ready(f, A) BY <1>1, FreeOn
  <2> HIDE DEF f
  <2>2. Advances(f, d, A) BY <2>1, AdaptiveAdvances
  <2> HIDE DEF d
  <2>3. Advances(st, d, A) BY <2>1, <2>2, AdvancesOn
  <2> QED BY <2>3 DEF ForcedPrefill, d, f
<1>3. ASSUME NEW e, Advances(st, e, A) PROVE Fine(AfterForced(e), A)
  <2>1. e.batch = << >> => Fine(Unforced(e), A) BY <1>3, UnforcedFine
  <2>2. Fine(Prefilled(e), A) BY <1>3, PrefilledFine
  <2> QED BY <2>1, <2>2 DEF AfterForced
<1>4. Fine(Unforced(st), A) BY <1>1, UnforcedFine
<1>5. Fine(AfterForced(ForcedPrefill), A) BY <1>2, <1>3
<1> QED BY <1>4, <1>5 DEF PressureStep

---------------------------------------------------------------------------
(* _schedule_recompute_aware_bounded.                                      *)

LEMMA ClosedFine ==
  ASSUME NEW A, NEW r, Fine(r, A)
  PROVE  Fine(Closed(r), A)
<1> DEFINE c == Closed(r)
<1>1. /\ DOMAIN c = DOMAIN r /\ c.st = r.st /\ c.tokens = r.tokens
      /\ c.steps = r.steps /\ c.drain = 0 /\ c.watch = {}
  BY DEF Closed, Fine
<1> HIDE DEF c
<1>2. Fine(c, A) BY <1>1 DEF Fine
<1> QED BY <1>2 DEF c

LEMMA BoundedPrefillAdvances ==
  ASSUME NEW A, NEW e, Advances(st, e, A), e.batch = << >>
  PROVE  Advances(st, BoundedPrefill(e), A)
<1> DEFINE f == Room(e)
           d == SchedulePrefill(f, MaxBatched)
<1>1. Ready(e, A) BY AdvancesOn
<1>2. Advances(st, f, A) /\ Ready(f, A)
  BY <1>1, FreeOn DEF Room
<1> HIDE DEF f
<1>3. MaxBatched \in Nat /\ MaxBatched <= MaxBatched BY CoreAssumption
<1>4. Advances(f, d, A) BY <1>2, <1>3, PrefillAdvances
<1> HIDE DEF d
<1>5. Advances(st, d, A) BY <1>2, <1>4, AdvancesOn
<1> QED BY <1>5 DEF BoundedPrefill, d, f

LEMMA LastPrefillFine ==
  ASSUME FeedbackTyped, NEW A, NEW e, Advances(st, e, A), e.batch = << >>
  PROVE  Fine(LastPrefill(e), A)
<1> DEFINE d == BoundedPrefill(e)
<1>1. Advances(st, d, A) BY BoundedPrefillAdvances
<1> HIDE DEF d
<1>2. Fine(AfterPrefill(d), A) BY <1>1, AfterPrefillFine
<1>3. Fine(Closed(AfterPrefill(d)), A) BY <1>2, ClosedFine
<1> QED BY <1>2, <1>3 DEF LastPrefill, AfterLast, d

LEMMA NothingWaitsFine ==
  ASSUME FeedbackTyped, NEW A, NEW e, Advances(st, e, A), e.batch = << >>
  PROVE  Fine(NothingWaits(e), A)
<1>1. ASSUME NEW d, Advances(st, d, A) PROVE Fine(AfterNormalDecode(d), A)
  <2>1. Fine(Decoding(d, FALSE), A) BY <1>1, BudgetFacts, DecodingFine
  <2>2. Fine(Closed(Decoding(d, FALSE)), A) BY <2>1, ClosedFine
  <2>3. d.batch = << >> => Fine(LastPrefill(d), A) BY <1>1, LastPrefillFine
  <2> QED BY <2>2, <2>3 DEF AfterNormalDecode
<1>2. Advances(st, ScheduleDecode(e, Budget, TRUE), A)
  BY BudgetFacts, DecodeOn
<1>3. Fine(AfterNormalDecode(ScheduleDecode(e, Budget, TRUE)), A) BY <1>1, <1>2
<1>4. Fine(LastPrefill(e), A) BY LastPrefillFine
<1> QED BY <1>3, <1>4 DEF NothingWaits

LEMMA BaselineDecodeFine ==
  ASSUME FeedbackTyped, NEW A, NEW e, Advances(st, e, A), e.batch = << >>
  PROVE  Fine(BaselineDecode(e), A)
<1>1. ASSUME NEW d, Advances(st, d, A) PROVE Fine(AfterBaselineDecode(d), A)
  <2>1. Fine(Decoding(d, TRUE), A) BY <1>1, BudgetFacts, DecodingFine
  <2>2. d.batch = << >> => Fine(NothingWaits(d), A) BY <1>1, NothingWaitsFine
  <2> QED BY <2>1, <2>2 DEF AfterBaselineDecode
<1>2. Advances(st, ScheduleDecode(e, SmallerOf(MaxNumSeqs, Left), TRUE), A)
  BY BudgetFacts, DecodeOn
<1>3. Fine(AfterBaselineDecode(
             ScheduleDecode(e, SmallerOf(MaxNumSeqs, Left), TRUE)), A)
  BY <1>1, <1>2
<1>4. Fine(NothingWaits(e), A) BY NothingWaitsFine
<1> QED BY <1>3, <1>4 DEF BaselineDecode

LEMMA DrainDecodeFine ==
  ASSUME FeedbackTyped, NEW A, NEW e, Advances(st, e, A), e.batch = << >>
  PROVE  Fine(DrainDecode(e), A)
<1>1. ASSUME NEW d, Advances(st, d, A) PROVE Fine(AfterDrainDecode(d), A)
  <2> DEFINE r == Decoding(d, TRUE)
             w == Watched(d)
             c == [r EXCEPT !.drain = @ + 1, !.watch = w]
  <2>1. Fine(r, A) BY <1>1, BudgetFacts, DecodingFine
  <2>2. w \subseteq SeqIds
    <3>1. EInv(d, A, {}) BY <1>1 DEF Advances, Good
    <3>2. /\ d.running \in Seq(SeqIds) /\ Distinct(d.running)
          /\ d.waiting \in Seq(SeqIds) /\ Distinct(d.waiting)
          /\ Elems(d.running) \subseteq SeqIds /\ Elems(d.waiting) \subseteq SeqIds
          /\ Elems(d.running) \cap Elems(d.waiting) = {}
      BY <3>1, QueueFacts DEF Held
    <3>3. Elems(d.running \o d.waiting) = Elems(d.running) \union Elems(d.waiting)
      BY <3>2, ConcatDistinct
    <3>4. fb.watch \subseteq SeqIds BY DEF FeedbackTyped
    <3> QED BY <3>2, <3>3, <3>4 DEF Watched
  <2> HIDE DEF r, w
  <2>3. /\ DOMAIN c = DOMAIN r /\ c.st = r.st /\ c.tokens = r.tokens
        /\ c.steps = r.steps /\ c.drain = r.drain + 1 /\ c.watch = w
    BY <2>1 DEF Fine
  <2> HIDE DEF c
  <2>4. Fine(c, A) BY <2>1, <2>2, <2>3 DEF Fine
  <2>5. d.batch = << >> => Fine(BaselineDecode(d), A) BY <1>1, BaselineDecodeFine
  <2> QED BY <2>4, <2>5 DEF AfterDrainDecode, c, r, w
<1>2. Advances(st, ScheduleDecode(Ranked(e), 1, TRUE), A)
  BY BudgetFacts, RankedDecodeOn
<1>3. Fine(AfterDrainDecode(ScheduleDecode(Ranked(e), 1, TRUE)), A) BY <1>1, <1>2
<1>4. Fine(BaselineDecode(e), A) BY BaselineDecodeFine
<1> QED BY <1>3, <1>4 DEF DrainDecode

LEMMA BoundedStepFine ==
  ASSUME FeedbackTyped, NEW A, Ready(st, A)
  PROVE  Fine(BoundedStep, A)
<1>1. Advances(st, st, A) /\ st.batch = << >> BY ReadyGood DEF Ready
<1>2. ASSUME NEW e, Advances(st, e, A) PROVE Fine(AfterExit(e), A)
  <2>1. Fine(Prefilled(e), A) BY <1>2, PrefilledFine
  <2>2. Fine(Closed(Prefilled(e)), A) BY <2>1, ClosedFine
  <2>3. e.batch = << >> => Fine(DrainDecode(e), A) BY <1>2, DrainDecodeFine
  <2> QED BY <2>2, <2>3 DEF AfterExit
<1>3. ASSUME NEW e, Advances(st, e, A), e.batch = << >> PROVE Fine(Contended(e), A)
  <2>1. Fine(NothingWaits(e), A) BY <1>3, NothingWaitsFine
  <2>2. Fine(AfterExit(BoundedPrefill(e)), A)
    BY <1>2, <1>3, BoundedPrefillAdvances
  <2>3. Fine(DrainDecode(e), A) BY <1>3, DrainDecodeFine
  <2> QED BY <2>1, <2>2, <2>3 DEF Contended
<1>4. ASSUME NEW e, Advances(st, e, A) PROVE Fine(AfterBounded(e), A)
  <2>1. Fine(Prefilled(e), A) BY <1>4, PrefilledFine
  <2>2. e.batch = << >> => Fine(Contended(e), A) BY <1>3, <1>4
  <2> QED BY <2>1, <2>2 DEF AfterBounded
<1>5. Fine(AfterBounded(BoundedPrefill(st)), A)
  BY <1>1, <1>4, BoundedPrefillAdvances
<1>6. Fine(Contended(st), A) BY <1>1, <1>3
<1> QED BY <1>5, <1>6 DEF BoundedStep
---------------------------------------------------------------------------
(* What the engine properties say of a sound engine.                       *)

LEMMA GoodTyped ==
  ASSUME NEW e, NEW A, Good(e, A)
  PROVE  EngineTyped(e)
<1>1. EInv(e, A, {}) /\ e.batch \in Seq(Item) BY DEF Good, BatchOK
<1>2. /\ e.waiting \in Seq(SeqIds) /\ e.running \in Seq(SeqIds)
  BY <1>1, QueueFacts
<1>3. e.finished \subseteq SeqIds
  <2>1. A \subseteq SeqIds /\ e.finished \subseteq A BY <1>1 DEF EInv, Queues
  <2> QED BY <2>1
<1>4. ASSUME NEW s \in SeqIds
      PROVE  /\ e.len[s] \in e.plen[s]..Len(e.text[s])
             /\ e.cached[s] \in 0..e.len[s] /\ e.table[s] \in Seq(Block)
  <2>1. /\ e.len[s] \in Nat /\ e.plen[s] \in Nat /\ e.maxTokens[s] \in Nat
        /\ Len(e.text[s]) = e.plen[s] + e.maxTokens[s]
        /\ e.plen[s] <= e.len[s] /\ e.len[s] <= e.plen[s] + e.maxTokens[s]
        /\ e.cached[s] \in Nat /\ e.table[s] \in Seq(Block)
    BY <1>1 DEF EInv, Setup, Memory
  <2>2. e.cached[s] <= e.len[s]
    <3>1. Parked(e, s) => e.cached[s] <= e.len[s] BY <2>1 DEF Parked
    <3>2. Resident(e, s) => e.cached[s] <= e.len[s] BY <2>1 DEF Resident
    <3>3. Vacant(e, s) => e.cached[s] <= e.len[s] BY <2>1 DEF Vacant
    <3>4. Parked(e, s) \/ Resident(e, s) \/ Vacant(e, s)
      BY <1>1 DEF EInv, Placed
    <3> QED BY <3>1, <3>2, <3>3, <3>4
  <2> QED BY <2>1, <2>2
<1>5. ASSUME NEW k \in DOMAIN e.batch
      PROVE  e.batch[k] \in [seq : SeqIds, phase : {"prefill", "decode"}, n : Nat]
  BY <1>1, SelectedFacts DEF Item
<1> QED BY <1>2, <1>3, <1>4, <1>5 DEF EngineTyped

LEMMA GoodQueues ==
  ASSUME NEW e, NEW n, Good(e, 1..n)
  PROVE  QueuesExactIn(e, n)
<1> DEFINE A == 1..n
           q == e.waiting
           r == e.running
<1>1. EInv(e, A, {}) BY DEF Good
<1>2. /\ q \in Seq(SeqIds) /\ Distinct(q) /\ r \in Seq(SeqIds) /\ Distinct(r)
      /\ Elems(q) \cap Elems(r) = {}
  BY <1>1, QueueFacts DEF Held
<1>3. Elems(q) \union Elems(r) = A \ e.finished
  BY <1>1 DEF EInv, Queues, Held
<1> HIDE DEF A, q, r
<1>4. /\ q \o r \in Seq(SeqIds) /\ Distinct(q \o r)
      /\ Elems(q \o r) = Elems(q) \union Elems(r)
  BY <1>2, ConcatDistinct
<1>5. Len(q \o r) = Cardinality(Elems(q \o r)) BY <1>4, DistinctLen
<1>6. ASSUME NEW s \in SeqIds, s \notin Elems(q \o r) PROVE e.table[s] = << >>
  <2>1. Vacant(e, s) BY <1>1, <1>4, <1>6 DEF EInv, Placed, Held, q, r
  <2> QED BY <2>1 DEF Vacant
<1>7. Elems(q \o r) = A \ e.finished BY <1>3, <1>4
<1> QED BY <1>5, <1>6, <1>7 DEF QueuesExactIn, A, q, r

LEMMA GoodBlocks ==
  ASSUME NEW e, NEW A, Good(e, A)
  PROVE  BlocksExactIn(e)
BY DEF Good, EInv, Memory, Indexed, BlocksExactIn

(* The block of position p is the one after the blocks before it.          *)
LEMMA BlockAfter ==
  ASSUME NEW c \in Nat
  PROVE  BlocksFor(c + 1) = c \div BlockSize + 1
<1> DEFINE i == c \div BlockSize
           x == i * BlockSize
           y == (i + 1) * BlockSize
<1>1. i \in Nat /\ x <= c /\ c < x + BlockSize /\ x \in Nat /\ BlockSize \in Nat
  BY DivisionFacts, PoolAssumption
<1>2. y = x + BlockSize BY <1>1
<1> HIDE DEF x, y
<1>3. c + 1 <= y BY <1>1, <1>2
<1>4. c + 1 \in Nat /\ i + 1 \in Nat BY <1>1
<1> HIDE DEF i
<1>5. BlocksFor(c + 1) <= i + 1 /\ BlocksFor(c + 1) \in Nat
      /\ c + 1 <= BlocksFor(c + 1) * BlockSize
  BY <1>3, <1>4, BlocksForFacts DEF y
<1>6. ~ (BlocksFor(c + 1) <= i)
  <2> SUFFICES ASSUME BlocksFor(c + 1) <= i PROVE FALSE
    OBVIOUS
  <2> DEFINE b == BlocksFor(c + 1)
             z == b * BlockSize
  <2>1. b \in Nat /\ b <= i /\ c + 1 <= z BY <1>5
  <2> HIDE DEF b
  <2>2. z <= x /\ z \in Nat BY <1>1, <2>1, MulMonotone, PoolAssumption DEF x
  <2> HIDE DEF z
  <2> QED BY <1>1, <2>1, <2>2
<1>7. BlocksFor(c + 1) = i + 1 BY <1>1, <1>5, <1>6
<1> QED BY <1>7 DEF i

LEMMA GoodBacked ==
  ASSUME NEW e, NEW A, Good(e, A)
  PROVE  BatchBackedIn(e)
<1> DEFINE b == e.batch
           m == Len(b)
<1>1. EInv(e, A, {}) /\ b \in Seq(Item) /\ m \in Nat /\ DOMAIN b = 1..m
      /\ \A k \in 1..m : b[k] \in Item
  BY SelectedFacts DEF Good, BatchOK
<1>2. /\ \A k \in 1..m : ItemOK(e, {}, b[k])
      /\ \A j, k \in 1..m : b[j].seq = b[k].seq => j = k
  BY DEF Good, BatchOK
<1>3. Cardinality(Selected(e)) = m
  <2> DEFINE q == [k \in 1..m |-> b[k].seq]
  <2>1. \A k \in 1..m : b[k].seq \in SeqIds BY <1>1 DEF Item
  <2>2. DOMAIN q = 1..m /\ \A k \in 1..m : q[k] = b[k].seq /\ q[k] \in SeqIds
    BY <2>1
  <2>3. q \in Seq(SeqIds)
    <3> HIDE DEF m, b
    <3> QED BY <1>1, <2>1
  <2> HIDE DEF q
  <2>4. Len(q) = m BY <1>1, <2>2, <2>3, LenProperties
  <2>5. Distinct(q) BY <1>2, <2>2 DEF Distinct
  <2>6. Elems(q) = Selected(e) BY <1>1, <2>2, <2>4 DEF Elems, Selected
  <2> QED BY <2>3, <2>4, <2>5, <2>6, DistinctLen
<1>4. ASSUME NEW k \in 1..m
      PROVE  LET item == b[k]
                 held == e.table[item.seq]
                 last == LastPosition(e, item)
             IN  /\ item.n > 0
                 /\ last <= e.len[item.seq]
                 /\ BlocksFor(last) <= Len(held)
                 /\ \A i \in BlocksFor(last - item.n + 1)..BlocksFor(last) :
                      e.pool.ref[held[i]] = 1 /\ e.pool.hash[held[i]] = Root
  <2> DEFINE item == b[k]
             s == item.seq
             held == e.table[s]
             last == LastPosition(e, item)
             c == e.cached[s]
  <2>1. item \in Item /\ ItemOK(e, {}, item) BY <1>1, <1>2
  <2> HIDE DEF item
  <2>2. /\ s \in SeqIds /\ item.n \in Nat /\ item.n > 0
        /\ item.phase = "prefill" \/ item.phase = "decode"
    BY <2>1 DEF Item, ItemOK
  <2>3. /\ held \in Seq(Block) /\ Len(held) \in Nat /\ c \in Nat /\ e.len[s] \in Nat
    BY <1>1, <2>2, LenProperties DEF EInv, Memory, Setup
  <2>4. /\ last \in Nat /\ last <= e.len[s] /\ last <= Capacity(e, s)
        /\ last - item.n + 1 \in Nat /\ c + 1 <= last - item.n + 1
    <3>1. CASE item.phase = "prefill"
      <4>1. c + item.n <= e.len[s] /\ c + item.n <= Capacity(e, s)
        BY <2>1, <3>1 DEF ItemOK
      <4>2. last = c + item.n BY <3>1 DEF LastPosition
      <4> QED BY <2>2, <2>3, <4>1, <4>2
    <3>2. CASE item.phase = "decode"
      <4>1. item.n = 1 /\ s \in Held(e, {}) /\ e.len[s] <= Capacity(e, s)
        BY <2>1, <3>2 DEF ItemOK
      <4>2. Resident(e, s) BY <1>1, <4>1 DEF EInv, Placed
      <4>3. c < e.len[s] BY <4>2 DEF Resident
      <4>4. last = e.len[s] BY <3>2 DEF LastPosition
      <4> QED BY <2>3, <4>1, <4>3, <4>4
    <3> QED BY <2>2, <3>1, <3>2
  <2> HIDE DEF last
  <2>5. BlocksFor(last) <= Len(held)
    <3>1. last <= Len(held) * BlockSize BY <2>4 DEF Capacity
    <3> QED BY <2>3, <2>4, <3>1, BlocksForFacts
  <2>6. ASSUME NEW i \in BlocksFor(last - item.n + 1)..BlocksFor(last)
        PROVE  e.pool.ref[held[i]] = 1 /\ e.pool.hash[held[i]] = Root
    <3> DEFINE first == last - item.n + 1
    <3>1. first \in Nat /\ c + 1 <= first /\ c + 1 \in Nat BY <2>3, <2>4
    <3> HIDE DEF first
    <3>2. BlocksFor(c + 1) <= BlocksFor(first) /\ BlocksFor(first) \in Nat
          /\ BlocksFor(last) \in Nat
      BY <2>4, <3>1, BlocksForMonotone, BlocksForFacts
    <3>3. BlocksFor(c + 1) = c \div BlockSize + 1 /\ c \div BlockSize \in Nat
      BY <2>3, BlockAfter, DivisionFacts
    <3>4. i \in BlocksFor(first)..BlocksFor(last) BY DEF first
    <3>5. i \in Nat /\ i > c \div BlockSize /\ i <= Len(held) /\ i > 0
      BY <2>3, <2>5, <3>2, <3>3, <3>4
    <3>6. i \in 1..Len(held) /\ i \in DOMAIN held
      BY <2>3, <3>5, LenProperties
    <3>7. held[i] \in Block /\ held[i] \in Elems(held)
      BY <2>3, <3>6, LenProperties DEF Elems
    <3>8. e.pool.hash[held[i]] = Root
      BY <1>1, <2>2, <3>5, <3>6 DEF EInv, Memory, Indexed
    <3>9. e.pool.ref[held[i]] <= 1
      BY <1>1, <3>7, <3>8 DEF EInv, Memory, Indexed
    <3>10. e.pool.ref[held[i]] > 0
      <4>1. /\ IsFiniteSet(SeqIds) /\ e.table \in [SeqIds -> Seq(Block)]
            /\ Accounts(e.pool, e.table, SeqIds)
        BY <1>1, MemoryFacts
      <4>2. HolderCount(e.table, SeqIds, held[i]) > 0
        BY <2>2, <2>3, <3>7, <4>1, HoldersFacts
      <4> QED BY <3>7, <4>1, <4>2 DEF Accounts
    <3>11. e.pool.ref[held[i]] \in Nat
      BY <1>1, <3>7, MemoryFacts DEF PoolTyped
    <3> QED BY <3>8, <3>9, <3>10, <3>11
  <2> QED BY <2>2, <2>4, <2>5, <2>6 DEF last, item
<1> QED BY <1>1, <1>3, <1>4 DEF BatchBackedIn

LEMMA GoodWithin ==
  ASSUME NEW e, NEW A, Good(e, A)
  PROVE  WithinBudgetIn(e)
BY DEF Good, Frugal, PhaseCount, WithinBudgetIn

LEMMA GoodSound ==
  ASSUME NEW e, NEW n, Good(e, 1..n)
  PROVE  EngineTyped(e) /\ EngineSoundIn(e, n)
BY GoodTyped, GoodQueues, GoodBlocks, GoodBacked, GoodWithin DEF EngineSoundIn
---------------------------------------------------------------------------
(* What a policy remembers keeps its type.                                 *)

LEMMA GreatestExists ==
  ASSUME NEW T \in SUBSET Int, IsFiniteSet(T), T # {}
  PROVE  \E a \in T : \A b \in T : b <= a
<1> DEFINE R == {w \in Int \X Int : w[2] < w[1]}
<1>1. \A x, y \in Int : <<x, y>> \in R <=> y < x
  OBVIOUS
<1> HIDE DEF R
<1>2. Orders(R, Int) BY <1>1 DEF Orders
<1>3. PICK a \in T : \A b \in T \ {a} : <<a, b>> \in R
  BY <1>2, LeastExists
<1>4. \A b \in T : b <= a
  <2> SUFFICES ASSUME NEW b \in T, b # a PROVE b <= a
    OBVIOUS
  <2>1. a \in Int /\ b \in Int /\ b < a BY <1>1, <1>3
  <2> QED BY <2>1
<1> QED BY <1>4

LEMMA OldestAgeFacts ==
  ASSUME FeedbackTyped
  PROVE  OldestAge \in Nat
<1> DEFINE A == {fb.age[s] : s \in SeqIds}
           ages == {0} \union A
           a == CHOOSE x \in ages : \A y \in ages : y <= x
<1>1. fb.age \in [SeqIds -> Nat \union {-1}] BY DEF FeedbackTyped
<1>2. IsFiniteSet(A)
  <2> DEFINE f == fb.age
  <2>1. A = {f[s] : s \in SeqIds} OBVIOUS
  <2>2. f \in [SeqIds -> Nat \union {-1}] BY <1>1
  <2> HIDE DEF f, A
  <2>3. f \in Surjection(SeqIds, A) BY <2>1, <2>2 DEF Surjection
  <2> QED BY <2>3, SeqIdsFinite, FS_Surjection
<1>3. A \in SUBSET Int BY <1>1
<1> HIDE DEF A
<1>4. ages \in SUBSET Int /\ ages # {} /\ 0 \in ages BY <1>3
<1>5. IsFiniteSet(ages)
  <2>1. ages = A \union {0} OBVIOUS
  <2> HIDE DEF ages
  <2> QED BY <1>2, <2>1, FS_AddElement
<1>6. \E x \in ages : \A y \in ages : y <= x
  <2> HIDE DEF ages
  <2> QED BY <1>4, <1>5, GreatestExists
<1>7. a \in ages /\ 0 <= a
  <2> HIDE DEF ages
  <2> QED BY <1>4, <1>6
<1>8. a \in Nat
  <2> HIDE DEF a, ages
  <2> QED BY <1>4, <1>7
<1> QED BY <1>8 DEF OldestAge, A

(* The plan of mixed_slo_budget leaves at least one token to decode, and   *)
(* one to prefill when somebody waits.                                     *)
LEMMA PlannedFacts ==
  ASSUME FeedbackTyped, NEW config \in Configs, config.policy = "mixed_slo_budget"
  PROVE  /\ PlannedPrefill \in Nat /\ PlannedPrefill < MaxBatched
         /\ st.waiting # << >> => PlannedPrefill > 0
<1> DEFINE t == MixedAgeThreshold
           q == OldestAge \div t
           w == LargerOf(1, q)
           x == MinPrefill * w
<1>1. t \in Nat /\ t > 0 /\ MinPrefill \in Nat /\ MaxBatched \in Nat /\ MaxBatched > 1
      /\ MinPrefill > 0
  BY MixedAssumption, CoreAssumption
<1>2. OldestAge \in Nat BY OldestAgeFacts
<1>3. q \in Int
  <2> DEFINE a == OldestAge
  <2>1. a \in Int /\ t \in Nat \ {0} BY <1>1, <1>2
  <2> HIDE DEF a, t
  <2> QED BY <2>1 DEF a
<1> HIDE DEF q
<1>4. w \in Nat /\ w > 0 BY <1>3 DEF LargerOf
<1> HIDE DEF w
<1>5. x \in Nat /\ x > 0 BY <1>1, <1>4
<1> HIDE DEF x
<1>6. 0 \in Nat /\ 0 < MaxBatched /\ SmallerOf(MaxBatched - 1, x) \in Nat
      /\ SmallerOf(MaxBatched - 1, x) < MaxBatched /\ SmallerOf(MaxBatched - 1, x) > 0
  BY <1>1, <1>5 DEF SmallerOf
<1> QED BY <1>6 DEF PlannedPrefill, x, w, q, t

LEMMA ClassifiedFacts ==
  ASSUME FeedbackTyped
  PROVE  Classified.state \in States /\ Classified.clean \in 0..HysteresisSteps
<1>1. fb.state \in States /\ fb.clean \in 0..HysteresisSteps
  BY DEF FeedbackTyped
<1>2. HysteresisSteps \in Nat \ {0} BY PressureAssumption
<1> QED BY <1>1, <1>2 DEF Classified, States

LEMMA RecentFacts ==
  ASSUME FeedbackTyped, NEW e, e.preempts \in Nat
  PROVE  RecentAfter(e) \in Seq(0..PreemptThreshold)
         /\ Len(RecentAfter(e)) <= PreemptWindow
<1> DEFINE T == 0..PreemptThreshold
           x == SmallerOf(PreemptThreshold, e.preempts)
           deltas == Append(fb.recent, x)
           m == Len(deltas)
           from == LargerOf(1, m - PreemptWindow + 1)
           r == SubSeq(deltas, from, m)
<1>1. PreemptThreshold \in Nat \ {0} /\ PreemptWindow \in Nat \ {0}
  BY PressureAssumption
<1>2. x \in T BY <1>1 DEF SmallerOf
<1>3. fb.recent \in Seq(T) BY DEF FeedbackTyped
<1> HIDE DEF T, x
<1>4. deltas \in Seq(T) /\ m \in Nat /\ DOMAIN deltas = 1..m
  <2>1. deltas \in Seq(T) BY <1>2, <1>3, AppendProperties
  <2> HIDE DEF deltas
  <2> QED BY <2>1, LenProperties
<1> HIDE DEF deltas, m
<1>5. from \in Nat /\ from >= 1 /\ m - PreemptWindow + 1 <= from
  BY <1>1, <1>4 DEF LargerOf
<1> HIDE DEF from
<1>6. r \in Seq(T) /\ Len(r) = (IF from <= m THEN m - from + 1 ELSE 0)
  <2>1. \A i \in from..m : i \in 1..Len(deltas)
    BY <1>4, <1>5 DEF m
  <2>2. from \in Int /\ m \in Int BY <1>4, <1>5
  <2> QED BY <1>4, <2>1, <2>2, SubSeqProperties
<1>7. Len(r) <= PreemptWindow BY <1>1, <1>4, <1>5, <1>6
<1> QED BY <1>6, <1>7 DEF RecentAfter, T, x, deltas, m, from

LEMMA AgesFacts ==
  ASSUME FeedbackTyped, NEW e
  PROVE  /\ AgesAfter(e) \in [SeqIds -> Nat \union {-1}]
         /\ MixedAges(e) \in [SeqIds -> Nat \union {-1}]
<1>1. fb.age \in [SeqIds -> Nat \union {-1}] BY DEF FeedbackTyped
<1>2. AgeCap \in Nat
  BY PressureAssumption DEF AgeCap, LargerOf
<1>3. MixedAgeCap \in Nat
  <2>1. MaxBatched - 1 \in Nat /\ MixedAgeThreshold \in Nat
    BY CoreAssumption, MixedAssumption
  <2> QED BY <2>1 DEF MixedAgeCap
<1> HIDE DEF AgeCap, MixedAgeCap
<1>4. ASSUME NEW s \in SeqIds
      PROVE  /\ SmallerOf(AgeCap, fb.age[s] + 1) \in Nat
             /\ SmallerOf(MixedAgeCap, LargerOf(0, fb.age[s]) + 1) \in Nat
  <2>1. fb.age[s] \in Nat \/ fb.age[s] = -1 BY <1>1
  <2> QED BY <1>2, <1>3, <2>1 DEF SmallerOf, LargerOf
<1>5. \A s \in SeqIds : /\ AgesAfter(e)[s] \in Nat \union {-1}
                        /\ MixedAges(e)[s] \in Nat \union {-1}
  BY <1>4 DEF AgesAfter, MixedAges
<1> QED BY <1>5 DEF AgesAfter, MixedAges
---------------------------------------------------------------------------
(* The inductive invariant: the engine is sound between any two operations *)
(* of the model, also while a batch is out.                                *)

Configured == \E config \in Configs : config.policy = st.policy

(* The requests that have arrived.                                         *)
Here == 1..arrived

SchedulerInv ==
  /\ arrived \in 0..NumSeqs /\ Good(st, Here) /\ Configured /\ FeedbackTyped
  /\ late \subseteq 1..arrived /\ failed \in BOOLEAN

LEMMA InvReady ==
  ASSUME SchedulerInv, st.batch = << >>
  PROVE  Ready(st, Here) /\ FeedbackTyped /\ Configured
         /\ arrived \in 0..NumSeqs /\ late \subseteq 1..arrived
BY DEF SchedulerInv, Good, Ready, EInv, Queues

LEMMA InvImplies ==
  ASSUME SchedulerInv
  PROVE  EngineSound
<1>1. Good(st, 1..arrived) BY DEF SchedulerInv, Here
<1>2. EngineTyped(st) /\ EngineSoundIn(st, arrived) BY <1>1, GoodSound
<1>3. arrived \in 0..NumSeqs BY DEF SchedulerInv
<1> QED BY <1>2, <1>3 DEF EngineSound, TypeOK, SchedulerInv, FeedbackTyped

LEMMA InitInv == Init => SchedulerInv
<1> SUFFICES ASSUME Init PROVE SchedulerInv
  OBVIOUS
<1>1. PICK config \in Configs, kind \in [SeqIds -> Kinds] : st = Fresh(config, kind)
  BY DEF Init
<1>2. arrived = 0 /\ fb = NoFeedback /\ late = {} /\ failed = FALSE
  BY DEF Init
<1>3. Good(st, Here)
  <2>1. Here = {} BY <1>2 DEF Here
  <2>2. Ready(st, Here) BY <1>1, <2>1, FreshFacts
  <2> QED BY <2>2, ReadyGood DEF Advances
<1>4. Configured
  <2>1. st.policy = config.policy BY <1>1 DEF Fresh
  <2> QED BY <2>1 DEF Configured
<1>5. FeedbackTyped
  <2>1. << >> \in Seq(0..PreemptThreshold) /\ Len(<< >>) = 0 BY EmptyQueue
  <2>2. PreemptWindow \in Nat /\ HysteresisSteps \in Nat BY PressureAssumption
  <2> QED BY <1>2, <2>1, <2>2 DEF FeedbackTyped, NoFeedback, States
<1>6. arrived \in 0..NumSeqs BY <1>2, CoreAssumption
<1> QED BY <1>2, <1>3, <1>4, <1>5, <1>6 DEF SchedulerInv

(* A step of any policy.                                                   *)
LEMMA TakenKeeps ==
  ASSUME SchedulerInv, NEW e, Advances(st, e, Here), Takes(e), FeedbackTyped'
  PROVE  SchedulerInv'
<1>1. st' = e /\ arrived' = arrived /\ late' = late /\ failed' = (e.batch = << >>)
  BY DEF Takes
<1>2. Good(st', Here') BY <1>1 DEF Advances, Here
<1>3. Configured'
  <2>1. e.policy = st.policy BY DEF Advances, SameBooks
  <2> QED BY <1>1, <2>1 DEF SchedulerInv, Configured
<1>4. failed' \in BOOLEAN BY <1>1
<1>5. late' \subseteq 1..arrived' BY <1>1 DEF SchedulerInv
<1>6. FeedbackTyped' /\ arrived' \in 0..NumSeqs BY <1>1 DEF SchedulerInv
<1> HIDE DEF FeedbackTyped
<1> QED BY <1>2, <1>3, <1>4, <1>5, <1>6 DEF SchedulerInv

(* Every policy takes a step that is sound.                                *)
LEMMA StaticStep ==
  ASSUME SchedulerInv, StaticSchedule
  PROVE  \E e : Advances(st, e, Here) /\ Takes(e) /\ FeedbackTyped'
<1> DEFINE r == ScheduleImpl
<1>1. Takes(r.st) /\ fb' = [fb EXCEPT !.tokens = r.tokens, !.steps = r.steps]
  BY DEF StaticSchedule
<1>2. st.batch = << >> BY <1>1 DEF Takes, CanSchedule
<1>3. Fine(r, Here) BY <1>2, InvReady, ScheduleImplFine
<1> HIDE DEF r
<1>4. FeedbackTyped BY DEF SchedulerInv
<1>5. FeedbackTyped' BY <1>1, <1>3, <1>4 DEF FeedbackTyped, Fine
<1>6. Advances(st, r.st, Here) BY <1>3 DEF Fine
<1> QED BY <1>1, <1>5, <1>6

LEMMA MixedStep ==
  ASSUME SchedulerInv, MixedSchedule
  PROVE  \E e : Advances(st, e, Here) /\ Takes(e) /\ FeedbackTyped'
<1> DEFINE e == IF Slo THEN SloStep ELSE TokenBudgetStep
<1>1. /\ Takes(e)
      /\ fb' = IF Slo /\ e.batch # << >> THEN [fb EXCEPT !.age = MixedAges(e)] ELSE fb
  BY DEF MixedSchedule
<1>2. st.batch = << >> BY <1>1 DEF Takes, CanSchedule
<1>3. /\ Ready(st, Here) /\ FeedbackTyped /\ Configured
  BY <1>2, InvReady
<1>4. Advances(st, e, Here)
  <2>1. CASE Slo
    <3>1. PICK config \in Configs : config.policy = "mixed_slo_budget"
      BY <1>3, <2>1 DEF Configured, Slo, Policy
    <3>2. PlannedPrefill \in Nat /\ PlannedPrefill < MaxBatched /\ MaxBatched \in Nat
      BY <1>3, <3>1, PlannedFacts, CoreAssumption
    <3>3. PlannedPrefill <= MaxBatched BY <3>2
    <3> QED BY <1>3, <2>1, <3>2, <3>3, SloAdvances
  <2>2. CASE ~ Slo BY <1>3, <2>2, TokenBudgetAdvances
  <2> QED BY <2>1, <2>2
<1> HIDE DEF e
<1>5. MixedAges(e) \in [SeqIds -> Nat \union {-1}] BY <1>3, AgesFacts
<1>6. FeedbackTyped' BY <1>1, <1>3, <1>5 DEF FeedbackTyped
<1> QED BY <1>1, <1>4, <1>6

LEMMA PressureTakes ==
  ASSUME SchedulerInv, PressureSchedule
  PROVE  \E e : Advances(st, e, Here) /\ Takes(e) /\ FeedbackTyped'
<1> DEFINE r == IF Bounded THEN BoundedStep ELSE PressureStep
<1>1. /\ Takes(r.st)
      /\ fb' = [state |-> Classified.state, clean |-> Classified.clean,
                recent |-> RecentAfter(r.st), age |-> AgesAfter(r.st),
                tokens |-> r.tokens, steps |-> r.steps,
                drain |-> r.drain, watch |-> r.watch]
  BY DEF PressureSchedule
<1>2. st.batch = << >> BY <1>1 DEF Takes, CanSchedule
<1>3. Ready(st, Here) /\ FeedbackTyped BY <1>2, InvReady
<1>4. Fine(r, Here) BY <1>3, BoundedStepFine, PressureStepFine
<1> HIDE DEF r
<1>5. Advances(st, r.st, Here) BY <1>4 DEF Fine
<1>6. r.st.preempts \in Nat BY <1>5 DEF Advances, Good, EInv, Setup
<1>7. FeedbackTyped'
  <2>1. Classified.state \in States /\ Classified.clean \in 0..HysteresisSteps
    BY <1>3, ClassifiedFacts
  <2>2. /\ RecentAfter(r.st) \in Seq(0..PreemptThreshold)
        /\ Len(RecentAfter(r.st)) <= PreemptWindow
    BY <1>3, <1>6, RecentFacts
  <2>3. AgesAfter(r.st) \in [SeqIds -> Nat \union {-1}] BY <1>3, AgesFacts
  <2>4. /\ r.tokens \in Nat /\ r.steps \in Nat /\ r.drain \in Nat
        /\ r.watch \subseteq SeqIds
    BY <1>4 DEF Fine
  <2> HIDE DEF Classified, RecentAfter, AgesAfter
  <2> QED BY <1>1, <2>1, <2>2, <2>3, <2>4 DEF FeedbackTyped
<1> QED BY <1>1, <1>5, <1>7

LEMMA ScheduleStep ==
  ASSUME SchedulerInv, Schedule
  PROVE  \E e : Advances(st, e, Here) /\ Takes(e) /\ FeedbackTyped'
<1>1. CASE StaticSchedule BY <1>1, StaticStep
<1>2. CASE MixedSchedule BY <1>2, MixedStep
<1>3. CASE PressureSchedule BY <1>3, PressureTakes
<1> QED BY <1>1, <1>2, <1>3 DEF Schedule

LEMMA AddRequestInv ==
  ASSUME SchedulerInv, AddRequest
  PROVE  SchedulerInv'
<1> DEFINE n == arrived + 1
<1>1. /\ st.batch = << >> /\ arrived < NumSeqs /\ arrived' = n
      /\ st' = Added(st, n) /\ late' = late /\ failed' = failed
  BY DEF AddRequest
<1>2. /\ Ready(st, Here) /\ FeedbackTyped /\ Configured
      /\ arrived \in 0..NumSeqs /\ late \subseteq 1..arrived
  BY <1>1, InvReady
<1>3. /\ n \in SeqIds /\ n \in 0..NumSeqs /\ n \notin Here /\ Here \subseteq Here'
      /\ Here' = Here \union {n}
  BY <1>1, <1>2, CoreAssumption DEF SeqIds, Here
<1>4. Good(st', Here')
  <2>1. Ready(st', Here') BY <1>1, <1>2, <1>3, AddedFacts
  <2> QED BY <2>1, ReadyGood DEF Advances
<1>5. Configured' BY <1>1, <1>2 DEF Configured, Added
<1>6. late' \subseteq 1..arrived' BY <1>1, <1>2, <1>3 DEF Here
<1>7. FeedbackTyped'
  <2>1. \/ fb' = [fb EXCEPT !.tokens = 0, !.steps = 0]
        \/ fb' = fb
        \/ fb' = [fb EXCEPT !.age[n] = 0]
    BY DEF AddRequest
  <2>2. CASE fb' = [fb EXCEPT !.tokens = 0, !.steps = 0]
    BY <1>2, <2>2 DEF FeedbackTyped
  <2>3. CASE fb' = fb
    BY <1>2, <2>3 DEF FeedbackTyped
  <2>4. CASE fb' = [fb EXCEPT !.age[n] = 0]
    <3> HIDE DEF n
    <3>1. [fb.age EXCEPT ![n] = 0] \in [SeqIds -> Nat \union {-1}]
      BY <1>2, <1>3 DEF FeedbackTyped
    <3> QED BY <1>2, <2>4, <3>1 DEF FeedbackTyped
  <2> QED BY <2>1, <2>2, <2>3, <2>4
<1>8. failed' \in BOOLEAN BY <1>1 DEF SchedulerInv
<1> HIDE DEF n, FeedbackTyped
<1> QED BY <1>1, <1>3, <1>4, <1>5, <1>6, <1>7, <1>8 DEF SchedulerInv

LEMMA PostprocessServes ==
  ASSUME SchedulerInv, Postprocess
  PROVE  Served(st, st', Here) /\ arrived' = arrived
<1>1. PICK eos : st' = Postprocessed(st, eos)
  BY DEF Postprocess
<1>2. EInv(st, Here, {}) /\ BatchOK(st, {}) BY DEF SchedulerInv, Good
<1> QED BY <1>1, <1>2, PostprocessedFacts DEF Postprocess

LEMMA PostprocessInv ==
  ASSUME SchedulerInv, Postprocess
  PROVE  SchedulerInv'
<1>1. Served(st, st', Here) /\ arrived' = arrived BY PostprocessServes
<1>2. Good(st', Here') BY <1>1, ReadyGood DEF Served, Advances, Here
<1>3. Configured' BY <1>1 DEF SchedulerInv, Configured, Served, SameLimits
<1>4. FeedbackTyped' BY DEF Postprocess, SchedulerInv, FeedbackTyped
<1>5. late' \subseteq 1..arrived' /\ failed' \in BOOLEAN
  BY <1>1 DEF Postprocess, SchedulerInv
<1> HIDE DEF FeedbackTyped
<1>6. arrived' \in 0..NumSeqs BY <1>1 DEF SchedulerInv
<1> QED BY <1>2, <1>3, <1>4, <1>5, <1>6 DEF SchedulerInv

LEMMA NextInv == SchedulerInv /\ [Next]_vars => SchedulerInv'
<1> SUFFICES ASSUME SchedulerInv, [Next]_vars PROVE SchedulerInv'
  OBVIOUS
<1>1. CASE AddRequest BY <1>1, AddRequestInv
<1>2. CASE DeadlinePasses
  <2>1. /\ st' = st /\ arrived' = arrived /\ fb' = fb /\ failed' = failed
        /\ \E s \in 1..arrived : late' = late \union {s}
    BY <1>2 DEF DeadlinePasses
  <2> QED BY <2>1 DEF SchedulerInv, Configured, FeedbackTyped, Here
<1>3. CASE Schedule BY <1>3, ScheduleStep, TakenKeeps
<1>4. CASE Postprocess BY <1>4, PostprocessInv
<1>5. CASE UNCHANGED vars
  BY <1>5 DEF vars, SchedulerInv, Configured, FeedbackTyped, Here
<1>6. CASE Drained BY <1>5, <1>6 DEF Drained
<1> QED BY <1>1, <1>2, <1>3, <1>4, <1>5, <1>6 DEF Next

(* The scheduler's inductive invariant holds in every reachable state:     *)
(* between and inside steps the engine's record is consistent, and what    *)
(* the policy remembers stays in its range.                                *)
THEOREM SchedulerInvariant == Spec => []SchedulerInv
BY InitInv, NextInv, PTL DEF Spec

(* Whatever the policy does, every arrived request that is not finished is *)
(* once in one queue, the counts of the blocks are exact, and each item of *)
(* the batch writes to blocks that are its own, within the budgets.        *)
THEOREM EnginesStaySound == Spec => []EngineSound
<1>1. SchedulerInv => EngineSound BY InvImplies
<1> QED BY <1>1, SchedulerInvariant, PTL
---------------------------------------------------------------------------
(* The refinement: what the callers of an engine see of its steps are      *)
(* steps of module Serving.                                                *)

Stage(e, n) ==
  [s \in SeqIds |-> IF s > n THEN "absent"
                    ELSE IF s \in e.finished THEN "finished" ELSE "live"]
Counts(e) == [s \in SeqIds |-> e.len[s] - e.plen[s]]

LEMMA ServingView ==
  /\ Server!Init <=>
       /\ st.maxTokens \in [SeqIds -> Nat \ {0}]
       /\ Stage(st, arrived) = [s \in SeqIds |-> "absent"]
       /\ Counts(st) = [s \in SeqIds |-> 0]
  /\ UNCHANGED Server!vars <=>
       /\ st'.maxTokens = st.maxTokens
       /\ Stage(st, arrived)' = Stage(st, arrived) /\ Counts(st)' = Counts(st)
BY DEF Server!Init, Server!vars, Stage, Counts

LEMMA ServesInit == Init => Server!Init
<1> SUFFICES ASSUME Init PROVE Server!Init
  OBVIOUS
<1>1. Good(st, Here) /\ arrived = 0 BY InitInv DEF SchedulerInv, Init
<1>2. EInv(st, Here, {}) BY <1>1 DEF Good
<1>3. st.maxTokens \in [SeqIds -> Nat \ {0}] BY <1>2 DEF EInv, Setup
<1>4. \A s \in SeqIds : s \in Nat /\ s > 0 /\ s \notin Here
  BY <1>1, CoreAssumption DEF SeqIds, Here
<1>5. Stage(st, arrived) = [s \in SeqIds |-> "absent"]
  BY <1>1, <1>4 DEF Stage
<1>6. ASSUME NEW s \in SeqIds PROVE st.len[s] - st.plen[s] = 0
  <2>1. st.len[s] = st.plen[s] BY <1>2, <1>4 DEF EInv, Placed
  <2>2. st.plen[s] \in Nat BY <1>2 DEF EInv, Setup
  <2> QED BY <2>1, <2>2
<1>7. Counts(st) = [s \in SeqIds |-> 0] BY <1>6 DEF Counts
<1> QED BY <1>3, <1>5, <1>7, ServingView

(* A request arrives.                                                      *)
LEMMA ServesArrival ==
  ASSUME SchedulerInv, AddRequest
  PROVE  \E r \in SeqIds : Server!Arrive(r)
<1> DEFINE n == arrived + 1
<1>1. /\ st.batch = << >> /\ arrived < NumSeqs /\ arrived' = n /\ st' = Added(st, n)
  BY DEF AddRequest
<1>2. Ready(st, Here) /\ arrived \in 0..NumSeqs BY <1>1, InvReady
<1>3. st.finished \subseteq 1..arrived BY <1>2 DEF Ready, EInv, Queues, Here
<1>4. /\ n \in SeqIds /\ n > arrived /\ n \notin st.finished /\ ~ (n > n)
      /\ \A s \in SeqIds \ {n} : s > n <=> s > arrived
  BY <1>2, <1>3, <1>1, CoreAssumption DEF SeqIds
<1>5. /\ st'.maxTokens = st.maxTokens /\ st'.finished = st.finished
      /\ st'.len = st.len /\ st'.plen = st.plen
  BY <1>1 DEF Added
<1>6. Counts(st)' = Counts(st) BY <1>5 DEF Counts
<1>7. Stage(st, arrived)[n] = "absent" BY <1>4 DEF Stage
<1>8. Stage(st, arrived)' = [Stage(st, arrived) EXCEPT ![n] = "live"]
  <2> HIDE DEF n
  <2> QED BY <1>1, <1>4, <1>5 DEF Stage
<1> HIDE DEF n
<1>9. Server!Arrive(n)
  BY <1>5, <1>6, <1>7, <1>8 DEF Server!Arrive, Stage, Counts
<1> QED BY <1>4, <1>9, Zenon DEF Server!Arrive

(* The results of a step are applied.                                      *)
LEMMA ServesTokens ==
  ASSUME SchedulerInv, Postprocess
  PROVE  UNCHANGED Server!vars \/ \E active \in SUBSET SeqIds : Server!Emit(active)
<1> DEFINE n == arrived
           e == st
           d == st'
           active == {r \in SeqIds : d.len[r] # e.len[r]}
           ended == {r \in active : r \in d.finished}
<1>1. /\ EInv(e, 1..n, {}) /\ EInv(d, 1..n, {}) /\ arrived' = n /\ n \in Nat
      /\ d.plen = e.plen /\ d.maxTokens = e.maxTokens
      /\ \A r \in SeqIds : Emits(e, d, r)
  BY PostprocessServes, CoreAssumption
  DEF Served, Ready, SameLimits, SchedulerInv, Good, Here
<1>2. \A r \in SeqIds : /\ e.len[r] \in Nat /\ d.len[r] \in Nat /\ e.plen[r] \in Nat
                        /\ e.maxTokens[r] \in Nat
  BY <1>1 DEF EInv, Setup
<1>3. /\ Stage(st, arrived)' = Stage(d, n) /\ Counts(st)' = Counts(d)
  BY <1>1 DEF Stage, Counts
<1> HIDE DEF n, e, d
<1>4. ASSUME NEW r \in SeqIds, r \notin active
      PROVE  d.len[r] = e.len[r] /\ (r \in d.finished <=> r \in e.finished)
  <2>1. d.len[r] = e.len[r] /\ Emits(e, d, r) BY <1>1, <1>4
  <2> QED BY <2>1, <1>2 DEF Emits
<1>5. ASSUME NEW r \in active
      PROVE  /\ r \in SeqIds /\ d.len[r] = e.len[r] + 1 /\ r \notin e.finished
             /\ ~ (r > n)
             /\ d.len[r] - d.plen[r] = e.maxTokens[r] => r \in d.finished
  <2>1. r \in SeqIds /\ d.len[r] # e.len[r] /\ Emits(e, d, r) BY <1>1, <1>5
  <2>2. /\ d.len[r] = e.len[r] + 1 /\ r \notin e.finished
        /\ r \in d.finished \/ d.len[r] # d.plen[r] + d.maxTokens[r]
    BY <2>1 DEF Emits
  <2>3. d.len[r] - d.plen[r] = e.maxTokens[r] => d.len[r] = d.plen[r] + d.maxTokens[r]
    BY <1>1, <1>2, <2>1
  <2>4. ~ (r > n)
    <3>1. r \notin 1..n => d.len[r] = d.plen[r] /\ e.len[r] = e.plen[r]
      BY <1>1, <2>1 DEF EInv, Placed
    <3>2. r \in 1..n BY <1>1, <2>1, <3>1
    <3> QED BY <3>2, <1>1
  <2> QED BY <2>1, <2>2, <2>3, <2>4
<1> HIDE DEF active
<1>6. active \in SUBSET SeqIds BY DEF active
<1>7. CASE active = {}
  <2>1. /\ \A r \in SeqIds : d.len[r] = e.len[r]
        /\ \A r \in SeqIds : r \in d.finished <=> r \in e.finished
    BY <1>4, <1>7
  <2>2. Stage(d, n) = Stage(e, n) /\ Counts(d) = Counts(e)
    BY <1>1, <2>1 DEF Stage, Counts
  <2>3. UNCHANGED Server!vars
    BY <1>1, <1>3, <2>2, ServingView DEF e, d, n
  <2> QED BY <2>3
<1>8. CASE active # {}
  <2>1. \A r \in active : Stage(e, n)[r] = "live"
    BY <1>5 DEF Stage
  <2>2. Counts(d) = [r \in SeqIds |-> IF r \in active THEN Counts(e)[r] + 1
                                      ELSE Counts(e)[r]]
    <3>1. ASSUME NEW r \in SeqIds
          PROVE  d.len[r] - d.plen[r] = IF r \in active THEN (e.len[r] - e.plen[r]) + 1
                                        ELSE e.len[r] - e.plen[r]
      <4>1. CASE r \in active BY <4>1, <1>1, <1>2, <1>5
      <4>2. CASE r \notin active BY <4>2, <1>1, <1>4
      <4> QED BY <4>1, <4>2
    <3> QED BY <3>1 DEF Counts
  <2>3. \A r \in active : Counts(d)[r] = e.maxTokens[r] => r \in ended
    BY <1>5 DEF Counts
  <2>4. Stage(d, n) = [r \in SeqIds |-> IF r \in ended THEN "finished"
                                        ELSE Stage(e, n)[r]]
    <3>1. ASSUME NEW r \in SeqIds
          PROVE  Stage(d, n)[r] = IF r \in ended THEN "finished" ELSE Stage(e, n)[r]
      <4>1. CASE r \in active
        BY <4>1, <1>5 DEF Stage
      <4>2. CASE r \notin active
        BY <4>2, <1>4 DEF Stage
      <4> QED BY <4>1, <4>2
    <3>2. Stage(d, n) = [r \in SeqIds |-> Stage(d, n)[r]] BY DEF Stage
    <3> HIDE DEF ended
    <3> QED BY <3>1, <3>2
  <2>5. ended \in SUBSET active OBVIOUS
  <2> HIDE DEF ended
  <2>6. Server!Emit(active)
    <3>1. \A r \in active : Stage(st, arrived)[r] = "live" BY <2>1 DEF e, n
    <3>2. Counts(st)' = [r \in SeqIds |-> IF r \in active THEN Counts(st)[r] + 1
                                          ELSE Counts(st)[r]]
      BY <1>3, <2>2 DEF e
    <3>3. \A r \in active : Counts(st)'[r] = st.maxTokens[r] => r \in ended
      BY <1>3, <2>3 DEF e
    <3>4. Stage(st, arrived)' = [r \in SeqIds |-> IF r \in ended THEN "finished"
                                                  ELSE Stage(st, arrived)[r]]
      BY <1>3, <2>4 DEF e, n
    <3>5. st'.maxTokens = st.maxTokens BY <1>1 DEF d, e
    <3> QED BY <1>8, <2>5, <3>1, <3>2, <3>3, <3>4, <3>5 DEF Server!Emit, Stage, Counts
  <2> QED BY <1>6, <2>6, Zenon DEF Server!Emit
<1> QED BY <1>7, <1>8

LEMMA ServesNext == SchedulerInv /\ [Next]_vars => [Server!Next]_(Server!vars)
<1> SUFFICES ASSUME SchedulerInv, [Next]_vars
             PROVE  Server!Next \/ UNCHANGED Server!vars
  OBVIOUS
<1>1. CASE AddRequest BY <1>1, ServesArrival DEF Server!Next
<1>2. CASE Schedule
  <2>1. PICK e : Advances(st, e, Here) /\ Takes(e) BY <1>2, ScheduleStep
  <2>2. /\ arrived' = arrived /\ st'.maxTokens = st.maxTokens /\ st'.len = st.len
        /\ st'.plen = st.plen /\ st'.finished = st.finished
    BY <2>1 DEF Takes, Advances, SameBooks
  <2>3. Stage(st, arrived)' = Stage(st, arrived) /\ Counts(st)' = Counts(st)
    BY <2>2 DEF Stage, Counts
  <2> QED BY <2>2, <2>3, ServingView
<1>3. CASE Postprocess BY <1>3, ServesTokens DEF Server!Next
<1>4. CASE UNCHANGED <<st, arrived>>
  <2>1. st' = st /\ arrived' = arrived BY <1>4
  <2>2. Stage(st, arrived)' = Stage(st, arrived) /\ Counts(st)' = Counts(st)
    BY <2>1 DEF Stage, Counts
  <2> QED BY <2>1, <2>2, ServingView
<1>5. CASE DeadlinePasses BY <1>4, <1>5 DEF DeadlinePasses
<1>6. CASE UNCHANGED vars BY <1>4, <1>6 DEF vars
<1>7. CASE Drained BY <1>6, <1>7 DEF Drained
<1> QED BY <1>1, <1>2, <1>3, <1>5, <1>6, <1>7 DEF Next

(* Under every policy tokens come out one at a time, a preemption loses    *)
(* none, nothing comes out after the end, and the end comes at the latest  *)
(* with the last token a request may emit.                                 *)
THEOREM EngineServes == Spec => ServesRequests
<1>1. Init => Server!Init BY ServesInit
<1>2. SchedulerInv /\ [Next]_vars => [Server!Next]_(Server!vars) BY ServesNext
<1> QED BY <1>1, <1>2, SchedulerInvariant, PTL DEF Spec, ServesRequests, Server!Spec
---------------------------------------------------------------------------
(* What preemptions leave of the waiting queue: who waits stays as it is   *)
(* and in its order, who joins has no blocks, and but for prefill_first    *)
(* the head remains the head.                                              *)

Before(q, s, t) == \E i, j \in 1..Len(q) : i < j /\ q[i] = s /\ q[j] = t

Pressed(e, d) ==
  /\ \A s \in Elems(e.waiting) : s \in Elems(d.waiting) /\ Untouched(e, d, s)
  /\ \A s \in Elems(d.waiting) : s \notin Elems(e.waiting) => d.table[s] = << >>
  /\ \A s, t \in Elems(e.waiting) : Before(d.waiting, s, t) => Before(e.waiting, s, t)
  /\ e.waiting # << >> /\ e.policy # "prefill_first" =>
       d.waiting # << >> /\ Head(d.waiting) = Head(e.waiting)

LEMMA SameQueuePressed ==
  ASSUME NEW e, NEW d, d.waiting = e.waiting,
         \A s \in Elems(e.waiting) : Untouched(e, d, s)
  PROVE  Pressed(e, d)
BY DEF Pressed

LEMMA PressedOn ==
  ASSUME NEW e, NEW m, NEW d, Pressed(e, m), Pressed(m, d), m.policy = e.policy
  PROVE  Pressed(e, d)
<1>1. \A s \in Elems(e.waiting) : s \in Elems(d.waiting) /\ Untouched(e, d, s)
  BY DEF Pressed, Untouched
<1>2. \A s \in Elems(d.waiting) : s \notin Elems(e.waiting) => d.table[s] = << >>
  BY DEF Pressed, Untouched
<1>3. \A s, t \in Elems(e.waiting) : Before(d.waiting, s, t) => Before(e.waiting, s, t)
  BY DEF Pressed
<1>4. e.waiting # << >> /\ e.policy # "prefill_first" =>
        d.waiting # << >> /\ Head(d.waiting) = Head(e.waiting)
  BY DEF Pressed
<1> QED BY <1>1, <1>2, <1>3, <1>4 DEF Pressed

LEMMA BeforeAppend ==
  ASSUME NEW q \in Seq(SeqIds), NEW v \in SeqIds, v \notin Elems(q)
  PROVE  \A s, t \in Elems(q) : Before(Append(q, v), s, t) => Before(q, s, t)
<1> DEFINE r == Append(q, v)
<1>1. /\ Len(q) \in Nat /\ Len(r) = Len(q) + 1 /\ r[Len(q) + 1] = v
      /\ \A i \in 1..Len(q) : r[i] = q[i]
  BY LenProperties, AppendProperties
<1> SUFFICES ASSUME NEW s \in Elems(q), NEW t \in Elems(q),
                    NEW i \in 1..Len(r), NEW j \in 1..Len(r),
                    i < j, r[i] = s, r[j] = t
             PROVE  Before(q, s, t)
  BY DEF Before
<1> HIDE DEF r
<1>2. i # Len(q) + 1 /\ j # Len(q) + 1 BY <1>1
<1>3. i \in 1..Len(q) /\ j \in 1..Len(q) BY <1>1, <1>2
<1> QED BY <1>1, <1>3 DEF Before

LEMMA BeforePrepend ==
  ASSUME NEW q \in Seq(SeqIds), NEW v \in SeqIds, v \notin Elems(q)
  PROVE  \A s, t \in Elems(q) : Before(<<v>> \o q, s, t) => Before(q, s, t)
<1> DEFINE one == <<v>>
           r == one \o q
<1>1. one \in Seq(SeqIds) /\ Len(one) = 1 /\ one[1] = v OBVIOUS
<1> HIDE DEF one
<1>2. /\ Len(q) \in Nat /\ Len(r) = 1 + Len(q)
      /\ \A i \in 1..(1 + Len(q)) : r[i] = IF i <= 1 THEN one[i] ELSE q[i - 1]
  <2>1. Len(q) \in Nat BY LenProperties
  <2>2. Len(r) = Len(one) + Len(q)
        /\ \A i \in 1..(Len(one) + Len(q)) :
             r[i] = IF i <= Len(one) THEN one[i] ELSE q[i - Len(one)]
    BY <1>1, ConcatProperties
  <2> QED BY <1>1, <2>1, <2>2
<1> SUFFICES ASSUME NEW s \in Elems(q), NEW t \in Elems(q),
                    NEW i \in 1..Len(r), NEW j \in 1..Len(r),
                    i < j, r[i] = s, r[j] = t
             PROVE  Before(q, s, t)
  BY DEF Before, one
<1> HIDE DEF r
<1>3. i # 1 /\ j # 1 BY <1>1, <1>2
<1>4. i - 1 \in 1..Len(q) /\ j - 1 \in 1..Len(q) /\ i - 1 < j - 1
      /\ q[i - 1] = s /\ q[j - 1] = t
  BY <1>2, <1>3
<1> QED BY <1>4 DEF Before

LEMMA PreemptedPressed ==
  ASSUME NEW e, NEW A, NEW X, EInv(e, A, X), NEW v \in Held(e, X),
         NEW prepend \in BOOLEAN, prepend => e.policy = "prefill_first"
  PROVE  Pressed(e, Preempted(e, v, prepend))
<1> DEFINE d == Preempted(e, v, prepend)
           w == e.waiting
<1>1. /\ d.waiting = IF prepend THEN <<v>> \o w ELSE Append(w, v)
      /\ d.table = [e.table EXCEPT ![v] = << >>] /\ d.policy = e.policy
  BY DEF EInv, Setup, EngineFields, Preempted
<1>2. w \in Seq(SeqIds) /\ Distinct(w) /\ v \in SeqIds /\ v \notin Elems(w)
  BY QueueFacts
<1>3. d.table[v] = << >> BY <1>1, <1>2 DEF EInv, Memory
<1>4. /\ Preempts(e, d, A, X, v)
  BY PreemptedFacts
<1> HIDE DEF d
<1>5. /\ \A r \in SeqIds \ {v} : Untouched(e, d, r)
      /\ Elems(d.waiting) = Elems(w) \union {v}
  BY <1>4 DEF Preempts
<1>6. \A s, t \in Elems(w) : Before(d.waiting, s, t) => Before(w, s, t)
  BY <1>1, <1>2, BeforeAppend, BeforePrepend
<1>7. Elems(w) \subseteq SeqIds BY <1>2, QueueFacts
<1>8. w # << >> /\ e.policy # "prefill_first" =>
        d.waiting # << >> /\ Head(d.waiting) = Head(w)
  <2> SUFFICES ASSUME w # << >>, e.policy # "prefill_first"
               PROVE  d.waiting # << >> /\ Head(d.waiting) = Head(w)
    OBVIOUS
  <2>1. d.waiting = Append(w, v) BY <1>1
  <2>2. Len(w) \in Nat /\ Len(w) # 0 BY <1>2, LenProperties, EmptySeq
  <2> DEFINE r == Append(w, v)
  <2>3. r \in Seq(SeqIds) /\ Len(r) = Len(w) + 1 /\ r[1] = w[1]
    BY <1>2, <2>2, AppendProperties
  <2> HIDE DEF r, w
  <2>4. r # << >> BY <2>2, <2>3, EmptyQueue
  <2>5. Head(r) = r[1] /\ Head(w) = w[1]
    BY <1>2, <2>3, <2>4, HeadTailProperties
  <2> QED BY <2>1, <2>3, <2>4, <2>5 DEF r
<1> QED BY <1>2, <1>3, <1>5, <1>6, <1>7, <1>8 DEF Pressed, d
---------------------------------------------------------------------------
(* _free_kv_for_waiting_head goes on until the head fits or nobody runs.   *)

Settled(d, head) ==
  CanAllocate(d.pool, Toks(d, head), d.len[head]) # -1 \/ d.running = << >>

Frees(e, d, A) ==
  /\ EInv(d, A, {}) /\ SameBooks(e, d) /\ d.batch = e.batch
  /\ Pressed(e, d) /\ Elems(d.running) \subseteq Elems(e.running)

LEMMA NothingPressed ==
  ASSUME NEW e
  PROVE  SameBooks(e, e) /\ Pressed(e, e)
<1>1. \A s : Untouched(e, e, s) BY DEF Untouched
<1> QED BY <1>1, SameQueuePressed DEF SameBooks

LEMMA FreeTurnFacts ==
  ASSUME NEW e, NEW A, EInv(e, A, {}), NEW head
  PROVE  LET p == FreeTurn(e, head)
         IN  /\ Frees(e, p, A) /\ Len(p.running) \in Nat
             /\ Settled(e, head) => p = e
             /\ ~ Settled(e, head) => Len(p.running) = Len(e.running) - 1
<1>1. CASE Settled(e, head)
  <2>1. FreeTurn(e, head) = e BY <1>1 DEF FreeTurn, Settled
  <2>2. Len(e.running) \in Nat BY QueueFacts
  <2> QED BY <1>1, <2>1, <2>2, NothingPressed DEF Frees
<1>2. CASE ~ Settled(e, head)
  <2> DEFINE v == SelectVictim(e, e.running)
             p == Preempted(e, v, FALSE)
  <2>1. FreeTurn(e, head) = p /\ e.running # << >> BY <1>2 DEF FreeTurn, Settled
  <2>2. v \in Elems(e.running) BY <2>1, VictimFacts
  <2> HIDE DEF v
  <2>3. v \in Held(e, {}) BY <2>2 DEF Held
  <2>4. Pressed(e, p) /\ Preempts(e, p, A, {}, v)
    <3>1. FALSE \in BOOLEAN OBVIOUS
    <3> QED BY <2>3, <3>1, PreemptedPressed, PreemptedFacts
  <2>5. {} \ {v} = {} OBVIOUS
  <2> HIDE DEF p
  <2>6. /\ EInv(p, A, {}) /\ SameBooks(e, p) /\ p.batch = e.batch
        /\ p.running = Without(e.running, v)
    BY <2>4, <2>5 DEF Preempts
  <2>7. v \in SeqIds /\ e.running \in Seq(SeqIds) /\ Distinct(e.running)
    BY <2>2, QueueFacts
  <2>8. /\ Elems(p.running) = Elems(e.running) \ {v}
        /\ Len(p.running) \in Nat /\ Len(p.running) = Len(e.running) - 1
    BY <2>2, <2>6, <2>7, WithoutFacts
  <2>9. Frees(e, p, A) BY <2>4, <2>6, <2>8 DEF Frees
  <2> QED BY <1>2, <2>1, <2>8, <2>9
<1> QED BY <1>1, <1>2

LEMMA FreesOn ==
  ASSUME NEW e, NEW m, NEW d, NEW A, Frees(e, m, A), Frees(m, d, A)
  PROVE  Frees(e, d, A)
<1>1. m.policy = e.policy /\ SameBooks(e, d) BY DEF Frees, SameBooks
<1>2. Pressed(e, d) BY <1>1, PressedOn DEF Frees
<1> QED BY <1>1, <1>2 DEF Frees

LEMMA FreedFacts ==
  ASSUME NEW e, NEW A, EInv(e, A, {}), NEW head
  PROVE  Frees(e, FreeKvFor(e, head), A) /\ Settled(FreeKvFor(e, head), head)
<1> DEFINE len == Len(e.running)
<1>1. len \in Nat BY QueueFacts
<1>2. PICK g : /\ g[0] = e /\ FreeKvFor(e, head) = g[len]
               /\ \A i \in 1..len : g[i] = FreeTurn(g[i - 1], head)
  BY <1>1, FreeTurns
<1> DEFINE Upto(i) == /\ Frees(e, g[i], A) /\ Len(g[i].running) \in Nat
                      /\ Settled(g[i], head) \/ Len(g[i].running) + i <= len
           T == {i \in Nat : i <= len => Upto(i)}
<1>3. 0 \in T
  <2>1. Frees(e, e, A) BY NothingPressed DEF Frees
  <2>2. Len(e.running) + 0 <= len BY <1>1
  <2> QED BY <1>1, <1>2, <2>1, <2>2
<1>4. ASSUME NEW i \in T PROVE i + 1 \in T
  <2> HIDE DEF Upto
  <2> SUFFICES ASSUME i + 1 <= len PROVE Upto(i + 1)
    OBVIOUS
  <2>1. i \in Nat /\ i <= len /\ i + 1 \in 1..len /\ (i + 1) - 1 = i
    BY <1>1
  <2>2. Upto(i) BY <2>1
  <2> USE DEF Upto
  <2> DEFINE r == g[i]
             p == FreeTurn(r, head)
  <2>3. g[i + 1] = p BY <1>2, <2>1
  <2>4. Frees(e, r, A) /\ EInv(r, A, {}) /\ Len(r.running) \in Nat
    BY <2>2 DEF Frees
  <2>5. Settled(r, head) \/ Len(r.running) + i <= len BY <2>2
  <2> HIDE DEF r
  <2>6. /\ Frees(r, p, A) /\ Len(p.running) \in Nat
        /\ Settled(r, head) => p = r
        /\ ~ Settled(r, head) => Len(p.running) = Len(r.running) - 1
    BY <2>4, FreeTurnFacts
  <2> HIDE DEF p
  <2>7. Frees(e, p, A) BY <2>4, <2>6, FreesOn
  <2>8. Settled(p, head) \/ Len(p.running) + (i + 1) <= len
    <3> DEFINE a == Len(r.running)
               b == Len(p.running)
    <3>1. a \in Nat /\ b \in Nat /\ i \in Nat /\ len \in Nat
      BY <1>1, <2>1, <2>4, <2>6
    <3>2. Settled(p, head) \/ (a + i <= len /\ b = a - 1) BY <2>5, <2>6
    <3> HIDE DEF a, b, len, T, Upto
    <3>3. Settled(p, head) \/ b + (i + 1) <= len BY <3>1, <3>2
    <3> QED BY <3>3 DEF a, b
  <2> QED BY <2>3, <2>6, <2>7, <2>8
<1>5. T = Nat
  <2>1. T \in SUBSET Nat OBVIOUS
  <2> HIDE DEF T
  <2> QED BY <1>3, <1>4, <2>1, SetInduction
<1>6. Upto(len)
  <2> HIDE DEF Upto
  <2>1. len \in T BY <1>1, <1>5
  <2> QED BY <1>1, <2>1
<1>7. Settled(g[len], head)
  <2> DEFINE q == g[len].running
  <2>1. q \in Seq(SeqIds) BY <1>6, QueueFacts DEF Frees
  <2>2. Settled(g[len], head) \/ Len(q) + len <= len BY <1>6
  <2>3. Len(q) \in Nat BY <1>6
  <2> HIDE DEF q, len
  <2>4. Len(q) + len <= len => Len(q) = 0 BY <1>1, <2>3
  <2>5. Len(q) = 0 => q = << >> BY <2>1, EmptySeq
  <2> QED BY <2>2, <2>4, <2>5 DEF q, Settled
<1> QED BY <1>2, <1>6, <1>7
---------------------------------------------------------------------------
(* _schedule_decode goes on until it has its number or nobody runs.        *)

LEMMA RoomTurnPressed ==
  ASSUME NEW e, NEW A, NEW Y, NEW s, s \notin Y, NEW r, Rooming(e, r, A, Y, s)
  PROVE  Pressed(r, RoomTurn(r, s))
<1>1. CASE RoomDone(r, s)
  <2>1. RoomTurn(r, s) = r BY <1>1 DEF RoomTurn, RoomDone
  <2> QED BY <2>1, NothingPressed
<1>2. CASE ~ RoomDone(r, s)
  <2> DEFINE v == IF r.running = << >> THEN s ELSE SelectVictim(r, r.running)
             front == r.policy = "prefill_first"
             X == Y \union {s}
  <2>1. RoomTurn(r, s) = Preempted(r, v, front) BY <1>2 DEF RoomTurn, RoomDone
  <2>2. s \notin Elems(r.waiting) /\ EInv(r, A, X)
    BY <1>2 DEF RoomDone, Rooming
  <2>3. v \in Held(r, X)
    <3>1. CASE r.running = << >> BY <3>1 DEF Held
    <3>2. CASE r.running # << >>
      <4>1. v \in Elems(r.running) BY <3>2, <2>2, VictimFacts
      <4> HIDE DEF v
      <4> QED BY <4>1 DEF Held
    <3> QED BY <3>1, <3>2
  <2>4. front \in BOOLEAN /\ (front => r.policy = "prefill_first") OBVIOUS
  <2> HIDE DEF v, front, X
  <2>5. Pressed(r, Preempted(r, v, front)) BY <2>2, <2>3, <2>4, PreemptedPressed
  <2> QED BY <2>1, <2>5
<1> QED BY <1>1, <1>2

LEMMA RoomPressed ==
  ASSUME NEW e, NEW A, NEW Y, NEW s, s \notin Y, EInv(e, A, Y \union {s})
  PROVE  Pressed(e, MakeRoom(e, s))
<1> DEFINE len == Len(e.running)
<1>1. len \in Nat /\ len + 1 \in Nat /\ s \notin Elems(e.waiting)
  <2>1. s \in Held(e, Y \union {s}) BY DEF Held
  <2> QED BY <2>1, QueueFacts
<1>2. PICK g : /\ g[0] = e /\ MakeRoom(e, s) = g[len + 1]
               /\ \A i \in 1..(len + 1) : g[i] = RoomTurn(g[i - 1], s)
  BY <1>1, RoomTurns
<1> DEFINE Upto(i) == Rooming(e, g[i], A, Y, s) /\ Pressed(e, g[i])
           T == {i \in Nat : i <= len + 1 => Upto(i)}
<1>3. 0 \in T
  <2>1. Rooming(e, e, A, Y, s) BY <1>1 DEF Rooming, SameBooks, Untouched
  <2> QED BY <1>2, <2>1, NothingPressed
<1>4. ASSUME NEW i \in T PROVE i + 1 \in T
  <2> HIDE DEF Upto
  <2> SUFFICES ASSUME i + 1 <= len + 1 PROVE Upto(i + 1)
    OBVIOUS
  <2>1. i \in Nat /\ i <= len + 1 /\ i + 1 \in 1..(len + 1) /\ (i + 1) - 1 = i
    BY <1>1
  <2>2. Upto(i) BY <2>1
  <2> DEFINE r == g[i]
             p == RoomTurn(r, s)
  <2>3. g[i + 1] = p BY <1>2, <2>1
  <2>4. Rooming(e, r, A, Y, s) /\ Pressed(e, r) BY <2>2 DEF Upto
  <2> HIDE DEF r
  <2>5. Rooming(e, p, A, Y, s) /\ Pressed(r, p)
    BY <2>4, RoomTurnFacts, RoomTurnPressed
  <2>6. r.policy = e.policy BY <2>4 DEF Rooming, SameBooks
  <2> HIDE DEF p
  <2>7. Pressed(e, p) BY <2>4, <2>5, <2>6, PressedOn
  <2> QED BY <2>3, <2>5, <2>7 DEF Upto
<1>5. T = Nat
  <2>1. T \in SUBSET Nat OBVIOUS
  <2> HIDE DEF T
  <2> QED BY <1>3, <1>4, <2>1, SetInduction
<1>6. Upto(len + 1)
  <2> HIDE DEF Upto
  <2>1. len + 1 \in T BY <1>1, <1>5
  <2> QED BY <1>1, <2>1
<1> QED BY <1>2, <1>6

Stopped(l, size) == l.st.running = << >> \/ Len(l.chosen) >= size

LEMMA DecodeTurnPressed ==
  ASSUME NEW e, NEW A, NEW X, EInv(e, A, X), NEW size \in Nat,
         NEW l, Choosing(e, l, A, X, size)
  PROVE  LET m == DecodeTurn(l, size)
         IN  /\ Choosing(e, m, A, X, size) /\ Pressed(l.st, m.st)
             /\ Len(m.st.running) \in Nat
             /\ Stopped(l, size) => m = l
             /\ ~ Stopped(l, size) => Len(m.st.running) < Len(l.st.running)
<1> DEFINE a == l.st
           s == Head(a.running)
           b == [a EXCEPT !.running = Tail(@)]
           Y == X \union Elems(l.chosen)
           r == MakeRoom(b, s)
           m == DecodeTurn(l, size)
<1>1. Choosing(e, m, A, X, size) BY DecodeTurnFacts
<1>2. EInv(m.st, A, X \union Elems(m.chosen)) BY <1>1 DEF Choosing
<1>3. Len(m.st.running) \in Nat BY <1>2, QueueFacts
<1>4. CASE Stopped(l, size)
  <2>1. m = l BY <1>4 DEF DecodeTurn, Stopped
  <2> QED BY <1>1, <1>3, <1>4, <2>1, NothingPressed
<1>5. CASE ~ Stopped(l, size)
  <2>0. a.running # << >> BY <1>5 DEF Stopped
  <2>1. m = Decided(l, r, s) BY <1>5 DEF DecodeTurn, Stopped
  <2>2. EInv(a, A, Y) BY DEF Choosing
  <2> HIDE DEF a, Y, m
  <2>3. /\ EInv(b, A, Y \union {s}) /\ SameBooks(a, b) /\ b.batch = a.batch
        /\ b.waiting = a.waiting /\ b.table = a.table /\ b.cached = a.cached
        /\ Elems(b.running) = Elems(a.running) \ {s}
        /\ s \in Elems(a.running) /\ s \in SeqIds
    BY <2>0, <2>2, TakenFacts
  <2> HIDE DEF b, s
  <2>4. s \notin Y /\ s \notin Elems(a.waiting)
    BY <2>2, <2>3, QueueFacts DEF Held
  <2>5. /\ Rooming(b, r, A, Y, s) /\ RoomDone(r, s) /\ Pressed(b, r)
    BY <2>3, <2>4, RoomFacts, RoomPressed
  <2> HIDE DEF r
  <2>6. Pressed(a, b) BY <2>3, SameQueuePressed DEF Untouched
  <2>7. Pressed(a, r) BY <2>3, <2>5, <2>6, PressedOn DEF SameBooks
  <2>8. m.st = r \/ (m.st = Grown(r, s) /\ s \notin Elems(r.waiting))
    BY <2>1 DEF Decided
  <2>9. \E Z : EInv(r, A, Z) BY <2>5 DEF Rooming
  <2>10. /\ Grown(r, s).waiting = r.waiting /\ Grown(r, s).running = r.running
         /\ Grown(r, s).policy = r.policy
         /\ \A t \in SeqIds : t # s => Untouched(r, Grown(r, s), t)
    BY <2>9 DEF Grown, Installed, EInv, Setup, EngineFields, Untouched, Memory
  <2>11. Elems(r.waiting) \subseteq SeqIds /\ r.policy = a.policy
    BY <2>3, <2>5, <2>9, QueueFacts DEF Rooming, SameBooks
  <2>12. Pressed(a, m.st) /\ m.st.running = r.running
    <3>1. CASE m.st = r BY <3>1, <2>7
    <3>2. CASE m.st = Grown(r, s) /\ s \notin Elems(r.waiting)
      <4> DEFINE d == Grown(r, s)
      <4> HIDE DEF d
      <4>1. d.waiting = r.waiting /\ d.running = r.running
            /\ \A t \in Elems(r.waiting) : Untouched(r, d, t)
        BY <3>2, <2>10, <2>11 DEF d
      <4>2. Pressed(r, d) BY <4>1, SameQueuePressed
      <4>3. Pressed(a, d) BY <4>2, <2>7, <2>11, PressedOn
      <4> QED BY <3>2, <4>1, <4>3 DEF d
    <3> QED BY <2>8, <3>1, <3>2
  <2>13. Len(r.running) < Len(a.running)
    <3> DEFINE x == r.running
               y == a.running
    <3>1. /\ x \in Seq(SeqIds) /\ Distinct(x) /\ y \in Seq(SeqIds) /\ Distinct(y)
          /\ Elems(x) \subseteq Elems(y) \ {s} /\ s \in Elems(y)
      BY <2>2, <2>3, <2>5, <2>9, QueueFacts DEF Rooming
    <3>2. /\ IsFiniteSet(Elems(y)) /\ Cardinality(Elems(y)) = Len(y)
          /\ Cardinality(Elems(x)) = Len(x) /\ Len(x) \in Nat /\ Len(y) \in Nat
      BY <3>1, DistinctLen, LenProperties
    <3> HIDE DEF x, y
    <3>3. Cardinality(Elems(y) \ {s}) = Cardinality(Elems(y)) - 1
          /\ IsFiniteSet(Elems(y) \ {s})
      BY <3>1, <3>2, FS_RemoveElement
    <3>4. Cardinality(Elems(x)) <= Cardinality(Elems(y) \ {s})
      BY <3>1, <3>3, FS_Subset
    <3>5. Len(x) < Len(y) BY <3>2, <3>3, <3>4
    <3> QED BY <3>5 DEF x, y
  <2> QED BY <1>1, <1>3, <1>5, <2>12, <2>13 DEF m, a
<1> QED BY <1>4, <1>5

LEMMA DecodeLoopPressed ==
  ASSUME NEW e, NEW A, NEW X, EInv(e, A, X), NEW size \in Nat
  PROVE  LET l == DecodeLoop(e, size)
         IN  Choosing(e, l, A, X, size) /\ Pressed(e, l.st) /\ Stopped(l, size)
<1> DEFINE len == Len(e.running)
<1>1. len \in Nat BY QueueFacts
<1>2. PICK g : /\ g[0] = [st |-> e, chosen |-> << >>]
               /\ DecodeLoop(e, size) = g[len]
               /\ \A i \in 1..len : g[i] = DecodeTurn(g[i - 1], size)
  BY <1>1, DecodeTurns
<1> DEFINE On(i) == /\ Choosing(e, g[i], A, X, size) /\ Pressed(e, g[i].st)
                    /\ Len(g[i].st.running) \in Nat
                    /\ Stopped(g[i], size) \/ Len(g[i].st.running) + i <= len
           T == {i \in Nat : i <= len => On(i)}
<1>3. 0 \in T
  <2>1. g[0].st = e /\ g[0].chosen = << >> BY <1>2
  <2> DEFINE none == g[0].chosen
  <2>2. none \in Seq(SeqIds) /\ Len(none) = 0 /\ Elems(none) = {} /\ Distinct(none)
    BY <2>1, EmptyQueue
  <2>3. SameBooks(e, e) /\ \A t \in SeqIds : Untouched(e, e, t)
    BY DEF SameBooks, Untouched
  <2>4. X \union Elems(none) = X BY <2>2
  <2> DEFINE z == g[0]
  <2>5. z.st = e /\ z.chosen = none BY <2>1
  <2> HIDE DEF z, none
  <2>6. EInv(z.st, A, X \union Elems(z.chosen)) BY <2>4, <2>5
  <2>7. Choosing(e, z, A, X, size)
    BY <2>2, <2>3, <2>5, <2>6 DEF Choosing
  <2>8. Pressed(e, z.st) BY <2>5, NothingPressed
  <2>9. Len(z.st.running) + 0 <= len /\ Len(z.st.running) \in Nat BY <1>1, <2>5
  <2>10. On(0) BY <2>7, <2>8, <2>9 DEF z
  <2> HIDE DEF On
  <2> QED BY <2>10
<1>4. ASSUME NEW i \in T PROVE i + 1 \in T
  <2> HIDE DEF On
  <2> SUFFICES ASSUME i + 1 <= len PROVE On(i + 1)
    OBVIOUS
  <2>1. i \in Nat /\ i <= len /\ i + 1 \in 1..len /\ (i + 1) - 1 = i
    BY <1>1
  <2>2. On(i) BY <2>1
  <2> USE DEF On
  <2> DEFINE l == g[i]
             m == DecodeTurn(l, size)
  <2>3. g[i + 1] = m BY <1>2, <2>1
  <2>4. /\ Choosing(e, l, A, X, size) /\ Pressed(e, l.st) /\ Len(l.st.running) \in Nat
        /\ Stopped(l, size) \/ Len(l.st.running) + i <= len
    BY <2>2
  <2> HIDE DEF l
  <2>5. /\ Choosing(e, m, A, X, size) /\ Pressed(l.st, m.st)
        /\ Len(m.st.running) \in Nat
        /\ Stopped(l, size) => m = l
        /\ ~ Stopped(l, size) => Len(m.st.running) < Len(l.st.running)
    BY <2>4, DecodeTurnPressed
  <2> HIDE DEF m
  <2>6. l.st.policy = e.policy BY <2>4 DEF Choosing, SameBooks
  <2>7. Pressed(e, m.st) BY <2>4, <2>5, <2>6, PressedOn
  <2>8. Stopped(m, size) \/ Len(m.st.running) + (i + 1) <= len
    <3> DEFINE a == Len(l.st.running)
               b == Len(m.st.running)
    <3>1. a \in Nat /\ b \in Nat /\ i \in Nat /\ len \in Nat
      BY <1>1, <2>1, <2>4, <2>5
    <3>2. Stopped(m, size) \/ (a + i <= len /\ b < a) BY <2>4, <2>5
    <3> HIDE DEF a, b, len, T, On
    <3>3. Stopped(m, size) \/ b + (i + 1) <= len BY <3>1, <3>2
    <3> QED BY <3>3 DEF a, b
  <2> QED BY <2>3, <2>5, <2>7, <2>8
<1>5. T = Nat
  <2>1. T \in SUBSET Nat OBVIOUS
  <2> HIDE DEF T
  <2> QED BY <1>3, <1>4, <2>1, SetInduction
<1>6. On(len)
  <2> HIDE DEF On
  <2>1. len \in T BY <1>1, <1>5
  <2> QED BY <1>1, <2>1
<1>7. Stopped(g[len], size)
  <2> DEFINE q == g[len].st.running
  <2>1. EInv(g[len].st, A, X \union Elems(g[len].chosen)) BY <1>6 DEF Choosing
  <2>2. q \in Seq(SeqIds) BY <2>1, QueueFacts
  <2>3. Stopped(g[len], size) \/ Len(q) + len <= len BY <1>6
  <2>4. Len(q) \in Nat BY <1>6
  <2> HIDE DEF q, len
  <2>5. Len(q) + len <= len => Len(q) = 0 BY <1>1, <2>4
  <2>6. Len(q) = 0 => q = << >> BY <2>2, EmptySeq
  <2> QED BY <2>3, <2>5, <2>6 DEF q, Stopped
<1> QED BY <1>2, <1>6, <1>7

(* Who is decoded, and that nobody is left out while the step has room.    *)
Picks(e, d, chosen, size) ==
  /\ Pressed(e, d) /\ chosen \in Seq(SeqIds) /\ Distinct(chosen)
  /\ d.batch = DecodeItems(chosen) \o e.batch /\ Len(chosen) <= size
  /\ Elems(chosen) \subseteq Elems(d.running)
  /\ Len(chosen) >= size \/ Elems(d.running) = Elems(chosen)

StepSize(budget) == SmallerOf(SmallerOf(MaxNumSeqs, MaxBatched), budget)

LEMMA DecodePicks ==
  ASSUME NEW e, NEW A, NEW X, EInv(e, A, X), NEW budget \in Nat,
         NEW rotate \in BOOLEAN
  PROVE  \E chosen : Picks(e, ScheduleDecode(e, budget, rotate), chosen, StepSize(budget))
<1> DEFINE size == StepSize(budget)
           l == DecodeLoop(e, size)
           a == l.st
           chosen == l.chosen
           d == Requeued(a, chosen, rotate)
<1>1. size \in Nat BY CoreAssumption DEF SmallerOf, StepSize
<1>2. ScheduleDecode(e, budget, rotate) = d BY DEF ScheduleDecode, Decoded, StepSize
<1> HIDE DEF size
<1>3. Choosing(e, l, A, X, size) /\ Pressed(e, l.st) /\ Stopped(l, size)
  BY <1>1, DecodeLoopPressed
<1> HIDE DEF l
<1>4. /\ EInv(a, A, X \union Elems(chosen)) /\ a.batch = e.batch
      /\ a.policy = e.policy /\ chosen \in Seq(SeqIds) /\ Distinct(chosen)
      /\ Len(chosen) <= size
  BY <1>3 DEF Choosing, SameBooks
<1>5. X \cap Elems(chosen) = {}
  <2>1. EInv(e, A, X) OBVIOUS
  <2>2. X \cap Elems(e.running) = {} BY <2>1, QueueFacts
  <2>3. Elems(chosen) \subseteq Elems(e.running) BY <1>3 DEF Choosing
  <2> QED BY <2>2, <2>3
<1>6. Pressed(e, a) /\ (a.running = << >> \/ Len(chosen) >= size)
  BY <1>3 DEF Stopped
<1> HIDE DEF a, chosen
<1>7. Requeues(a, d, A, X, chosen)
  <2>1. d = Requeued(a, chosen, rotate) OBVIOUS
  <2> HIDE DEF d
  <2> QED BY <1>4, <1>5, <2>1, RequeuedFacts
<1> HIDE DEF d
<1>8. /\ SameBooks(a, d) /\ d.batch = DecodeItems(chosen) \o e.batch
      /\ d.waiting = a.waiting /\ d.table = a.table /\ d.cached = a.cached
      /\ Elems(d.running) = Elems(a.running) \union Elems(chosen)
  BY <1>4, <1>7 DEF Requeues
<1>9. Pressed(a, d) BY <1>8, SameQueuePressed DEF Untouched
<1>10. Pressed(e, d) BY <1>4, <1>6, <1>9, PressedOn
<1>11. Len(chosen) >= size \/ Elems(d.running) = Elems(chosen)
  BY <1>6, <1>8, EmptyQueue
<1>12. Picks(e, d, chosen, size)
  BY <1>4, <1>8, <1>10, <1>11 DEF Picks
<1> QED BY <1>2, <1>12 DEF size

LEMMA NobodyIn ==
  ASSUME NEW S, NEW q \in Seq(S), Elems(q) = {}
  PROVE  q = << >>
<1>1. Len(q) \in Nat BY LenProperties
<1>2. Len(q) # 0 => 1 \in 1..Len(q) BY <1>1
<1>3. Len(q) # 0 => q[1] \in Elems(q) BY <1>2 DEF Elems
<1> QED BY <1>3, EmptySeq

(* A decode attempt comes away with nothing only when nobody runs.         *)
LEMMA DecodeOutcome ==
  ASSUME NEW e, NEW A, Ready(e, A), NEW budget \in Nat, NEW rotate \in BOOLEAN
  PROVE  LET d == ScheduleDecode(e, budget, rotate)
         IN  /\ Pressed(e, d) /\ Len(d.batch) \in Nat /\ Len(d.batch) <= budget
             /\ budget > 0 /\ d.batch = << >> => d.running = << >>
<1> DEFINE d == ScheduleDecode(e, budget, rotate)
           size == StepSize(budget)
<1>1. EInv(e, A, {}) /\ e.batch = << >> BY DEF Ready
<1>2. PICK chosen : Picks(e, d, chosen, size) BY <1>1, DecodePicks
<1>3. Good(d, A) BY DecodeAdvances DEF Advances
<1>4. size \in Nat /\ size <= budget /\ (budget > 0 => size > 0)
  BY CoreAssumption DEF SmallerOf, StepSize
<1> HIDE DEF d, size
<1>5. /\ Pressed(e, d) /\ chosen \in Seq(SeqIds)
      /\ d.batch = DecodeItems(chosen) \o << >> /\ Len(chosen) <= size
      /\ Len(chosen) >= size \/ Elems(d.running) = Elems(chosen)
  BY <1>1, <1>2 DEF Picks
<1>6. /\ DecodeItems(chosen) \in Seq(Item)
      /\ Len(DecodeItems(chosen)) = Len(chosen) /\ Len(chosen) \in Nat
  BY <1>5, DecodeItemsFacts
<1> DEFINE items == DecodeItems(chosen)
<1> HIDE DEF items
<1>7. Len(d.batch) = Len(chosen)
  <2>1. << >> \in Seq(Item) /\ Len(<< >>) = 0 BY EmptyQueue
  <2>2. Len(items \o << >>) = Len(items) + Len(<< >>)
    BY <1>6, <2>1, ConcatProperties DEF items
  <2> QED BY <1>5, <1>6, <2>1, <2>2 DEF items
<1>8. ASSUME budget > 0, d.batch = << >> PROVE d.running = << >>
  <2>1. Len(chosen) = 0 BY <1>7, <1>8, EmptyQueue
  <2>2. chosen = << >> BY <1>5, <2>1, EmptySeq
  <2>3. ~ (Len(chosen) >= size) BY <1>4, <1>8, <2>1
  <2>4. Elems(d.running) = {} BY <1>5, <2>2, <2>3, EmptyQueue
  <2>5. d.running \in Seq(SeqIds) BY <1>3, QueueFacts DEF Good
  <2> QED BY <2>4, <2>5, NobodyIn
<1>9. Len(d.batch) \in Nat /\ Len(d.batch) <= budget
  BY <1>4, <1>5, <1>6, <1>7
<1> QED BY <1>5, <1>8, <1>9 DEF d
---------------------------------------------------------------------------
(* Who of the waiting sequences has blocks: only the head.                 *)

HeadHolds(e) == \A s \in Elems(e.waiting) : e.table[s] # << >> => s = Head(e.waiting)

LEMMA PressedHeads ==
  ASSUME NEW e, NEW d, Pressed(e, d), HeadHolds(e), e.policy # "prefill_first"
  PROVE  HeadHolds(d)
<1> SUFFICES ASSUME NEW s \in Elems(d.waiting), d.table[s] # << >>
             PROVE  s = Head(d.waiting)
  BY DEF HeadHolds
<1>1. s \in Elems(e.waiting) /\ Untouched(e, d, s) BY DEF Pressed
<1>2. e.table[s] # << >> BY <1>1 DEF Untouched
<1>3. s = Head(e.waiting) BY <1>1, <1>2 DEF HeadHolds
<1>4. e.waiting # << >> BY <1>1, EmptyQueue
<1> QED BY <1>3, <1>4 DEF Pressed

Blockless(e) == \A s \in Elems(e.waiting) : e.table[s] = << >>

LEMMA PressedBlockless ==
  ASSUME NEW e, NEW d, Pressed(e, d), Blockless(e)
  PROVE  Blockless(d) /\ HeadHolds(d)
<1>1. \A s \in Elems(d.waiting) : d.table[s] = << >>
  BY DEF Pressed, Blockless, Untouched
<1> QED BY <1>1 DEF Blockless, HeadHolds

(* The KV cache is large enough for every request by itself.               *)
Fits(e) ==
  \A s \in SeqIds : BlocksFor(e.plen[s] + e.maxTokens[s] - 1) <= NumBlocks

LEMMA FitsOn ==
  ASSUME NEW e, NEW d, Fits(e), SameLimits(e, d) \/ SameBooks(e, d)
  PROVE  Fits(d)
BY DEF Fits, SameLimits, SameBooks

(* can_allocate is monotone in the tokens it is asked for.                 *)
LEMMA AllocatePieces ==
  ASSUME NEW p, PoolTyped(p, Nat), NEW toks \in Seq(Nat), Len(toks) > 0,
         NEW m \in Nat
  PROVE  LET K == CachedBlocks(p, toks)
             a == ActiveCachedBlocks(p, toks)
             r == BlocksFor(m)
             f == Len(p.free)
         IN  /\ K \in Nat /\ a \in Nat /\ r \in Nat /\ f \in Nat
             /\ CanAllocate(p, toks, m) # -1 <=> f + a >= r /\ f + K >= r
<1> DEFINE K == CachedBlocks(p, toks)
           a == ActiveCachedBlocks(p, toks)
           r == BlocksFor(m)
           f == Len(p.free)
           least == IF K < r THEN K ELSE r
           active == IF a < least THEN a ELSE least
<1>1. f \in Nat /\ r \in Nat
  BY BlocksForFacts, LenProperties DEF PoolTyped
<1>2. K \in Nat
  <2>1. Len(toks) \in Nat BY LenProperties
  <2>2. BlocksFor(Len(toks)) \in Nat BY <2>1, BlocksForFacts
  <2>3. K \in 0..(BlocksFor(Len(toks)) - 1) BY CachedBlocksFacts
  <2> HIDE DEF K
  <2> QED BY <2>2, <2>3
<1>3. a \in Nat
  <2>1. IsFiniteSet(1..K) BY <1>2, FS_Interval
  <2>2. IsFiniteSet({i \in 1..K : p.map[Chain(toks, i)] \in p.used})
    BY <2>1, FS_Subset
  <2> QED BY <2>2, FS_CardinalityType DEF ActiveCachedBlocks
<1>4. CanAllocate(p, toks, m) = IF f < r - active THEN -1 ELSE least
  BY DEF CanAllocate
<1> HIDE DEF K, a, r, f
<1>5. least \in Nat /\ active \in Nat BY <1>1, <1>2, <1>3
<1>6. CanAllocate(p, toks, m) # -1 <=> f >= r - active
  <2> HIDE DEF least, active
  <2> QED BY <1>1, <1>4, <1>5
<1>7. f >= r - active <=> f + a >= r /\ f + K >= r
  BY <1>1, <1>2, <1>3
<1> QED BY <1>1, <1>2, <1>3, <1>6, <1>7 DEF K, a, r, f

LEMMA AllocateLess ==
  ASSUME NEW p, PoolTyped(p, Nat), NEW toks \in Seq(Nat), Len(toks) > 0,
         NEW m \in Nat, NEW k \in Nat, k <= m, CanAllocate(p, toks, m) # -1
  PROVE  CanAllocate(p, toks, k) # -1
<1> DEFINE K == CachedBlocks(p, toks)
           a == ActiveCachedBlocks(p, toks)
           f == Len(p.free)
           r == BlocksFor(m)
           x == BlocksFor(k)
<1>1. /\ K \in Nat /\ a \in Nat /\ r \in Nat /\ f \in Nat
      /\ f + a >= r /\ f + K >= r
  BY AllocatePieces
<1>2. /\ x \in Nat
      /\ CanAllocate(p, toks, k) # -1 <=> f + a >= x /\ f + K >= x
  BY AllocatePieces
<1>3. x <= r BY BlocksForMonotone
<1> HIDE DEF K, a, f, r, x
<1>4. f + a >= x /\ f + K >= x BY <1>1, <1>2, <1>3
<1> QED BY <1>2, <1>4

(* With nobody resident every block is free, and the head fits.            *)
LEMMA IdleFits ==
  ASSUME NEW e, NEW A, EInv(e, A, {}), Fits(e), Blockless(e), e.running = << >>,
         NEW h \in Elems(e.waiting)
  PROVE  CanAllocate(e.pool, Toks(e, h), e.len[h]) # -1
<1> DEFINE p == e.pool
           toks == Toks(e, h)
           m == e.len[h]
           f == Len(p.free)
<1>1. h \in SeqIds /\ Setup(e) BY QueueFacts DEF EInv
<1>2. /\ toks \in Seq(Nat) /\ Len(toks) > 0 /\ m \in Nat
  BY <1>1, TokensFacts
<1>3. m < e.plen[h] + e.maxTokens[h] /\ e.plen[h] \in Nat /\ e.maxTokens[h] \in Nat
  BY <1>1 DEF EInv, Placed, Parked, Setup
<1>4. BlocksFor(m) <= NumBlocks
  <2> DEFINE all == e.plen[h] + e.maxTokens[h] - 1
  <2>1. all \in Nat /\ m <= all
    <3> DEFINE a == e.plen[h]
               b == e.maxTokens[h]
    <3>1. a \in Nat /\ b \in Nat /\ m < a + b /\ m \in Nat BY <1>2, <1>3
    <3> HIDE DEF a, b, m
    <3>2. a + b - 1 \in Nat /\ m <= a + b - 1 BY <3>1
    <3> QED BY <3>2 DEF a, b
  <2>2. BlocksFor(all) <= NumBlocks BY <1>1 DEF Fits
  <2> HIDE DEF all, m
  <2>3. BlocksFor(m) \in Nat /\ BlocksFor(all) \in Nat /\ BlocksFor(m) <= BlocksFor(all)
    BY <1>2, <2>1, BlocksForFacts, BlocksForMonotone
  <2> QED BY <2>2, <2>3, PoolAssumption
<1>5. \A s \in SeqIds : e.table[s] = << >>
  <2> SUFFICES ASSUME NEW s \in SeqIds, s \notin Elems(e.waiting)
               PROVE  e.table[s] = << >>
    BY DEF Blockless
  <2>1. s \notin Held(e, {}) BY EmptyQueue DEF Held
  <2>2. Vacant(e, s) BY <2>1 DEF EInv, Placed
  <2> QED BY <2>2 DEF Vacant
<1>6. PoolTyped(p, Nat) /\ Accounts(p, e.table, SeqIds) BY MemoryFacts
<1>7. \A b \in Block : p.ref[b] = 0
  <2> SUFFICES ASSUME NEW b \in Block PROVE p.ref[b] = 0
    OBVIOUS
  <2>1. HoldersOf(e.table, SeqIds, b) = {} BY <1>5, EmptyQueue DEF HoldersOf
  <2>2. HolderCount(e.table, SeqIds, b) = 0 BY <2>1, FS_EmptySet DEF HolderCount
  <2> QED BY <1>6, <2>2 DEF Accounts
<1>8. Elems(p.free) = Block /\ Distinct(p.free) /\ p.free \in Seq(Block)
  <2>1. p.used = {} BY <1>6, <1>7 DEF Accounts
  <2> QED BY <1>6, <2>1 DEF Accounts, PoolTyped
<1>9. f = NumBlocks
  <2>1. Cardinality(Elems(p.free)) = f BY <1>8, DistinctLen
  <2>2. Cardinality(0..(NumBlocks - 1)) = NumBlocks
    <3>1. Cardinality(0..(NumBlocks - 1)) =
            IF 0 > NumBlocks - 1 THEN 0 ELSE (NumBlocks - 1) - 0 + 1
      BY FS_Interval, PoolAssumption
    <3> QED BY <3>1, PoolAssumption
  <2> HIDE DEF f
  <2> QED BY <1>8, <2>1, <2>2 DEF Block
<1>10. /\ CachedBlocks(p, toks) \in Nat /\ ActiveCachedBlocks(p, toks) \in Nat
       /\ BlocksFor(m) \in Nat /\ f \in Nat
       /\ CanAllocate(p, toks, m) # -1 <=>
            f + ActiveCachedBlocks(p, toks) >= BlocksFor(m)
            /\ f + CachedBlocks(p, toks) >= BlocksFor(m)
  BY <1>2, <1>6, AllocatePieces
<1> HIDE DEF f, p, toks, m
<1> QED BY <1>4, <1>9, <1>10 DEF p, toks, m
---------------------------------------------------------------------------
(* When a prefill attempt is sure to select the head: it has blocks for    *)
(* all its tokens, or there are enough free ones.                          *)

CanStart(e) ==
  LET h == Head(e.waiting)
  IN  /\ e.waiting # << >>
      /\ IF e.table[h] # << >> THEN ~ e.incremental
         ELSE CanAllocate(e.pool, Toks(e, h), e.len[h]) # -1

Startable(e) ==
  /\ Fits(e) /\ HeadHolds(e) /\ e.waiting # << >>
  /\ e.incremental => e.table[Head(e.waiting)] = << >>

LEMMA HeadWaits ==
  ASSUME NEW e, NEW A, NEW X, EInv(e, A, X), e.waiting # << >>
  PROVE  Head(e.waiting) \in Elems(e.waiting) /\ Head(e.waiting) \in SeqIds
BY QueueFacts, HeadTail

LEMMA IdleStarts ==
  ASSUME NEW e, NEW A, EInv(e, A, {}), Startable(e), e.running = << >>
  PROVE  CanStart(e)
<1> DEFINE h == Head(e.waiting)
<1>1. h \in Elems(e.waiting) BY HeadWaits DEF Startable
<1>2. CASE e.table[h] # << >>
  <2>1. ~ e.incremental BY <1>2 DEF Startable
  <2> QED BY <2>1, <1>2 DEF CanStart, Startable
<1>3. CASE e.table[h] = << >>
  <2>1. Blockless(e) BY <1>3 DEF Startable, HeadHolds, Blockless
  <2>2. CanAllocate(e.pool, Toks(e, h), e.len[h]) # -1
    BY <1>1, <2>1, IdleFits DEF Startable
  <2> QED BY <2>2, <1>3 DEF CanStart, Startable
<1> QED BY <1>2, <1>3

LEMMA FreedStarts ==
  ASSUME NEW e, NEW A, EInv(e, A, {}), Startable(e), e.policy # "prefill_first"
  PROVE  LET d == FreeKvForWaitingHead(e)
         IN  Frees(e, d, A) /\ CanStart(d) /\ HeadHolds(d)
<1> DEFINE h == Head(e.waiting)
           d == FreeKvForWaitingHead(e)
<1>1. h \in Elems(e.waiting) /\ e.waiting # << >> BY HeadWaits DEF Startable
<1>2. CASE e.table[h] # << >>
  <2>1. d = e BY <1>2 DEF FreeKvForWaitingHead
  <2>2. Frees(e, e, A) BY NothingPressed DEF Frees
  <2>3. CanStart(e) BY <1>1, <1>2 DEF CanStart, Startable
  <2> HIDE DEF d
  <2> QED BY <2>1, <2>2, <2>3 DEF Startable, d
<1>3. CASE e.table[h] = << >>
  <2>1. d = FreeKvFor(e, h) BY <1>3 DEF FreeKvForWaitingHead
  <2>2. Frees(e, d, A) /\ Settled(d, h) BY <2>1, FreedFacts
  <2> HIDE DEF d
  <2>3. /\ EInv(d, A, {}) /\ SameBooks(e, d) /\ Pressed(e, d) BY <2>2 DEF Frees
  <2>4. d.waiting # << >> /\ Head(d.waiting) = h /\ d.table[h] = << >>
    BY <1>1, <1>3, <2>3 DEF Pressed, Untouched
  <2>5. HeadHolds(d) BY <2>3, PressedHeads DEF Startable
  <2>6. Startable(d) BY <2>3, <2>4, <2>5, FitsOn DEF Startable
  <2>7. CanStart(d)
    <3>1. CASE d.running = << >> BY <3>1, <2>3, <2>6, IdleStarts
    <3>2. CASE CanAllocate(d.pool, Toks(d, h), d.len[h]) # -1
      BY <3>2, <2>4 DEF CanStart
    <3> QED BY <3>1, <3>2, <2>2 DEF Settled
  <2> QED BY <2>2, <2>5, <2>7 DEF d
<1> QED BY <1>2, <1>3
---------------------------------------------------------------------------
(* One turn of _schedule_prefill.                                          *)

LEMMA DoneFacts ==
  ASSUME NEW e, NEW A, NEW X, EInv(e, A, X), NEW s \in Elems(e.waiting)
  PROVE  /\ Done(e, s) \in Nat /\ e.len[s] \in Nat /\ Done(e, s) < e.len[s]
<1>1. s \in SeqIds /\ Setup(e) /\ Parked(e, s) BY QueueFacts DEF EInv, Placed
<1>2. /\ Toks(e, s) \in Seq(Nat) /\ Len(Toks(e, s)) = e.len[s] /\ e.len[s] \in Nat
      /\ Len(Toks(e, s)) > 0
  BY <1>1, TokensFacts
<1>3. CASE e.table[s] # << >>
  <2>1. Done(e, s) = e.cached[s] BY <1>3 DEF Done
  <2>2. e.cached[s] \in Nat BY <1>1 DEF EInv, Memory
  <2> QED BY <1>1, <1>2, <2>1, <2>2 DEF Parked
<1>4. CASE e.table[s] = << >>
  <2> DEFINE b == CachedBlocks(e.pool, Toks(e, s))
             all == BlocksFor(Len(Toks(e, s)))
  <2>1. b \in 0..(all - 1) BY <1>2, CachedBlocksFacts
  <2>2. all \in Nat /\ all * BlockSize < Len(Toks(e, s)) + BlockSize
    BY <1>2, BlocksForFacts
  <2>3. Done(e, s) = b * BlockSize BY <1>4 DEF Done
  <2> HIDE DEF b, all
  <2>4. b \in Nat /\ b < all BY <2>1, <2>2
  <2>5. b * BlockSize + BlockSize <= all * BlockSize /\ b * BlockSize \in Nat
        /\ all * BlockSize \in Nat
    BY <2>2, <2>4, MulMonotone
  <2> QED BY <1>2, <2>2, <2>3, <2>5, PoolAssumption
<1> QED BY <1>3, <1>4

(* What joins the batch, and what that does to the waiting queue.          *)
LEMMA QueuedQueue ==
  ASSUME NEW e, DOMAIN e = EngineFields, NEW s, NEW k
  PROVE  LET d == Queued(e, s, k)
         IN  /\ d.waiting = e.waiting \/ d.waiting = Tail(e.waiting)
             /\ d.batch = Append(e.batch, [seq |-> s, phase |-> "prefill", n |-> k])
BY DEF Queued, EngineFields

LEMMA InstalledQueue ==
  ASSUME NEW e, DOMAIN e = EngineFields, NEW s, NEW new, NEW c
  PROVE  LET d == Installed(e, s, new)
             w == [Installed(e, s, new) EXCEPT !.cached[s] = c]
         IN  /\ DOMAIN d = EngineFields /\ d.waiting = e.waiting /\ d.batch = e.batch
             /\ DOMAIN w = EngineFields /\ w.waiting = e.waiting /\ w.batch = e.batch
BY DEF Installed, EngineFields

LEMMA TurnQueue ==
  ASSUME NEW e, NEW A, EInv(e, A, {}), NEW s, NEW remaining, NEW count
  PROVE  LET d == NextHead(e, s, remaining, count)
             k == Chunk(e.len[s] - Done(e, s), remaining)
         IN  \/ d = e
             \/ /\ d.waiting = e.waiting \/ d.waiting = Tail(e.waiting)
                /\ d.batch = Append(e.batch, [seq |-> s, phase |-> "prefill", n |-> k])
<1> DEFINE d == NextHead(e, s, remaining, count)
           k == Chunk(e.len[s] - Done(e, s), remaining)
           Took(x) == /\ x.waiting = e.waiting \/ x.waiting = Tail(e.waiting)
                      /\ x.batch = Append(e.batch, [seq |-> s, phase |-> "prefill", n |-> k])
<1>1. DOMAIN e = EngineFields BY DEF EInv, Setup
<1>2. d = e \/ d = NextChunk(e, s, k)
      \/ d = FirstChunk(e, s, k, CanAllocate(e.pool, Toks(e, s), FirstTarget(e, s, k)))
  BY DEF NextHead, PrefillTurn
<1> HIDE DEF d, k
<1>3. NextChunk(e, s, k) = e \/ Took(NextChunk(e, s, k))
  <2> DEFINE m == Installed(e, s, Extended(e.pool, e.table[s],
                                           Missing(e.table[s], e.cached[s] + k)))
  <2>1. Took(Queued(e, s, k)) BY <1>1, QueuedQueue
  <2>2. DOMAIN m = EngineFields /\ m.waiting = e.waiting /\ m.batch = e.batch
    BY <1>1, InstalledQueue
  <2>3. NextChunk(e, s, k) \in {e, Queued(e, s, k), Queued(m, s, k)}
    BY DEF NextChunk
  <2> HIDE DEF m
  <2>4. Took(Queued(m, s, k)) BY <2>2, QueuedQueue
  <2> HIDE DEF Took
  <2> QED BY <2>1, <2>3, <2>4
<1>4. ASSUME NEW c PROVE FirstChunk(e, s, k, c) = e \/ Took(FirstChunk(e, s, k, c))
  <2> DEFINE w == [Installed(e, s, Allocated(e.pool, Toks(e, s), c, FirstTarget(e, s, k)))
                     EXCEPT !.cached[s] = c * BlockSize]
  <2>1. DOMAIN w = EngineFields /\ w.waiting = e.waiting /\ w.batch = e.batch
    BY <1>1, InstalledQueue
  <2>2. FirstChunk(e, s, k, c) \in {e, Queued(w, s, k)} BY DEF FirstChunk
  <2> HIDE DEF w
  <2>3. Took(Queued(w, s, k)) BY <2>1, QueuedQueue
  <2> HIDE DEF Took
  <2> QED BY <2>2, <2>3
<1> QED BY <1>2, <1>3, <1>4 DEF d, k

(* The head that can start does.                                           *)
LEMMA TurnStarts ==
  ASSUME NEW e, NEW A, EInv(e, A, {}), CanStart(e), e.batch \in Seq(Item),
         NEW remaining \in Nat \ {0}
  PROVE  NextHead(e, Head(e.waiting), remaining, 0) # e
<1> DEFINE s == Head(e.waiting)
           left == e.len[s] - Done(e, s)
           k == Chunk(left, remaining)
           d == NextHead(e, s, remaining, 0)
<1>1. s \in Elems(e.waiting) /\ s \in SeqIds BY HeadWaits DEF CanStart
<1>2. /\ Done(e, s) \in Nat /\ e.len[s] \in Nat /\ Done(e, s) < e.len[s]
      /\ DOMAIN e = EngineFields
  BY <1>1, DoneFacts DEF EInv, Setup
<1>3. left \in Nat /\ left > 0 BY <1>2
<1>4. k \in Nat /\ k > 0 /\ k <= left
  <2> HIDE DEF left
  <2> QED BY <1>3 DEF Chunk, SmallerOf
<1>5. Done(e, s) + k \in Nat /\ Done(e, s) + k <= e.len[s]
  <2> HIDE DEF k
  <2> QED BY <1>2, <1>4
<1> DEFINE item == [seq |-> s, phase |-> "prefill", n |-> k]
<1>6. Append(e.batch, item) # e.batch
  <2>1. item \in Item BY <1>1, <1>4 DEF Item
  <2> HIDE DEF item
  <2>2. Len(e.batch) \in Nat /\ Len(Append(e.batch, item)) = Len(e.batch) + 1
    BY <2>1, LenProperties, AppendProperties
  <2> QED BY <2>2
<1> SUFFICES d.batch = Append(e.batch, item)
  BY <1>6
<1> HIDE DEF k, item
<1>7. CASE e.table[s] # << >>
  <2>1. ~ e.incremental BY <1>7 DEF CanStart
  <2>2. d = Queued(e, s, k) BY <1>7, <2>1 DEF NextHead, PrefillTurn, NextChunk, k
  <2> HIDE DEF d
  <2> QED BY <1>2, <2>2, QueuedQueue DEF item
<1>8. CASE e.table[s] = << >>
  <2> DEFINE m == FirstTarget(e, s, k)
             c == CanAllocate(e.pool, Toks(e, s), m)
             w == [Installed(e, s, Allocated(e.pool, Toks(e, s), c, m))
                     EXCEPT !.cached[s] = c * BlockSize]
  <2>1. CanAllocate(e.pool, Toks(e, s), e.len[s]) # -1 BY <1>8 DEF CanStart
  <2>2. m \in Nat /\ m <= e.len[s] BY <1>2, <1>5 DEF FirstTarget
  <2>3. /\ Toks(e, s) \in Seq(Nat) /\ Len(Toks(e, s)) > 0 /\ PoolTyped(e.pool, Nat)
    BY <1>1, MemoryFacts, TokensFacts DEF EInv
  <2>4. d = FirstChunk(e, s, k, c) BY <1>8 DEF NextHead, PrefillTurn, k
  <2> HIDE DEF m
  <2>5. c # -1 BY <1>2, <2>1, <2>2, <2>3, AllocateLess
  <2>6. d = Queued(w, s, k) BY <2>4, <2>5 DEF FirstChunk, m
  <2>7. DOMAIN w = EngineFields /\ w.batch = e.batch BY <1>2, InstalledQueue
  <2> HIDE DEF w, d
  <2> QED BY <2>6, <2>7, QueuedQueue DEF item
<1> QED BY <1>7, <1>8
---------------------------------------------------------------------------
(* _schedule_prefill takes from the head of the waiting queue: it keeps to *)
(* the order of arrival, and only what it selects starts to run.           *)

InTurn(e) ==
  /\ \A s, t \in Elems(e.waiting) :
       ~ Started(e, s) /\ ~ Started(e, t) /\ Before(e.waiting, s, t) => s < t
  /\ \A s, t \in SeqIds : s < t /\ Started(e, t) => Started(e, s)

Draws(e, d) ==
  /\ HeadHolds(e) => HeadHolds(d)
  /\ InTurn(e) => InTurn(d)
  /\ Elems(d.running) \subseteq Elems(e.running) \union Selected(d)
  /\ Selected(e) \subseteq Selected(d)
  /\ d = e \/ Len(d.batch) > Len(e.batch)

LEMMA DrawsOn ==
  ASSUME NEW e, NEW m, NEW d, Draws(e, m), Draws(m, d),
         Len(e.batch) \in Nat, Len(m.batch) \in Nat, Len(d.batch) \in Nat
  PROVE  Draws(e, d)
<1>1. d = e \/ Len(d.batch) > Len(e.batch) BY DEF Draws
<1> QED BY <1>1 DEF Draws

(* The head of a queue comes before the others.                            *)
LEMMA HeadFirst ==
  ASSUME NEW q \in Seq(SeqIds), q # << >>, Distinct(q)
  PROVE  /\ \A s \in Elems(q) : s # Head(q) => Before(q, Head(q), s)
         /\ \A s, t : Before(Tail(q), s, t) => Before(q, s, t)
<1>1. /\ Len(q) \in Nat /\ Len(q) # 0 /\ Head(q) = q[1]
      /\ Len(Tail(q)) = Len(q) - 1
      /\ \A i \in 1..Len(Tail(q)) : Tail(q)[i] = q[i + 1]
  BY LenProperties, EmptySeq, HeadTailProperties
<1>2. ASSUME NEW s \in Elems(q), s # Head(q) PROVE Before(q, Head(q), s)
  <2>1. PICK j \in 1..Len(q) : q[j] = s BY DEF Elems
  <2>2. j # 1 BY <1>1, <1>2, <2>1
  <2>3. 1 \in 1..Len(q) /\ 1 < j BY <1>1, <2>2
  <2> QED BY <1>1, <2>1, <2>3 DEF Before
<1>3. ASSUME NEW s, NEW t, Before(Tail(q), s, t) PROVE Before(q, s, t)
  <2> DEFINE r == Tail(q)
  <2>1. PICK i \in 1..Len(r), j \in 1..Len(r) : i < j /\ r[i] = s /\ r[j] = t
    BY <1>3 DEF Before
  <2>2. q[i + 1] = s /\ q[j + 1] = t BY <1>1, <2>1
  <2>3. i + 1 \in 1..Len(q) /\ j + 1 \in 1..Len(q) /\ i + 1 < j + 1
    <3> HIDE DEF r
    <3>1. Len(r) = Len(q) - 1 BY <1>1 DEF r
    <3> QED BY <1>1, <2>1, <3>1
  <2> QED BY <2>2, <2>3 DEF Before
<1> QED BY <1>2, <1>3

(* A sequence without a first block waits, and the first of them is the    *)
(* one that arrived first.                                                 *)
LEMMA UnstartedWaits ==
  ASSUME NEW e, NEW n \in Nat, EInv(e, 1..n, {}), NEW s \in SeqIds, ~ Started(e, s),
         NEW t \in Elems(e.waiting), s < t
  PROVE  s \in Elems(e.waiting)
<1>1. Elems(e.waiting) \union Held(e, {}) = (1..n) \ e.finished
  BY DEF EInv, Queues
<1>2. s \notin e.finished /\ e.table[s] = << >> BY DEF Started
<1>3. s \in 1..n
  <2>1. t \in 1..n BY <1>1
  <2>2. s \in Nat /\ s > 0 /\ t \in Nat BY <2>1, CoreAssumption DEF SeqIds
  <2> QED BY <2>1, <2>2
<1>4. s \notin Held(e, {})
  <2>1. s \in Held(e, {}) => Len(e.table[s]) > 0 BY DEF EInv, Placed, Resident
  <2>2. Len(e.table[s]) = 0 BY <1>2, EmptyQueue
  <2> QED BY <2>1, <2>2
<1> QED BY <1>1, <1>2, <1>3, <1>4

LEMMA TurnDraws ==
  ASSUME NEW e, NEW n \in Nat, EInv(e, 1..n, {}), e.batch \in Seq(Item), e.waiting # << >>,
         NEW remaining \in Nat \ {0}, NEW count
  PROVE  Draws(e, NextHead(e, Head(e.waiting), remaining, count))
<1> DEFINE q == e.waiting
           s == Head(q)
           d == NextHead(e, s, remaining, count)
<1>1. /\ q \in Seq(SeqIds) /\ Distinct(q) /\ s \in SeqIds /\ s \in Elems(q)
      /\ Elems(q) \subseteq SeqIds
      /\ Tail(q) \in Seq(SeqIds) /\ Elems(Tail(q)) = Elems(q) \ {s}
  BY QueueFacts, HeadTail
<1>2. CASE d = e
  <2> HIDE DEF d
  <2>1. Draws(e, d) BY <1>2 DEF Draws
  <2> QED BY <2>1 DEF d
<1>3. CASE d # e
  <2>1. PICK k \in 1..remaining : TurnJoins(e, d, 1..n, s, k)
    <3>1. TurnOK(e, d, 1..n, s, remaining, count) BY <1>1, TurnFacts
    <3> QED BY <1>3, <3>1 DEF TurnOK
  <2>2. d.waiting = q \/ d.waiting = Tail(q) BY <1>3, TurnQueue
  <2> DEFINE item == [seq |-> s, phase |-> "prefill", n |-> k]
  <2> HIDE DEF d, s
  <2>3. /\ EInv(d, 1..n, {}) /\ SameBooks(e, d) /\ d.batch = Append(e.batch, item)
        /\ ItemOK(d, {}, item)
        /\ \A r \in SeqIds \ {s} : /\ Untouched(e, d, r)
                                   /\ r \in Elems(d.running) <=> r \in Elems(e.running)
    BY <2>1 DEF TurnJoins
  <2>4. item.seq = s /\ item.phase = "prefill" /\ item.n = k /\ k \in Nat /\ k > 0
    OBVIOUS
  <2> HIDE DEF item
  <2>5. d.table[s] # << >>
    <3>1. d.cached[s] + k <= Capacity(d, s) BY <2>3, <2>4 DEF ItemOK
    <3>2. d.cached[s] \in Nat BY <1>1, <2>3 DEF EInv, Memory
    <3>3. d.table[s] = << >> => Capacity(d, s) = 0
      <4>1. Len(<< >>) * BlockSize = 0 BY EmptyQueue, PoolAssumption
      <4> QED BY <4>1 DEF Capacity
    <3> QED BY <2>4, <3>1, <3>2, <3>3
  <2>6. /\ Started(d, s)
        /\ \A r \in SeqIds \ {s} : Started(d, r) <=> Started(e, r)
    BY <2>3, <2>5 DEF Started, Untouched, SameBooks
  <2>7. Elems(d.waiting) \subseteq Elems(q) /\ \A x, y : Before(d.waiting, x, y) => Before(q, x, y)
    BY <1>1, <2>2, HeadFirst
  <2>8. HeadHolds(e) => HeadHolds(d)
    <3> SUFFICES ASSUME HeadHolds(e), NEW r \in Elems(d.waiting), d.table[r] # << >>
                 PROVE  r = Head(d.waiting)
      BY DEF HeadHolds
    <3>1. r \in Elems(q) /\ r \in SeqIds BY <1>1, <2>7
    <3>2. r = s
      <4> SUFFICES ASSUME r # s PROVE FALSE
        OBVIOUS
      <4>1. e.table[r] # << >> BY <2>3, <3>1 DEF Untouched
      <4> QED BY <3>1, <4>1 DEF HeadHolds, s
    <3>3. d.waiting = q BY <1>1, <2>2, <3>2
    <3> QED BY <3>2, <3>3 DEF s
  <2>9. InTurn(e) => InTurn(d)
    <3> SUFFICES ASSUME InTurn(e) PROVE InTurn(d)
      OBVIOUS
    <3>1. ASSUME NEW x \in Elems(d.waiting), NEW y \in Elems(d.waiting),
                 ~ Started(d, x), ~ Started(d, y), Before(d.waiting, x, y)
          PROVE  x < y
      <4>1. x \in Elems(q) /\ y \in Elems(q) /\ x \in SeqIds /\ y \in SeqIds
            /\ Before(q, x, y) /\ x # s /\ y # s
        BY <1>1, <2>6, <2>7, <3>1
      <4>2. ~ Started(e, x) /\ ~ Started(e, y) BY <2>6, <3>1, <4>1
      <4> QED BY <4>1, <4>2 DEF InTurn
    <3>2. ASSUME NEW x \in SeqIds, NEW y \in SeqIds, x < y, Started(d, y), ~ Started(d, x)
          PROVE  FALSE
      <4>1. x # s /\ ~ Started(e, x) BY <2>6, <3>2
      <4>2. CASE y # s
        <5>1. Started(e, y) BY <2>6, <3>2, <4>2
        <5> QED BY <3>2, <4>1, <5>1 DEF InTurn
      <4>3. CASE y = s
        <5>1. x \in Elems(q) BY <1>1, <3>2, <4>1, <4>3, UnstartedWaits
        <5>2. ~ Started(e, s) BY <3>2, <4>1, <4>3 DEF InTurn
        <5>3. Before(q, s, x) BY <1>1, <4>1, <5>1, HeadFirst DEF s
        <5>4. s < x BY <1>1, <4>1, <5>1, <5>2, <5>3 DEF InTurn
        <5> QED BY <3>2, <4>3, <5>4, CoreAssumption DEF SeqIds
      <4> QED BY <4>2, <4>3
    <3> QED BY <3>1, <3>2 DEF InTurn
  <2>10. /\ Len(e.batch) \in Nat /\ Len(d.batch) = Len(e.batch) + 1
         /\ Selected(d) = Selected(e) \union {s}
    <3>1. item \in Item BY <2>3 DEF ItemOK
    <3>2. /\ Len(e.batch) \in Nat /\ d.batch \in Seq(Item)
          /\ Len(d.batch) = Len(e.batch) + 1 /\ d.batch[Len(e.batch) + 1] = item
          /\ \A i \in 1..Len(e.batch) : d.batch[i] = e.batch[i]
      BY <2>3, <3>1, LenProperties, AppendProperties
    <3>3. DOMAIN e.batch = 1..Len(e.batch) /\ DOMAIN d.batch = 1..Len(d.batch)
      BY <3>2, LenProperties
    <3>4. ASSUME NEW r \in Selected(e) PROVE r \in Selected(d)
      <4>1. PICK i \in 1..Len(e.batch) : e.batch[i].seq = r BY <3>3, <3>4 DEF Selected
      <4>2. i \in 1..Len(d.batch) /\ d.batch[i].seq = r BY <3>2, <4>1
      <4> QED BY <3>3, <4>2 DEF Selected
    <3>5. s \in Selected(d)
      <4>1. Len(e.batch) + 1 \in 1..Len(d.batch) BY <3>2
      <4> QED BY <2>4, <3>2, <3>3, <4>1 DEF Selected
    <3>6. ASSUME NEW r \in Selected(d) PROVE r \in Selected(e) \union {s}
      <4>1. PICK i \in 1..Len(d.batch) : d.batch[i].seq = r BY <3>3, <3>6 DEF Selected
      <4>2. i = Len(e.batch) + 1 \/ i \in 1..Len(e.batch) BY <3>2, <4>1
      <4> QED BY <2>4, <3>2, <3>3, <4>1, <4>2 DEF Selected
    <3> QED BY <3>2, <3>4, <3>5, <3>6
  <2>11. Elems(d.running) \subseteq Elems(e.running) \union Selected(d)
    <3>1. Elems(d.running) \subseteq SeqIds BY <2>3, QueueFacts
    <3> QED BY <2>3, <2>10, <3>1
  <2>12. Len(d.batch) > Len(e.batch) BY <2>10
  <2>13. Draws(e, d) BY <2>8, <2>9, <2>10, <2>11, <2>12 DEF Draws
  <2> QED BY <2>13 DEF d, s
<1> QED BY <1>2, <1>3

(* The whole loop: besides, it selects a head that can start.              *)
LEMMA PrefillDraws ==
  ASSUME NEW e, NEW n \in Nat, EInv(e, 1..n, {}), BatchOK(e, {}), NEW budget \in Nat,
         Selected(e) \cap Elems(e.waiting) = {}
  PROVE  LET d == SchedulePrefill(e, budget)
         IN  /\ Draws(e, d)
             /\ CanStart(e) /\ budget > 0 => Len(d.batch) > Len(e.batch)
<1>1. MaxNumSeqs \in Nat /\ MaxNumSeqs > 0 BY CoreAssumption
<1>2. PICK g : /\ g[0] = [st |-> e, count |-> 0, remaining |-> budget]
               /\ PrefillLoop(e, budget) = g[MaxNumSeqs]
               /\ \A i \in 1..MaxNumSeqs : g[i] = PrefillOn(g[i - 1])
  BY <1>1, PrefillTurns
<1>3. e.batch \in Seq(Item) /\ Len(e.batch) \in Nat BY LenProperties DEF BatchOK
<1>4. TokensOf(e.batch) \in Nat /\ PhaseCount(e.batch, "prefill") \in Nat
  BY <1>3, ConcatTokens, PhaseCountFacts
<1> DEFINE Fed(i) ==
             /\ Filling(e, g[i], 1..n, budget, i) /\ Draws(e, g[i].st)
             /\ CanStart(e) /\ budget > 0 /\ i > 0 =>
                  Len(g[i].st.batch) > Len(e.batch)
           T == {i \in Nat : i <= MaxNumSeqs => Fed(i)}
<1>5. 0 \in T
  <2>1. g[0].st = e /\ g[0].remaining = budget BY <1>2
  <2>2. SameBooks(e, e) BY DEF SameBooks
  <2>3. Prefills(e, e, 1..n, budget, 0) BY <1>4, <2>2 DEF Prefills
  <2>4. Filling(e, g[0], 1..n, budget, 0) BY <1>4, <2>1, <2>3 DEF Filling
  <2>5. Draws(e, e) BY DEF Draws
  <2>6. Fed(0) BY <2>1, <2>4, <2>5
  <2> HIDE DEF Fed
  <2> QED BY <2>6
<1>6. ASSUME NEW i \in T PROVE i + 1 \in T
  <2> HIDE DEF Fed
  <2> SUFFICES ASSUME i + 1 <= MaxNumSeqs PROVE Fed(i + 1)
    OBVIOUS
  <2>1. i \in Nat /\ i <= MaxNumSeqs /\ i + 1 \in 1..MaxNumSeqs /\ (i + 1) - 1 = i
    BY <1>1
  <2>2. Fed(i) BY <2>1
  <2> DEFINE l == g[i]
             a == l.st
             s == Head(a.waiting)
             d == NextHead(a, s, l.remaining, l.count)
             m == PrefillOn(l)
             b == m.st
  <2>3. g[i + 1] = m BY <1>2, <2>1
  <2>4. /\ Filling(e, l, 1..n, budget, i) /\ Draws(e, a)
        /\ CanStart(e) /\ budget > 0 /\ i > 0 => Len(a.batch) > Len(e.batch)
    BY <2>2 DEF Fed
  <2>5. Filling(e, m, 1..n, budget, i + 1) BY <1>3, <2>1, <2>4, PrefillOnFacts
  <2>6. i = 0 => a = e /\ l.remaining = budget /\ l.count = 0 BY <1>2
  <2> HIDE DEF l
  <2>7. /\ EInv(a, 1..n, {}) /\ BatchOK(a, {}) /\ l.remaining \in Nat
        /\ EInv(b, 1..n, {}) /\ BatchOK(b, {})
    BY <2>4, <2>5 DEF Filling, Prefills
  <2> HIDE DEF a
  <2>8. /\ a.batch \in Seq(Item) /\ Len(a.batch) \in Nat /\ Len(b.batch) \in Nat
    BY <2>7, LenProperties DEF BatchOK
  <2>9. CASE a.waiting = << >> \/ l.remaining = 0
    <3>1. m = l BY <2>9 DEF PrefillOn, a
    <3>2. b = a BY <3>1 DEF a
    <3> HIDE DEF m, b
    <3>3. CanStart(e) /\ budget > 0 => i > 0
      BY <2>1, <2>6, <2>9 DEF CanStart
    <3>4. i + 1 > 0 BY <2>1
    <3>5. Draws(e, m.st) /\ (CanStart(e) /\ budget > 0 => Len(m.st.batch) > Len(e.batch))
      BY <2>4, <3>2, <3>3 DEF b
    <3> QED BY <2>3, <2>5, <3>4, <3>5 DEF Fed
  <2>10. CASE a.waiting # << >> /\ l.remaining # 0
    <3>1. m = PrefillStep(l, d) BY <2>10 DEF PrefillOn, a
    <3>2. l.remaining \in Nat \ {0} BY <2>7, <2>10
    <3>3. Draws(a, d) BY <2>7, <2>8, <2>10, <3>2, TurnDraws
    <3>4. i = 0 /\ CanStart(e) /\ budget > 0 => d # a
      BY <2>6, <2>7, <2>8, <3>2, TurnStarts
    <3> HIDE DEF d
    <3>5. b = IF Len(d.batch) = Len(a.batch) THEN a ELSE d
      BY <3>1 DEF PrefillStep, Joined, a
    <3> HIDE DEF m, b
    <3>6. d # a => Len(d.batch) > Len(a.batch) BY <3>3 DEF Draws
    <3>7. d # a => b = d
      <4>1. d # a /\ Len(d.batch) = Len(a.batch) => FALSE BY <2>8, <3>6
      <4> QED BY <3>5, <4>1
    <3>8. Draws(a, b) /\ (i = 0 /\ CanStart(e) /\ budget > 0 => Len(b.batch) > Len(a.batch))
      <4>1. d = a => b = d BY <3>5
      <4> QED BY <3>3, <3>4, <3>6, <3>7, <4>1
    <3>9. Draws(e, b) BY <1>3, <2>4, <2>8, <3>8, DrawsOn
    <3>10. b = a \/ Len(b.batch) > Len(a.batch) BY <3>8 DEF Draws
    <3>11. CanStart(e) /\ budget > 0 => Len(b.batch) > Len(e.batch)
      <4>1. CASE i = 0 BY <2>6, <3>8, <4>1
      <4>2. CASE i # 0
        <5>1. i > 0 BY <2>1, <4>2
        <5> QED BY <1>3, <2>4, <2>8, <3>10, <5>1
      <4> QED BY <4>1, <4>2
    <3> QED BY <2>3, <2>5, <3>9, <3>11 DEF Fed, b
  <2> QED BY <2>9, <2>10
<1>7. T = Nat
  <2>1. T \in SUBSET Nat OBVIOUS
  <2> HIDE DEF T
  <2> QED BY <1>5, <1>6, <2>1, SetInduction
<1>8. Fed(MaxNumSeqs)
  <2> HIDE DEF Fed
  <2>1. MaxNumSeqs \in T BY <1>1, <1>7
  <2> QED BY <1>1, <2>1
<1> QED BY <1>1, <1>2, <1>8 DEF SchedulePrefill

(* A prefill attempt of an empty step: what it selects, when it surely     *)
(* selects something, and that otherwise it changes nothing.               *)
LEMMA PrefillOutcome ==
  ASSUME NEW e, NEW n \in Nat, Ready(e, 1..n), NEW budget \in Nat, budget > 0
  PROVE  LET d == SchedulePrefill(e, budget)
         IN  /\ Draws(e, d) /\ Elems(d.running) \subseteq Elems(e.running) \union Selected(d)
             /\ d.batch = << >> => d = e /\ ~ CanStart(e)
<1> DEFINE d == SchedulePrefill(e, budget)
<1>1. EInv(e, 1..n, {}) /\ e.batch = << >> BY DEF Ready
<1>2. BatchOK(e, {}) /\ Selected(e) = {} BY <1>1, EmptyBatch
<1>3. Draws(e, d) /\ (CanStart(e) => Len(d.batch) > Len(e.batch))
  BY <1>1, <1>2, PrefillDraws
<1> HIDE DEF d
<1>4. Len(<< >>) = 0 /\ ~ (0 > 0) BY EmptyQueue
<1> QED BY <1>1, <1>3, <1>4 DEF Draws, d
---------------------------------------------------------------------------
(* The order of the queues between the attempts of a step and between      *)
(* steps: whoever runs without a token to show for it is in the batch.     *)

Underway(e) == \A s \in Elems(e.running) : s \in Selected(e) \/ e.len[s] > e.plen[s]

(* With incremental allocation prefill_first puts what it preempts before  *)
(* a head that already holds blocks.                                       *)
Tidy(e) == (e.policy = "prefill_first" /\ e.incremental) \/ HeadHolds(e)

Orderly(e) == Tidy(e) /\ InTurn(e) /\ Underway(e)

(* Preemptions take the blocks only of sequences that have emitted.        *)
Emitting(e) == \A s \in Elems(e.running) : e.len[s] > e.plen[s]

LEMMA PressedInTurn ==
  ASSUME NEW e, NEW d, NEW A, NEW X, EInv(e, A, X), EInv(d, A, X),
         SameBooks(e, d), Pressed(e, d), Emitting(e)
  PROVE  /\ InTurn(e) => InTurn(d)
         /\ Emitting(d)
<1> DEFINE live == A \ e.finished
<1>1. /\ Elems(e.waiting) \union Held(e, X) = live
      /\ Elems(d.waiting) \union Held(d, X) = live
      /\ Elems(e.waiting) \cap Held(e, X) = {} /\ Elems(d.waiting) \cap Held(d, X) = {}
      /\ Elems(d.running) \cap X = {} /\ Elems(d.running) \subseteq SeqIds
      /\ Elems(e.running) \subseteq SeqIds
  BY QueueFacts DEF EInv, Queues, SameBooks
<1> HIDE DEF live
<1>2. Elems(d.running) \subseteq Elems(e.running)
  BY <1>1 DEF Held, Pressed
<1>3. \A s \in Held(e, X) : Started(e, s)
  <2>1. \A s \in Held(e, X) : Len(e.table[s]) > 0 BY DEF EInv, Placed, Resident
  <2>2. ~ (0 > 0) OBVIOUS
  <2> QED BY <2>1, <2>2, EmptyQueue DEF Started
<1>4. \A s \in Held(d, X) : Started(d, s)
  <2>1. \A s \in Held(d, X) : Len(d.table[s]) > 0 BY DEF EInv, Placed, Resident
  <2>2. ~ (0 > 0) OBVIOUS
  <2> QED BY <2>1, <2>2, EmptyQueue DEF Started
<1>5. \A s \in SeqIds : Started(d, s) <=> Started(e, s)
  <2> SUFFICES ASSUME NEW s \in SeqIds PROVE Started(d, s) <=> Started(e, s)
    OBVIOUS
  <2>1. CASE s \in Elems(e.waiting)
    <3>1. Untouched(e, d, s) BY <2>1 DEF Pressed
    <3> QED BY <3>1 DEF Started, Untouched, SameBooks
  <2>2. CASE s \in Held(e, X)
    <3>1. CASE s \in Held(d, X) BY <2>2, <3>1, <1>3, <1>4
    <3>2. CASE s \notin Held(d, X)
      <4>1. s \in Elems(e.running) BY <2>2, <3>2 DEF Held
      <4>2. d.len[s] > d.plen[s] BY <4>1 DEF Emitting, SameBooks
      <4>3. Started(d, s) BY <4>2 DEF Started
      <4> QED BY <2>2, <4>3, <1>3
    <3> QED BY <3>1, <3>2
  <2>3. CASE s \notin Elems(e.waiting) /\ s \notin Held(e, X)
    <3>1. s \notin Elems(d.waiting) /\ s \notin Held(d, X) BY <1>1, <2>3
    <3>2. e.table[s] = << >> /\ d.table[s] = << >>
      BY <2>3, <3>1 DEF EInv, Placed, Vacant
    <3> QED BY <3>2 DEF Started, SameBooks
  <2> QED BY <2>1, <2>2, <2>3
<1>6. ASSUME InTurn(e) PROVE InTurn(d)
  <2>1. ASSUME NEW s \in Elems(d.waiting), NEW t \in Elems(d.waiting),
               ~ Started(d, s), ~ Started(d, t), Before(d.waiting, s, t)
        PROVE  s < t
    <3>1. s \in SeqIds /\ t \in SeqIds BY <2>1, QueueFacts
    <3>2. ~ Started(e, s) /\ ~ Started(e, t) BY <1>5, <2>1, <3>1
    <3>3. s \in Elems(e.waiting) /\ t \in Elems(e.waiting) BY <1>1, <1>3, <2>1, <3>2
    <3>4. Before(e.waiting, s, t) BY <2>1, <3>3 DEF Pressed
    <3> QED BY <1>6, <3>2, <3>3, <3>4 DEF InTurn
  <2>2. \A s, t \in SeqIds : s < t /\ Started(d, t) => Started(d, s)
    BY <1>5, <1>6 DEF InTurn
  <2> QED BY <2>1, <2>2 DEF InTurn
<1>7. Emitting(d) BY <1>2 DEF Emitting, SameBooks
<1> QED BY <1>6, <1>7

LEMMA PressedTidy ==
  ASSUME NEW e, NEW d, SameBooks(e, d), Pressed(e, d), Tidy(e),
         e.policy # "prefill_first" \/ e.incremental \/ Blockless(e)
  PROVE  Tidy(d)
<1>1. CASE e.policy # "prefill_first" /\ HeadHolds(e)
  BY <1>1, PressedHeads DEF Tidy
<1>2. CASE Blockless(e) BY <1>2, PressedBlockless DEF Tidy
<1>3. CASE e.policy = "prefill_first" /\ e.incremental
  BY <1>3 DEF Tidy, SameBooks
<1> QED BY <1>1, <1>2, <1>3 DEF Tidy

LEMMA PressedOrderly ==
  ASSUME NEW e, NEW d, NEW A, EInv(e, A, {}), EInv(d, A, {}), e.batch = << >>,
         SameBooks(e, d), Pressed(e, d), Orderly(e),
         e.policy # "prefill_first" \/ e.incremental \/ Blockless(e)
  PROVE  Orderly(d)
<1>1. Emitting(e) BY EmptyBatch DEF Orderly, Underway, Emitting
<1>2. InTurn(d) /\ Emitting(d) BY <1>1, PressedInTurn DEF Orderly
<1>3. Tidy(d) BY PressedTidy DEF Orderly
<1> QED BY <1>2, <1>3 DEF Orderly, Underway, Emitting

LEMMA OrderlyDecode ==
  ASSUME NEW e, NEW A, Ready(e, A), Orderly(e), NEW budget \in Nat,
         NEW rotate \in BOOLEAN,
         e.policy # "prefill_first" \/ e.incremental \/ Blockless(e)
  PROVE  Orderly(ScheduleDecode(e, budget, rotate))
<1> DEFINE d == ScheduleDecode(e, budget, rotate)
<1>1. Pressed(e, d) BY DecodeOutcome
<1>2. EInv(d, A, {}) /\ SameBooks(e, d) BY DecodeAdvances DEF Advances, Good
<1> HIDE DEF d
<1>3. Orderly(d) BY <1>1, <1>2, PressedOrderly DEF Ready
<1> QED BY <1>3 DEF d

LEMMA OrderlyFree ==
  ASSUME NEW e, NEW A, Ready(e, A), Orderly(e), e.policy # "prefill_first"
  PROVE  Orderly(FreeKvForWaitingHead(e))
<1> DEFINE h == Head(e.waiting)
           d == FreeKvForWaitingHead(e)
<1>1. d = e \/ d = FreeKvFor(e, h) BY DEF FreeKvForWaitingHead
<1>2. Frees(e, FreeKvFor(e, h), A) BY FreedFacts DEF Ready
<1>3. Orderly(FreeKvFor(e, h)) BY <1>2, PressedOrderly DEF Frees, Ready
<1> QED BY <1>1, <1>3

LEMMA OrderlyRanked ==
  ASSUME NEW e, NEW A, Ready(e, A), Orderly(e)
  PROVE  Orderly(Ranked(e)) /\ Pressed(e, Ranked(e))
<1> DEFINE d == Ranked(e)
<1>1. Reordered(e, d, A) BY RankedFacts DEF Ready
<1>2. d.table = e.table /\ d.cached = e.cached /\ d.batch = e.batch
  BY DEF Ranked, Ready, EInv, Setup, EngineFields
<1> HIDE DEF d
<1>3. /\ SameBooks(e, d) /\ d.waiting = e.waiting
      /\ Elems(d.running) = Elems(e.running)
  BY <1>1 DEF Reordered
<1>4. HeadHolds(e) => HeadHolds(d) BY <1>2, <1>3 DEF HeadHolds
<1>5. \A s : Started(d, s) <=> Started(e, s) BY <1>2, <1>3 DEF Started, SameBooks
<1>6. InTurn(d) BY <1>3, <1>5 DEF Orderly, InTurn
<1>7. Underway(d) BY <1>2, <1>3 DEF Orderly, Underway, Selected, SameBooks
<1>8. Tidy(d) BY <1>3, <1>4 DEF Orderly, Tidy, SameBooks
<1>9. Pressed(e, d) BY <1>2, <1>3, SameQueuePressed DEF Untouched
<1> QED BY <1>6, <1>7, <1>8, <1>9 DEF Orderly, d

LEMMA DrawnOrderly ==
  ASSUME NEW e, NEW d, SameBooks(e, d), Draws(e, d), Orderly(e)
  PROVE  Orderly(d)
<1>1. Tidy(d) BY DEF Orderly, Tidy, Draws, SameBooks
<1>2. InTurn(d) BY DEF Orderly, Draws
<1>3. Underway(d) BY DEF Orderly, Underway, Draws, SameBooks
<1> QED BY <1>1, <1>2, <1>3 DEF Orderly

LEMMA OrderlyPrefill ==
  ASSUME NEW e, NEW n \in Nat, Ready(e, 1..n), Orderly(e), NEW budget \in Nat,
         budget > 0, budget <= MaxBatched
  PROVE  Orderly(SchedulePrefill(e, budget))
<1>1. Draws(e, SchedulePrefill(e, budget)) BY PrefillOutcome
<1>2. SameBooks(e, SchedulePrefill(e, budget)) BY PrefillAdvances DEF Advances
<1> QED BY <1>1, <1>2, DrawnOrderly
---------------------------------------------------------------------------
(* The attempts of a step, one after the other: the order is kept, and     *)
(* without incremental allocation one that comes away with nothing leaves  *)
(* an engine whose head can start.                                         *)

Busy(e) == e.waiting # << >> \/ e.running # << >>

LEMMA StillBusy ==
  ASSUME NEW e, NEW d, NEW A, EInv(e, A, {}), EInv(d, A, {}), SameBooks(e, d), Busy(e)
  PROVE  Busy(d)
<1>1. /\ Elems(e.waiting) \union Elems(e.running) = A \ e.finished
      /\ Elems(d.waiting) \union Elems(d.running) = A \ e.finished
  BY DEF EInv, Queues, Held, SameBooks
<1>2. e.waiting \in Seq(SeqIds) /\ e.running \in Seq(SeqIds) BY QueueFacts
<1>3. Elems(e.waiting) # {} \/ Elems(e.running) # {} BY <1>2, NobodyIn DEF Busy
<1>4. Elems(d.waiting) # {} \/ Elems(d.running) # {} BY <1>1, <1>3
<1> QED BY <1>4, EmptyQueue DEF Busy

Kept(e, A) == Advances(st, e, A) /\ Orderly(e)

LEMMA KeptFacts ==
  ASSUME NEW e, NEW A, Kept(e, A), Ready(st, A)
  PROVE  /\ EInv(e, A, {}) /\ SameBooks(st, e) /\ EInv(st, A, {})
         /\ e.policy = st.policy /\ e.incremental = st.incremental
         /\ e.batch = << >> => Ready(e, A)
         /\ Fits(st) => Fits(e)
         /\ Busy(st) => Busy(e)
         /\ \A d : Advances(e, d, A) /\ Orderly(d) => Kept(d, A)
<1>1. EInv(e, A, {}) /\ SameBooks(st, e) /\ EInv(st, A, {})
  BY DEF Kept, Advances, Good, Ready
<1>2. Fits(st) => Fits(e) BY <1>1, FitsOn
<1>3. Busy(st) => Busy(e) BY <1>1, StillBusy
<1>4. e.batch = << >> => Ready(e, A) BY <1>1 DEF Ready
<1>5. \A d : Advances(e, d, A) => Advances(st, d, A) BY AdvancesOn DEF Kept
<1> QED BY <1>1, <1>2, <1>3, <1>4, <1>5 DEF Kept, SameBooks

LEMMA KeptIdle ==
  ASSUME NEW e, NEW A, Kept(e, A), Ready(st, A), Fits(st), Busy(st),
         ~ st.incremental, e.running = << >>
  PROVE  CanStart(e)
<1>1. /\ EInv(e, A, {}) /\ Fits(e) /\ Busy(e) /\ ~ e.incremental
  BY KeptFacts
<1>2. HeadHolds(e) BY <1>1 DEF Kept, Orderly, Tidy
<1>3. Startable(e) BY <1>1, <1>2 DEF Startable, Busy
<1> QED BY <1>1, <1>3, IdleStarts

LEMMA KeptDecode ==
  ASSUME NEW e, NEW A, Kept(e, A), Ready(st, A), e.batch = << >>, Fits(st), Busy(st),
         NEW budget \in Nat, NEW rotate \in BOOLEAN,
         st.policy # "prefill_first" \/ st.incremental \/ Blockless(e)
  PROVE  LET d == ScheduleDecode(e, budget, rotate)
         IN  /\ Kept(d, A) /\ Len(d.batch) \in Nat /\ Len(d.batch) <= budget
             /\ e.waiting # << >> => d.waiting # << >>
             /\ ~ st.incremental /\ budget > 0 /\ d.batch = << >> =>
                  d.running = << >> /\ CanStart(d)
<1> DEFINE d == ScheduleDecode(e, budget, rotate)
<1>1. /\ Ready(e, A) /\ EInv(e, A, {}) /\ Orderly(e) /\ e.policy = st.policy
      /\ e.incremental = st.incremental
  BY KeptFacts DEF Kept
<1>2. Orderly(d) BY <1>1, OrderlyDecode
<1>3. Advances(e, d, A) BY <1>1, DecodeAdvances
<1>4. /\ Pressed(e, d) /\ Len(d.batch) \in Nat /\ Len(d.batch) <= budget
      /\ budget > 0 /\ d.batch = << >> => d.running = << >>
  BY <1>1, DecodeOutcome
<1> HIDE DEF d
<1>5. Kept(d, A) BY <1>2, <1>3, KeptFacts
<1>6. e.waiting # << >> => d.waiting # << >>
  <2>1. e.waiting \in Seq(SeqIds) BY <1>1, QueueFacts
  <2>2. Elems(e.waiting) \subseteq Elems(d.waiting) BY <1>4 DEF Pressed
  <2> QED BY <2>1, <2>2, NobodyIn, EmptyQueue
<1>7. ~ st.incremental /\ d.running = << >> => CanStart(d) BY <1>5, KeptIdle
<1> QED BY <1>4, <1>5, <1>6, <1>7 DEF d

LEMMA KeptRanked ==
  ASSUME NEW e, NEW A, Kept(e, A), Ready(st, A), e.batch = << >>
  PROVE  Kept(Ranked(e), A) /\ Ranked(e).batch = << >>
         /\ (e.waiting # << >> => Ranked(e).waiting # << >>)
<1>1. Ready(e, A) /\ Orderly(e) BY KeptFacts DEF Kept
<1>2. Advances(e, Ranked(e), A) /\ Ready(Ranked(e), A) BY <1>1, RankedAdvances
<1>3. Orderly(Ranked(e)) BY <1>1, OrderlyRanked
<1>4. Kept(Ranked(e), A) BY <1>2, <1>3, KeptFacts
<1>5. Ranked(e).waiting = e.waiting
  BY <1>1 DEF Ranked, Ready, EInv, Setup, EngineFields
<1> QED BY <1>2, <1>4, <1>5 DEF Ready

LEMMA KeptFree ==
  ASSUME NEW e, NEW A, Kept(e, A), Ready(st, A), e.batch = << >>, Fits(st),
         st.policy # "prefill_first", e.waiting # << >>
  PROVE  LET d == FreeKvForWaitingHead(e)
         IN  /\ Kept(d, A) /\ d.batch = << >>
             /\ e.table[Head(e.waiting)] = << >> \/ ~ st.incremental => CanStart(d)
<1> DEFINE d == FreeKvForWaitingHead(e)
<1>1. /\ Ready(e, A) /\ EInv(e, A, {}) /\ Orderly(e) /\ e.policy = st.policy
      /\ e.incremental = st.incremental /\ Fits(e)
  BY KeptFacts DEF Kept
<1>2. Advances(e, d, A) /\ Ready(d, A) BY <1>1, FreeAdvances
<1>3. Orderly(d) BY <1>1, OrderlyFree
<1>4. Kept(d, A) BY <1>2, <1>3, KeptFacts
<1>5. HeadHolds(e) BY <1>1 DEF Orderly, Tidy
<1>6. e.table[Head(e.waiting)] = << >> \/ ~ st.incremental => CanStart(d)
  BY <1>1, <1>5, FreedStarts DEF Startable
<1> QED BY <1>2, <1>4, <1>6 DEF Ready

LEMMA NoDecode ==
  ASSUME NEW e, NEW A, Good(e, A), PhaseCount(e.batch, "decode") = 0, e.batch # << >>
  PROVE  IsPrefill(e) /\ PrefillIds(e) # {} /\ HasPrefill(e)
<1> DEFINE b == e.batch
<1>1. b \in Seq(Item) BY DEF Good, BatchOK
<1>2. DOMAIN b = 1..Len(b) /\ Len(b) \in Nat /\ \A k \in 1..Len(b) : b[k] \in Item
  BY <1>1, LenProperties
<1>3. \A k \in 1..Len(b) : b[k].phase # "decode" BY <1>1, PhaseCountFacts
<1>4. \A x \in Item : x.phase = "prefill" \/ x.phase = "decode" BY DEF Item
<1> HIDE DEF b
<1>5. \A k \in DOMAIN b : b[k].phase = "prefill" BY <1>2, <1>3, <1>4
<1>6. 1 \in DOMAIN b
  <2>1. Len(b) # 0 BY <1>1, EmptySeq DEF b
  <2> QED BY <1>2, <2>1
<1>7. IsPrefill(e) BY <1>5 DEF IsPrefill, b
<1>8. b[1].seq \in PrefillIds(e) BY <1>5, <1>6 DEF PrefillIds, b
<1>9. HasPrefill(e) BY <1>5, <1>6 DEF HasPrefill, b
<1> QED BY <1>7, <1>8, <1>9

LEMMA KeptPrefill ==
  ASSUME NEW e, NEW n \in Nat, Kept(e, 1..n), Ready(st, 1..n), e.batch = << >>,
         NEW budget \in Nat, budget > 0, budget <= MaxBatched
  PROVE  LET d == SchedulePrefill(e, budget)
         IN  /\ Kept(d, 1..n)
             /\ d.batch = << >> => d = e /\ ~ CanStart(e)
             /\ d.batch # << >> => IsPrefill(d) /\ PrefillIds(d) # {} /\ HasPrefill(d)
<1> DEFINE d == SchedulePrefill(e, budget)
<1>1. Ready(e, 1..n) /\ Orderly(e) BY KeptFacts DEF Kept
<1>2. Advances(e, d, 1..n) /\ PhaseCount(d.batch, "decode") = 0
  BY <1>1, PrefillAdvances
<1>3. Orderly(d) BY <1>1, OrderlyPrefill
<1>4. d.batch = << >> => d = e /\ ~ CanStart(e) BY <1>1, PrefillOutcome
<1> HIDE DEF d
<1>5. Kept(d, 1..n) BY <1>2, <1>3, KeptFacts
<1>6. d.batch # << >> => IsPrefill(d) /\ PrefillIds(d) # {} /\ HasPrefill(d)
  BY <1>2, NoDecode DEF Advances
<1> QED BY <1>4, <1>5, <1>6 DEF d
---------------------------------------------------------------------------
(* Whole steps: the engine they leave is in order, and without incremental *)
(* allocation its batch is not empty.                                      *)

Works(r) == Orderly(r.st) /\ (~ st.incremental => r.st.batch # << >>)

LEMMA OutcomeParts ==
  ASSUME NEW e, NEW tokens, NEW steps
  PROVE  LET r == Outcome(e, tokens, steps)
         IN  r.st = e /\ r.tokens = tokens /\ r.steps = steps
             /\ r.drain = fb.drain /\ r.watch = fb.watch
BY DEF Outcome

LEMMA PrefilledParts ==
  ASSUME NEW e
  PROVE  /\ Prefilled(e).st = e /\ Prefilled(e).tokens = 0 /\ Prefilled(e).steps = 0
         /\ Prefilled(e).drain = fb.drain
BY OutcomeParts DEF Prefilled

LEMMA DecodingParts ==
  ASSUME NEW e, NEW counted
  PROVE  LET r == Decoding(e, counted)
         IN  /\ r.st = e /\ r.drain = fb.drain
             /\ counted => r.tokens = fb.tokens + Len(e.batch) /\ r.steps = fb.steps + 1
             /\ ~ counted => r.tokens = fb.tokens /\ r.steps = fb.steps
BY OutcomeParts DEF Decoding

(* decode_first_budgeted keeps to its budget and its guard even while      *)
(* nobody waits: only then are steps not counted, and the counters reset   *)
(* when somebody comes to wait.                                            *)
Rationed(tokens, steps) ==
  tokens <= DecodeBudget /\ (StepGuard > 0 => steps <= StepGuard)

LEMMA NotStartedBlockless ==
  ASSUME NEW e, Tidy(e), ~ CanStart(e), ~ e.incremental
  PROVE  Blockless(e)
<1>1. HeadHolds(e) BY DEF Tidy
<1>2. CASE e.waiting = << >> BY <1>2, EmptyQueue DEF Blockless
<1>3. CASE e.waiting # << >>
  <2>1. e.table[Head(e.waiting)] = << >> BY <1>3 DEF CanStart
  <2> QED BY <1>1, <2>1 DEF HeadHolds, Blockless
<1> QED BY <1>2, <1>3

(* The decode part of decode_first_budgeted comes first.                   *)
LEMMA FirstDecodeKept ==
  ASSUME FeedbackTyped, NEW A, Ready(st, A), Orderly(st), Fits(st), Busy(st), Static
  PROVE  LET d == FirstDecode
         IN  /\ Kept(d, A)
             /\ ~ Rotate => d = st
             /\ Rotate /\ ~ st.incremental /\ d.batch = << >> => CanStart(d)
             /\ Rotate /\ st.waiting # << >> /\ d.batch # << >> =>
                  /\ fb.tokens + Len(d.batch) <= DecodeBudget
                  /\ StepGuard > 0 => fb.steps + 1 <= StepGuard
<1> DEFINE d == FirstDecode
           beside == ScheduleDecode(st, SmallerOf(MaxNumSeqs, TokensLeft), TRUE)
           freed == FreeKvForWaitingHead(st)
<1>1. /\ fb.tokens \in Nat /\ fb.steps \in Nat /\ DecodeBudget \in Nat
      /\ DecodeBudget > 0 /\ StepGuard \in Nat /\ MaxNumSeqs \in Nat /\ MaxNumSeqs > 0
      /\ TRUE \in BOOLEAN
  BY StateAssumption, CoreAssumption, PressureAssumption DEF FeedbackTyped
<1>2. Kept(st, A) /\ st.batch = << >> BY ReadyGood DEF Kept, Ready
<1>3. CASE ~ Rotate
  <2>1. d = st BY <1>3 DEF FirstDecode
  <2> QED BY <1>2, <1>3, <2>1
<1>4. CASE Rotate
  <2>0. st.policy # "prefill_first" BY <1>4 DEF Rotate, Policy
  <2>1. CASE st.running = << >>
    <3>1. d = st BY <2>1 DEF FirstDecode
    <3>2. ~ st.incremental => CanStart(st) BY <1>2, <2>1, KeptIdle
    <3> QED BY <1>2, <1>4, <3>1, <3>2
  <2>2. CASE st.running # << >> /\ st.waiting = << >>
    <3>1. d = ScheduleDecode(st, DecodeBudget, TRUE)
      BY <1>4, <2>2 DEF FirstDecode
    <3> HIDE DEF d
    <3>2. Kept(d, A) /\ (~ st.incremental /\ d.batch = << >> => CanStart(d))
      BY <1>1, <1>2, <2>0, <3>1, KeptDecode
    <3> QED BY <1>4, <2>2, <3>2 DEF d
  <2>3. CASE st.running # << >> /\ st.waiting # << >> /\ TokensLeft > 0 /\ StepLeft
    <3>1. d = beside BY <1>4, <2>3 DEF FirstDecode
    <3> DEFINE budget == SmallerOf(MaxNumSeqs, TokensLeft)
    <3>2. budget \in Nat /\ budget > 0 /\ budget <= DecodeBudget - fb.tokens
      BY <1>1, <2>3 DEF TokensLeft, SmallerOf
    <3> HIDE DEF d, budget
    <3>3. d = ScheduleDecode(st, budget, TRUE) BY <3>1 DEF budget
    <3>4. /\ Kept(d, A) /\ (~ st.incremental /\ d.batch = << >> => CanStart(d))
          /\ Len(d.batch) \in Nat /\ Len(d.batch) <= budget
      BY <1>1, <1>2, <2>0, <3>2, <3>3, KeptDecode
    <3>5. fb.tokens + Len(d.batch) <= DecodeBudget BY <1>1, <3>2, <3>4
    <3>6. StepGuard > 0 => fb.steps + 1 <= StepGuard BY <1>1, <2>3 DEF StepLeft
    <3> QED BY <1>4, <3>4, <3>5, <3>6 DEF d
  <2>4. CASE st.running # << >> /\ st.waiting # << >> /\ ~ (TokensLeft > 0 /\ StepLeft)
    <3>1. d = freed BY <1>4, <2>4 DEF FirstDecode
    <3> HIDE DEF d
    <3>2. Kept(d, A) /\ d.batch = << >> /\ (~ st.incremental => CanStart(d))
      BY <1>2, <2>0, <2>4, <3>1, KeptFree
    <3> QED BY <1>4, <3>2 DEF d
  <2> QED BY <2>1, <2>2, <2>3, <2>4
<1> QED BY <1>3, <1>4

LEMMA ScheduleImplWorks ==
  ASSUME FeedbackTyped, NEW n \in Nat, Ready(st, 1..n), Orderly(st), Fits(st), Busy(st), Static
  PROVE  /\ Works(ScheduleImpl)
         /\ Rotate /\ ~ st.incremental /\ Rationed(fb.tokens, fb.steps) =>
              Rationed(ScheduleImpl.tokens, ScheduleImpl.steps)
<1> DEFINE r == ScheduleImpl
           a == FirstDecode
           b == SchedulePrefill(a, MaxBatched)
           c == ScheduleDecode(b, FallbackBudget(b), Rotate)
           d == SchedulePrefill(c, MaxBatched)
           Does(x) == /\ Works(x)
                      /\ Rotate /\ ~ st.incremental /\ Rationed(fb.tokens, fb.steps) =>
                           Rationed(x.tokens, x.steps)
<1>1. /\ MaxBatched \in Nat /\ MaxBatched > 0 /\ MaxBatched <= MaxBatched
      /\ DecodeBudget \in Nat /\ StepGuard \in Nat /\ MaxNumSeqs \in Nat /\ MaxNumSeqs > 0
      /\ fb.tokens \in Nat /\ fb.steps \in Nat
  BY StateAssumption, CoreAssumption DEF FeedbackTyped
<1>2. /\ Kept(a, 1..n) /\ (~ Rotate => a = st)
      /\ Rotate /\ ~ st.incremental /\ a.batch = << >> => CanStart(a)
      /\ Rotate /\ st.waiting # << >> /\ a.batch # << >> =>
           /\ fb.tokens + Len(a.batch) <= DecodeBudget
           /\ StepGuard > 0 => fb.steps + 1 <= StepGuard
  BY FirstDecodeKept
<1>3. st.batch = << >> BY DEF Ready
<1>4. Rationed(0, 0) BY <1>1 DEF Rationed
<1>5. ASSUME NEW e, Kept(e, 1..n), e.batch # << >> PROVE Does(Prefilled(e))
  BY <1>4, <1>5, PrefilledParts DEF Works, Kept
<1> HIDE DEF a, Does
<1>6. CASE a.batch # << >>
  <2>1. r = Decoding(a, st.waiting # << >>)
    BY <1>6 DEF ScheduleImpl, AfterFirstDecode, a
  <2> DEFINE x == Decoding(a, st.waiting # << >>)
  <2>2. /\ x.st = a
        /\ st.waiting # << >> =>
             x.tokens = fb.tokens + Len(a.batch) /\ x.steps = fb.steps + 1
        /\ st.waiting = << >> => x.tokens = fb.tokens /\ x.steps = fb.steps
    BY DEF Decoding, Outcome
  <2> HIDE DEF x
  <2>3. Works(x) BY <1>2, <1>6, <2>2 DEF Works, Kept
  <2>4. Rotate /\ Rationed(fb.tokens, fb.steps) => Rationed(x.tokens, x.steps)
    BY <1>2, <1>6, <2>2 DEF Rationed
  <2>5. Does(x) BY <2>3, <2>4 DEF Does
  <2> QED BY <2>1, <2>5 DEF Does, x
<1>7. CASE a.batch = << >> /\ b.batch # << >>
  <2>1. r = Prefilled(b)
    BY <1>7 DEF ScheduleImpl, AfterFirstDecode, AfterFirstPrefill, a
  <2>2. Kept(b, 1..n) BY <1>1, <1>2, <1>7, KeptPrefill
  <2>3. Does(Prefilled(b)) BY <1>5, <1>7, <2>2
  <2> QED BY <2>1, <2>3 DEF Does
<1>8. CASE a.batch = << >> /\ b.batch = << >>
  <2>1. b = a /\ ~ CanStart(a) BY <1>1, <1>2, <1>8, KeptPrefill
  <2>2. ~ st.incremental => ~ Rotate BY <1>2, <1>8, <2>1
  <2>3. FallbackBudget(b) \in Nat /\ (~ Rotate => FallbackBudget(b) > 0)
    BY <1>1 DEF FallbackBudget, TokensLeft, LargerOf
  <2>4. st.policy # "prefill_first" \/ st.incremental \/ Blockless(b)
    <3>1. ASSUME ~ Rotate, ~ st.incremental PROVE Blockless(b)
      <4>1. b = st /\ ~ CanStart(st) BY <1>2, <2>1, <3>1
      <4>2. Tidy(st) BY DEF Orderly
      <4> QED BY <3>1, <4>1, <4>2, NotStartedBlockless
    <3>2. Rotate => st.policy # "prefill_first" BY DEF Rotate, Policy
    <3> QED BY <3>1, <3>2
  <2>5. Rotate \in BOOLEAN BY DEF Rotate
  <2> DEFINE budget == FallbackBudget(b)
  <2> HIDE DEF budget
  <2>6. Kept(c, 1..n) /\ (~ st.incremental /\ c.batch = << >> => CanStart(c))
    <3>1. Kept(b, 1..n) /\ b.batch = << >> BY <1>2, <1>8, <2>1
    <3>2. budget \in Nat /\ (~ Rotate => budget > 0) BY <2>3 DEF budget
    <3> HIDE DEF b
    <3>3. c = ScheduleDecode(b, budget, Rotate) BY DEF budget
    <3> HIDE DEF c
    <3> QED BY <2>2, <2>4, <2>5, <3>1, <3>2, <3>3, KeptDecode
  <2>7. r = AfterFallback(c)
    BY <1>8 DEF ScheduleImpl, AfterFirstDecode, AfterFirstPrefill, a
  <2> HIDE DEF c
  <2>8. CASE c.batch # << >>
    <3>1. r = Decoding(c, Rotate /\ c.waiting # << >>)
      BY <2>7, <2>8 DEF AfterFallback, Counted
    <3> QED BY <2>2, <2>6, <2>8, <3>1, DecodingParts DEF Works, Kept
  <2>9. CASE c.batch = << >>
    <3>1. Kept(d, 1..n) /\ (d.batch = << >> => ~ CanStart(c))
      BY <1>1, <2>6, <2>9, KeptPrefill
    <3>2. r = AfterLastPrefill(d) BY <2>7, <2>9 DEF AfterFallback
    <3> HIDE DEF d
    <3>3. CASE d.batch # << >>
      <4>1. Does(Prefilled(d)) BY <1>5, <3>1, <3>3
      <4> QED BY <3>2, <3>3, <4>1 DEF AfterLastPrefill, Does
    <3>4. CASE d.batch = << >>
      <4>1. st.incremental BY <2>6, <2>9, <3>1, <3>4
      <4> QED BY <3>1, <3>2, <3>4, <4>1, OutcomeParts
               DEF AfterLastPrefill, Works, Kept
    <3> QED BY <3>3, <3>4
  <2> QED BY <2>8, <2>9
<1> QED BY <1>6, <1>7, <1>8
---------------------------------------------------------------------------
(* The policies that react to KV pressure.                                 *)

LEMMA BudgetsPositive ==
  ASSUME FeedbackTyped
  PROVE  /\ Budget \in Nat /\ Budget > 0 /\ Left \in Nat
         /\ MaxBatched \in Nat /\ MaxBatched > 0 /\ MaxBatched <= MaxBatched
         /\ ChunkBudget \in Nat /\ ChunkBudget > 0 /\ ChunkBudget <= MaxBatched
<1>1. PressureBudget > 0 /\ DecodeBudget > 0
      /\ PressureBudget \in Nat /\ DecodeBudget \in Nat
  BY StateAssumption, PressureAssumption
<1>2. Budget > 0 BY <1>1 DEF Budget
<1> QED BY <1>2, BudgetFacts, CoreAssumption, PressureAssumption

LEMMA KeptAdaptive ==
  ASSUME FeedbackTyped, NEW e, NEW n \in Nat, Kept(e, 1..n), Ready(st, 1..n), e.batch = << >>
  PROVE  LET d == AdaptivePrefill(e)
         IN  /\ Kept(d, 1..n)
             /\ d.batch = << >> => ~ CanStart(e)
             /\ d.batch # << >> => IsPrefill(d)
<1>1. AdaptivePrefill(e) \in {SchedulePrefill(e, ChunkBudget), SchedulePrefill(e, MaxBatched)}
  BY DEF AdaptivePrefill
<1> QED BY <1>1, BudgetsPositive, KeptPrefill

LEMMA AfterPrefillWorks ==
  ASSUME FeedbackTyped, NEW e, NEW A, Kept(e, A), Ready(st, A), Fits(st), Busy(st),
         st.policy # "prefill_first", ~ st.incremental => e.batch # << >>
  PROVE  LET r == AfterPrefill(e)
         IN  Works(r) /\ r.drain = fb.drain /\ (~ st.incremental => r.st = e)
<1> DEFINE r == AfterPrefill(e)
<1>1. CASE e.batch # << >>
  <2>1. r = Prefilled(e) BY <1>1 DEF AfterPrefill
  <2> QED BY <1>1, <2>1, PrefilledParts DEF Works, Kept
<1>2. CASE e.batch = << >>
  <2> DEFINE budget == IF e.waiting # << >> THEN Left ELSE Budget
             d == ScheduleDecode(e, budget, TRUE)
  <2>1. budget \in Nat /\ TRUE \in BOOLEAN BY BudgetsPositive
  <2>2. r = Decoding(d, d.waiting # << >>)
    BY <1>2 DEF AfterPrefill, LastDecode
  <2> HIDE DEF budget
  <2>3. Kept(d, A) BY <1>2, <2>1, KeptDecode
  <2> HIDE DEF d, r
  <2>4. r.st = d /\ r.drain = fb.drain BY <2>2 DEF Decoding, Outcome
  <2> QED BY <1>2, <2>3, <2>4 DEF Works, Kept, r
<1> QED BY <1>1, <1>2

LEMMA PrefillOrDecodeWorks ==
  ASSUME FeedbackTyped, NEW e, NEW n \in Nat, Kept(e, 1..n), Ready(st, 1..n), Fits(st), Busy(st),
         st.policy # "prefill_first", e.batch = << >>, ~ st.incremental => CanStart(e)
  PROVE  LET r == PrefillOrDecode(e)
         IN  Works(r) /\ r.drain = fb.drain
<1>1. /\ Kept(AdaptivePrefill(e), 1..n)
      /\ ~ st.incremental => AdaptivePrefill(e).batch # << >>
  BY KeptAdaptive
<1> QED BY <1>1, AfterPrefillWorks DEF PrefillOrDecode

LEMMA DecodeWhileWaitingKept ==
  ASSUME FeedbackTyped, NEW e, NEW A, Kept(e, A), Ready(st, A), Fits(st), Busy(st),
         st.policy # "prefill_first", e.batch = << >>, e.waiting # << >>
  PROVE  Kept(DecodeWhileWaiting(e), A) /\ DecodeWhileWaiting(e).waiting # << >>
<1>1. /\ SmallerOf(1, Left) \in Nat /\ SmallerOf(MaxNumSeqs, Left) \in Nat
      /\ TRUE \in BOOLEAN
  BY BudgetFacts
<1>2. Kept(Ranked(e), A) /\ Ranked(e).batch = << >> /\ Ranked(e).waiting # << >>
  BY KeptRanked
<1>3. /\ Kept(ScheduleDecode(Ranked(e), SmallerOf(1, Left), TRUE), A)
      /\ ScheduleDecode(Ranked(e), SmallerOf(1, Left), TRUE).waiting # << >>
  BY <1>1, <1>2, KeptDecode
<1>4. /\ Kept(ScheduleDecode(e, SmallerOf(MaxNumSeqs, Left), TRUE), A)
      /\ ScheduleDecode(e, SmallerOf(MaxNumSeqs, Left), TRUE).waiting # << >>
  BY <1>1, KeptDecode
<1> QED BY <1>3, <1>4 DEF DecodeWhileWaiting

LEMMA UnforcedWorks ==
  ASSUME FeedbackTyped, NEW e, NEW n \in Nat, Kept(e, 1..n), Ready(st, 1..n), Fits(st), Busy(st),
         st.policy # "prefill_first", e.batch = << >>
  PROVE  LET r == Unforced(e)
         IN  Works(r) /\ r.drain = fb.drain
<1> DEFINE Does(r) == Works(r) /\ r.drain = fb.drain
<1>1. ASSUME NEW d, Kept(d, 1..n), d.batch # << >>, NEW counted
      PROVE  Does(Decoding(d, counted))
  BY <1>1, DecodingParts DEF Works, Kept
<1>2. CASE e.running = << >>
  <2>1. ~ st.incremental => CanStart(e) BY <1>2, KeptIdle
  <2>2. Unforced(e) = PrefillOrDecode(e) BY <1>2 DEF Unforced
  <2> QED BY <2>1, <2>2, PrefillOrDecodeWorks
<1>3. CASE e.running # << >> /\ e.waiting = << >>
  <2> DEFINE d == ScheduleDecode(e, Budget, TRUE)
  <2>1. Unforced(e) = AfterOnlyDecode(d) BY <1>3 DEF Unforced
  <2>2. Kept(d, 1..n) /\ (~ st.incremental /\ d.batch = << >> => CanStart(d))
    <3>1. Budget \in Nat /\ Budget > 0 /\ TRUE \in BOOLEAN BY BudgetsPositive
    <3> QED BY <3>1, KeptDecode
  <2> HIDE DEF d
  <2>3. CASE d.batch # << >>
    <3>1. Unforced(e) = Decoding(d, FALSE) BY <2>1, <2>3 DEF AfterOnlyDecode
    <3> QED BY <1>1, <2>2, <2>3, <3>1
  <2>4. CASE d.batch = << >>
    <3>1. Unforced(e) = PrefillOrDecode(d) BY <2>1, <2>4 DEF AfterOnlyDecode
    <3> QED BY <2>2, <2>4, <3>1, PrefillOrDecodeWorks
  <2> QED BY <2>3, <2>4
<1>4. CASE e.running # << >> /\ e.waiting # << >>
  <2> DEFINE d == DecodeWhileWaiting(e)
             f == FreeKvForWaitingHead(d)
  <2>1. Unforced(e) = AfterDecode(d) BY <1>4 DEF Unforced
  <2>2. Kept(d, 1..n) /\ d.waiting # << >> BY <1>4, DecodeWhileWaitingKept
  <2> HIDE DEF d
  <2>3. CASE d.batch # << >>
    <3>1. Unforced(e) = Decoding(d, TRUE) BY <2>1, <2>3 DEF AfterDecode
    <3> QED BY <1>1, <2>2, <2>3, <3>1
  <2>4. CASE d.batch = << >>
    <3>1. Unforced(e) = PrefillOrDecode(f) BY <2>1, <2>4 DEF AfterDecode
    <3>2. Kept(f, 1..n) /\ f.batch = << >> /\ (~ st.incremental => CanStart(f))
      BY <2>2, <2>4, KeptFree
    <3> HIDE DEF f
    <3> QED BY <3>1, <3>2, PrefillOrDecodeWorks
  <2> QED BY <2>3, <2>4
<1> QED BY <1>2, <1>3, <1>4

(* The starvation guard prefills whatever is in the way.                   *)
LEMMA PressureStepWorks ==
  ASSUME FeedbackTyped, NEW n \in Nat, Ready(st, 1..n), Orderly(st), Fits(st), Busy(st),
         st.policy # "prefill_first"
  PROVE  LET r == PressureStep
         IN  /\ Works(r) /\ r.drain = fb.drain
             /\ Forced /\ ~ st.incremental => IsPrefill(r.st)
<1> DEFINE r == PressureStep
           f == FreeKvForWaitingHead(st)
           d == AdaptivePrefill(f)
<1>1. Kept(st, 1..n) /\ st.batch = << >> BY ReadyGood DEF Kept, Ready
<1>2. CASE ~ Forced
  <2>1. r = Unforced(st) BY <1>2 DEF PressureStep
  <2> QED BY <1>1, <1>2, <2>1, UnforcedWorks
<1>3. CASE Forced
  <2>1. st.waiting # << >> BY <1>3 DEF Forced
  <2>2. Kept(f, 1..n) /\ f.batch = << >> /\ (~ st.incremental => CanStart(f))
    BY <1>1, <2>1, KeptFree
  <2>3. r = AfterForced(d) BY <1>3 DEF PressureStep, ForcedPrefill
  <2> HIDE DEF f
  <2>4. /\ Kept(d, 1..n) /\ (d.batch # << >> => IsPrefill(d))
        /\ ~ st.incremental => d.batch # << >>
    BY <2>2, KeptAdaptive
  <2> HIDE DEF d
  <2>5. CASE d.batch # << >>
    <3>1. r = Prefilled(d) BY <2>3, <2>5 DEF AfterForced
    <3> HIDE DEF r
    <3>2. r.st = d /\ r.drain = fb.drain BY <3>1, PrefilledParts
    <3> QED BY <2>4, <2>5, <3>2 DEF Works, Kept, r
  <2>6. CASE d.batch = << >>
    <3>1. r = Unforced(d) BY <2>3, <2>6 DEF AfterForced
    <3> QED BY <2>4, <2>6, <3>1, UnforcedWorks
  <2> QED BY <2>5, <2>6
<1> QED BY <1>2, <1>3
---------------------------------------------------------------------------
(* The bounded policy, with the length of its drain episodes.              *)

LEMMA ClosedParts ==
  ASSUME NEW A, NEW r, Fine(r, A)
  PROVE  Closed(r).st = r.st /\ Closed(r).drain = 0
BY DEF Closed, Fine

LEMMA BoundedPrefillKept ==
  ASSUME NEW e, NEW n \in Nat, Kept(e, 1..n), Ready(st, 1..n), Fits(st), e.batch = << >>,
         st.policy # "prefill_first"
  PROVE  LET d == BoundedPrefill(e)
         IN  /\ Kept(d, 1..n)
             /\ d.batch # << >> => IsPrefill(d)
             /\ e.waiting # << >> /\ ~ st.incremental => d.batch # << >>
<1> DEFINE f == Room(e)
<1>1. Kept(f, 1..n) /\ f.batch = << >>
      /\ (e.waiting # << >> /\ ~ st.incremental => CanStart(f))
  <2>1. e.waiting = << >> => f = e BY DEF Room
  <2>2. e.waiting # << >> => f = FreeKvForWaitingHead(e) BY DEF Room
  <2> HIDE DEF f
  <2> QED BY <2>1, <2>2, KeptFree
<1> HIDE DEF f
<1>2. MaxBatched \in Nat /\ MaxBatched > 0 /\ MaxBatched <= MaxBatched
  BY CoreAssumption
<1> DEFINE d == SchedulePrefill(f, MaxBatched)
<1>3. /\ Kept(d, 1..n) /\ (d.batch = << >> => ~ CanStart(f))
      /\ d.batch # << >> => IsPrefill(d)
  BY <1>1, <1>2, KeptPrefill
<1>4. BoundedPrefill(e) = d BY DEF BoundedPrefill, f
<1> HIDE DEF d
<1> QED BY <1>1, <1>3, <1>4

LEMMA LastPrefillWorks ==
  ASSUME FeedbackTyped, NEW e, NEW n \in Nat, Kept(e, 1..n), Ready(st, 1..n), Fits(st), Busy(st),
         st.policy # "prefill_first", e.batch = << >>,
         ~ st.incremental => e.waiting # << >>
  PROVE  LET r == LastPrefill(e)
         IN  /\ Works(r) /\ r.drain \in {0, fb.drain}
             /\ e.running = << >> => r.drain = 0
             /\ ~ st.incremental => IsPrefill(r.st)
<1> DEFINE d == BoundedPrefill(e)
           a == AfterPrefill(d)
           r == LastPrefill(e)
<1>1. /\ Kept(d, 1..n) /\ (~ st.incremental => d.batch # << >> /\ IsPrefill(d))
  BY BoundedPrefillKept
<1> HIDE DEF d
<1>2. Works(a) /\ a.drain = fb.drain /\ (~ st.incremental => a.st = d)
  BY <1>1, AfterPrefillWorks
<1>3. Fine(a, 1..n) BY <1>1, AfterPrefillFine DEF Kept
<1>4. r = IF e.running = << >> THEN Closed(a) ELSE a
  BY DEF LastPrefill, AfterLast, d
<1> HIDE DEF a
<1>5. Closed(a).st = a.st /\ Closed(a).drain = 0 BY <1>3, ClosedParts
<1> HIDE DEF r
<1>6. r.st = a.st /\ (e.running = << >> => r.drain = 0) /\ r.drain \in {0, fb.drain}
  BY <1>2, <1>4, <1>5
<1> QED BY <1>1, <1>2, <1>6 DEF Works, r

LEMMA NothingWaitsWorks ==
  ASSUME FeedbackTyped, NEW e, NEW n \in Nat, Kept(e, 1..n), Ready(st, 1..n), Fits(st), Busy(st),
         st.policy # "prefill_first", e.batch = << >>
  PROVE  LET r == NothingWaits(e)
         IN  /\ Works(r) /\ r.drain \in {0, fb.drain}
             /\ (e.running = << >> \/ e.waiting = << >>) /\ ~ st.incremental =>
                  r.drain = 0
             /\ e.waiting # << >> /\ ~ st.incremental => IsPrefill(r.st)
<1>1. CASE e.running # << >> /\ e.waiting = << >>
  <2> DEFINE d == ScheduleDecode(e, Budget, TRUE)
             r == NothingWaits(e)
  <2>1. r = AfterNormalDecode(d) BY <1>1 DEF NothingWaits
  <2>2. /\ Kept(d, 1..n)
        /\ ~ st.incremental /\ d.batch = << >> => d.running = << >> /\ CanStart(d)
    <3>1. Budget \in Nat /\ Budget > 0 /\ TRUE \in BOOLEAN BY BudgetsPositive
    <3> QED BY <3>1, KeptDecode
  <2> HIDE DEF d, r
  <2>3. CASE d.batch # << >>
    <3> DEFINE a == Decoding(d, FALSE)
    <3>1. r = Closed(a) BY <2>1, <2>3 DEF AfterNormalDecode
    <3>2. Fine(a, 1..n) BY <2>2, BudgetFacts, DecodingFine DEF Kept
    <3>3. a.st = d BY DecodingParts
    <3> HIDE DEF a
    <3>4. r.st = d /\ r.drain = 0 BY <3>1, <3>2, <3>3, ClosedParts
    <3> QED BY <1>1, <2>2, <2>3, <3>4 DEF Works, Kept, r
  <2>4. CASE d.batch = << >>
    <3>1. r = LastPrefill(d) BY <2>1, <2>4 DEF AfterNormalDecode
    <3>2. ~ st.incremental => d.waiting # << >> BY <2>2, <2>4 DEF CanStart
    <3>3. /\ Works(r) /\ r.drain \in {0, fb.drain}
          /\ d.running = << >> => r.drain = 0
      BY <2>2, <2>4, <3>1, <3>2, LastPrefillWorks
    <3> QED BY <1>1, <2>2, <2>4, <3>3 DEF r
  <2> QED BY <2>3, <2>4
<1>2. CASE ~ (e.running # << >> /\ e.waiting = << >>)
  <2> DEFINE r == NothingWaits(e)
  <2>1. r = LastPrefill(e) BY <1>2 DEF NothingWaits
  <2>2. e.waiting # << >>
    <3>1. Busy(e) BY KeptFacts
    <3> QED BY <1>2, <3>1 DEF Busy
  <2> HIDE DEF r
  <2>3. /\ Works(r) /\ r.drain \in {0, fb.drain}
        /\ e.running = << >> => r.drain = 0
        /\ ~ st.incremental => IsPrefill(r.st)
    BY <2>1, <2>2, LastPrefillWorks
  <2> QED BY <2>2, <2>3 DEF r
<1> QED BY <1>1, <1>2

LEMMA BaselineDecodeWorks ==
  ASSUME FeedbackTyped, NEW e, NEW n \in Nat, Kept(e, 1..n), Ready(st, 1..n), Fits(st), Busy(st),
         st.policy # "prefill_first", e.batch = << >>
  PROVE  LET r == BaselineDecode(e)
         IN  Works(r) /\ r.drain \in {0, fb.drain}
<1> DEFINE d == ScheduleDecode(e, SmallerOf(MaxNumSeqs, Left), TRUE)
           r == BaselineDecode(e)
<1>1. Works(NothingWaits(e)) /\ NothingWaits(e).drain \in {0, fb.drain}
  BY NothingWaitsWorks
<1>2. r = NothingWaits(e) \/ r = AfterBaselineDecode(d) BY DEF BaselineDecode
<1>3. Kept(d, 1..n) BY BudgetFacts, KeptDecode
<1> HIDE DEF d, r
<1>4. CASE d.batch # << >>
  <2>1. AfterBaselineDecode(d) = Decoding(d, TRUE) BY <1>4 DEF AfterBaselineDecode
  <2>2. Decoding(d, TRUE).st = d /\ Decoding(d, TRUE).drain = fb.drain
    BY DecodingParts
  <2> QED BY <1>1, <1>2, <1>3, <1>4, <2>1, <2>2 DEF Works, Kept, r
<1>5. CASE d.batch = << >>
  <2>1. AfterBaselineDecode(d) = NothingWaits(d) BY <1>5 DEF AfterBaselineDecode
  <2>2. Works(NothingWaits(d)) /\ NothingWaits(d).drain \in {0, fb.drain}
    BY <1>3, <1>5, NothingWaitsWorks
  <2> QED BY <1>1, <1>2, <2>1, <2>2 DEF r
<1> QED BY <1>4, <1>5

LEMMA DrainDecodeWorks ==
  ASSUME FeedbackTyped, NEW e, NEW n \in Nat, Kept(e, 1..n), Ready(st, 1..n), Fits(st), Busy(st),
         st.policy # "prefill_first", e.batch = << >>
  PROVE  LET r == DrainDecode(e)
         IN  Works(r) /\ r.drain \in {0, fb.drain, fb.drain + 1}
<1> DEFINE d == ScheduleDecode(Ranked(e), 1, TRUE)
           r == DrainDecode(e)
<1>1. Works(BaselineDecode(e)) /\ BaselineDecode(e).drain \in {0, fb.drain}
  BY BaselineDecodeWorks
<1>2. r = BaselineDecode(e) \/ r = AfterDrainDecode(d) BY DEF DrainDecode
<1>3. Kept(d, 1..n)
  <2>1. Kept(Ranked(e), 1..n) /\ Ranked(e).batch = << >> BY KeptRanked
  <2> QED BY <2>1, BudgetFacts, KeptDecode
<1> HIDE DEF d, r
<1>4. CASE d.batch # << >>
  <2> DEFINE a == Decoding(d, TRUE)
             w == Watched(d)
             c == [a EXCEPT !.drain = @ + 1, !.watch = w]
  <2>1. AfterDrainDecode(d) = c BY <1>4 DEF AfterDrainDecode
  <2>2. a.st = d /\ a.drain = fb.drain BY DecodingParts
  <2>3. Fine(a, 1..n) BY <1>3, BudgetFacts, DecodingFine DEF Kept
  <2> HIDE DEF a, w
  <2>4. c.st = d /\ c.drain = fb.drain + 1 BY <2>2, <2>3 DEF Fine
  <2> HIDE DEF c
  <2> QED BY <1>1, <1>2, <1>3, <1>4, <2>1, <2>4 DEF Works, Kept, r
<1>5. CASE d.batch = << >>
  <2>1. AfterDrainDecode(d) = BaselineDecode(d) BY <1>5 DEF AfterDrainDecode
  <2>2. Works(BaselineDecode(d)) /\ BaselineDecode(d).drain \in {0, fb.drain}
    BY <1>3, <1>5, BaselineDecodeWorks
  <2> QED BY <1>1, <1>2, <2>1, <2>2 DEF r
<1> QED BY <1>4, <1>5

(* An episode that has had its steps, or that keeps a sequence from its    *)
(* deadline, ends with this step; otherwise it grows by one at most.       *)
Ends(r) ==
  /\ fb.drain <= MaxDrainSteps => r.drain <= MaxDrainSteps
  /\ fb.drain > 0 /\ fb.watch \intersect late # {} =>
       r.drain = 0 /\ (st.waiting # << >> => IsPrefill(r.st))

LEMMA ContendedWorks ==
  ASSUME FeedbackTyped, NEW e, NEW n \in Nat, Kept(e, 1..n), Ready(st, 1..n), Fits(st), Busy(st),
         st.policy # "prefill_first", e.batch = << >>
  PROVE  LET r == Contended(e)
         IN  /\ Works(r)
             /\ ~ st.incremental /\ e = st => Ends(r)
<1> DEFINE r == Contended(e)
           d == BoundedPrefill(e)
<1>1. MaxDrainSteps \in Nat /\ MaxDrainSteps > 0 /\ fb.drain \in Nat
  BY PressureAssumption DEF FeedbackTyped
<1>2. CASE e.running = << >> \/ e.waiting = << >>
  <2>1. r = NothingWaits(e) BY <1>2 DEF Contended
  <2> HIDE DEF r
  <2>2. /\ Works(r)
        /\ ~ st.incremental => r.drain = 0
        /\ e.waiting # << >> /\ ~ st.incremental => IsPrefill(r.st)
    BY <1>2, <2>1, NothingWaitsWorks
  <2> QED BY <1>1, <2>2 DEF Ends, r
<1>3. CASE e.running # << >> /\ e.waiting # << >> /\ DrainExit
  <2>1. r = AfterExit(d) BY <1>3 DEF Contended
  <2>2. /\ Kept(d, 1..n) /\ (d.batch # << >> => IsPrefill(d))
        /\ ~ st.incremental => d.batch # << >>
    BY <1>3, BoundedPrefillKept
  <2> HIDE DEF r, d
  <2>3. CASE d.batch # << >>
    <3>1. r = Closed(Prefilled(d)) BY <2>1, <2>3 DEF AfterExit
    <3>2. Fine(Prefilled(d), 1..n) BY <2>2, PrefilledFine DEF Kept
    <3>3. r.st = d /\ r.drain = 0
      BY <3>1, <3>2, ClosedParts, PrefilledParts
    <3> QED BY <1>1, <2>2, <2>3, <3>3 DEF Works, Kept, Ends, r
  <2>4. CASE d.batch = << >>
    <3>1. r = DrainDecode(d) BY <2>1, <2>4 DEF AfterExit
    <3>2. Works(r) BY <2>2, <2>4, <3>1, DrainDecodeWorks
    <3> QED BY <2>2, <2>4, <3>2 DEF r
  <2> QED BY <2>3, <2>4
<1>4. CASE e.running # << >> /\ e.waiting # << >> /\ ~ DrainExit
  <2>1. r = DrainDecode(e) BY <1>4 DEF Contended
  <2> HIDE DEF r
  <2>2. Works(r) /\ r.drain \in {0, fb.drain, fb.drain + 1}
    BY <2>1, DrainDecodeWorks
  <2>3. fb.drain = 0 \/ (fb.drain < MaxDrainSteps /\ fb.watch \intersect late = {})
    BY <1>1, <1>4 DEF DrainExit
  <2>4. r.drain <= MaxDrainSteps BY <1>1, <2>2, <2>3
  <2>5. Ends(r) BY <2>3, <2>4 DEF Ends
  <2> QED BY <2>2, <2>5 DEF r
<1> QED BY <1>2, <1>3, <1>4

LEMMA BoundedStepWorks ==
  ASSUME FeedbackTyped, NEW n \in Nat, Ready(st, 1..n), Orderly(st), Fits(st), Busy(st),
         st.policy # "prefill_first"
  PROVE  LET r == BoundedStep
         IN  /\ Works(r)
             /\ ~ st.incremental => Ends(r)
             /\ ~ st.incremental /\ Forced /\ fb.drain = 0 => IsPrefill(r.st)
<1> DEFINE r == BoundedStep
           d == BoundedPrefill(st)
<1>1. Kept(st, 1..n) /\ st.batch = << >> BY ReadyGood DEF Kept, Ready
<1>2. CASE Forced /\ fb.drain = 0
  <2>1. r = AfterBounded(d) BY <1>2 DEF BoundedStep
  <2>2. st.waiting # << >> BY <1>2 DEF Forced
  <2>3. /\ Kept(d, 1..n) /\ (d.batch # << >> => IsPrefill(d))
        /\ ~ st.incremental => d.batch # << >>
    BY <1>1, <2>2, BoundedPrefillKept
  <2> HIDE DEF r, d
  <2>4. CASE d.batch # << >>
    <3>1. r = Prefilled(d) BY <2>1, <2>4 DEF AfterBounded
    <3>2. r.st = d /\ r.drain = 0 BY <1>2, <3>1, PrefilledParts
    <3>3. Ends(r)
      <4>1. MaxDrainSteps \in Nat /\ MaxDrainSteps > 0 BY PressureAssumption
      <4> QED BY <1>2, <3>2, <4>1 DEF Ends
    <3> QED BY <2>3, <2>4, <3>2, <3>3 DEF Works, Kept, r
  <2>5. CASE d.batch = << >>
    <3>1. r = Contended(d) BY <2>1, <2>5 DEF AfterBounded
    <3>2. Works(r) BY <2>3, <2>5, <3>1, ContendedWorks
    <3> QED BY <2>3, <2>5, <3>2 DEF r
  <2> QED BY <2>4, <2>5
<1>3. CASE ~ (Forced /\ fb.drain = 0)
  <2>1. r = Contended(st) BY <1>3 DEF BoundedStep
  <2>2. Works(r) /\ (~ st.incremental => Ends(r)) BY <1>1, <2>1, ContendedWorks
  <2> QED BY <1>3, <2>2
<1> QED BY <1>2, <1>3
---------------------------------------------------------------------------
(* Steps that decode and prefill: how much of the batch is decode work.    *)

LEMMA PicksItems ==
  ASSUME NEW e, NEW d, NEW chosen, NEW size, Picks(e, d, chosen, size),
         e.batch \in Seq(Item)
  PROVE  /\ Len(chosen) \in Nat /\ PhaseCount(d.batch, "decode") >= Len(chosen)
         /\ Elems(chosen) \subseteq Selected(d) /\ Selected(e) \subseteq Selected(d)
         /\ PrefillIds(e) \subseteq PrefillIds(d)
         /\ HasPrefill(e) => HasPrefill(d)
<1> DEFINE items == DecodeItems(chosen)
           b == e.batch
           c == d.batch
           m == Len(chosen)
           P == {k \in DOMAIN c : c[k].phase = "decode"}
<1>1. chosen \in Seq(SeqIds) /\ c = items \o b BY DEF Picks
<1>2. /\ items \in Seq(Item) /\ Len(items) = m /\ m \in Nat /\ DOMAIN chosen = 1..m
      /\ \A i \in 1..m : items[i] = [seq |-> chosen[i], phase |-> "decode", n |-> 1]
  BY <1>1, DecodeItemsFacts, LenProperties
<1>3. b \in Seq(Item) /\ Len(b) \in Nat /\ DOMAIN b = 1..Len(b)
  BY LenProperties
<1> HIDE DEF items, b, c, m
<1>4. /\ c \in Seq(Item) /\ Len(c) = m + Len(b) /\ DOMAIN c = 1..Len(c)
      /\ \A i \in 1..m : c[i] = items[i]
      /\ \A j \in 1..Len(b) : c[m + j] = b[j]
  <2>1. /\ Len(items \o b) = Len(items) + Len(b) /\ items \o b \in Seq(Item)
        /\ \A i \in 1..(Len(items) + Len(b)) : (items \o b)[i] =
             IF i <= Len(items) THEN items[i] ELSE b[i - Len(items)]
    BY <1>2, <1>3, ConcatProperties
  <2>2. \A i \in 1..m : i \in 1..(m + Len(b)) /\ i <= m BY <1>2, <1>3
  <2>3. \A j \in 1..Len(b) : m + j \in 1..(m + Len(b)) /\ ~ (m + j <= m) /\ (m + j) - m = j
    BY <1>2, <1>3
  <2>4. c \in Seq(Item) /\ Len(c) = m + Len(b) BY <1>1, <1>2, <2>1
  <2>5. DOMAIN c = 1..Len(c) BY <2>4, LenProperties
  <2>6. \A i \in 1..m : c[i] = items[i] BY <1>1, <1>2, <2>1, <2>2
  <2>7. \A j \in 1..Len(b) : c[m + j] = b[j] BY <1>1, <1>2, <2>1, <2>3
  <2> QED BY <2>4, <2>5, <2>6, <2>7
<1>5. (\A i \in 1..m : i \in DOMAIN c) /\ (\A j \in 1..Len(b) : m + j \in DOMAIN c)
  BY <1>2, <1>3, <1>4
<1>6. PhaseCount(c, "decode") >= m
  <2>1. \A i \in 1..m : c[i].phase = "decode" BY <1>2, <1>4
  <2>2. 1..m \subseteq P BY <1>5, <2>1
  <2>3. PhaseCount(c, "decode") = Cardinality(P) /\ IsFiniteSet(P)
    BY <1>4, PhaseCountFacts DEF PhaseCount
  <2> HIDE DEF P
  <2>4. IsFiniteSet(1..m) /\ Cardinality(1..m) = m /\ Cardinality(P) \in Nat
    BY <1>2, <2>3, FS_Interval, FS_CardinalityType
  <2>5. Cardinality(1..m) <= Cardinality(P) BY <2>2, <2>3, FS_Subset
  <2> QED BY <1>2, <2>3, <2>4, <2>5
<1>7. \A i \in 1..m : chosen[i] \in Selected(d)
  <2>1. \A i \in 1..m : c[i].seq = chosen[i] BY <1>2, <1>4
  <2> QED BY <1>5, <2>1 DEF Selected, c
<1>8. Elems(chosen) \subseteq Selected(d) BY <1>2, <1>7 DEF Elems
<1>9. \A j \in DOMAIN b : m + j \in DOMAIN c /\ c[m + j] = b[j] BY <1>3, <1>4, <1>5
<1>10. Selected(e) \subseteq Selected(d) BY <1>9 DEF Selected, b, c
<1>11. PrefillIds(e) \subseteq PrefillIds(d) BY <1>9 DEF PrefillIds, b, c
<1>12. HasPrefill(e) => HasPrefill(d) BY <1>9 DEF HasPrefill, b, c
<1> QED BY <1>2, <1>6, <1>8, <1>10, <1>11, <1>12 DEF m, c

(* The decode part of a step is full, or nobody is left out.               *)
FullOrAll(d, size) == LeftOut(d) = {} \/ PhaseCount(d.batch, "decode") >= size

LEMMA PicksFill ==
  ASSUME NEW e, NEW d, NEW chosen, NEW size \in Nat, Picks(e, d, chosen, size),
         e.batch \in Seq(Item), d.batch \in Seq(Item)
  PROVE  FullOrAll(d, size)
<1>1. /\ Len(chosen) \in Nat /\ PhaseCount(d.batch, "decode") >= Len(chosen)
      /\ Elems(chosen) \subseteq Selected(d)
  BY PicksItems
<1>2. PhaseCount(d.batch, "decode") \in Nat BY PhaseCountFacts
<1>3. CASE Len(chosen) >= size BY <1>1, <1>2, <1>3 DEF FullOrAll
<1>4. CASE Elems(d.running) = Elems(chosen) BY <1>1, <1>4 DEF FullOrAll, LeftOut
<1> QED BY <1>3, <1>4 DEF Picks

(* The rest of the budget goes to prefill, and leaves nobody out.          *)
LEMMA FillUpKept ==
  ASSUME NEW e, NEW n \in Nat, Kept(e, 1..n), Ready(st, 1..n), ~ HasPrefill(e)
  PROVE  LET d == FillUp(e)
         IN  /\ Kept(d, 1..n) /\ LeftOut(d) \subseteq LeftOut(e)
             /\ PhaseCount(d.batch, "decode") = PhaseCount(e.batch, "decode")
             /\ d.batch = << >> => e.batch = << >> /\ ~ CanStart(e)
<1> DEFINE t == TokensOf(e.batch)
           d == FillUp(e)
<1>1. Good(e, 1..n) /\ EInv(e, 1..n, {}) /\ BatchOK(e, {}) /\ Orderly(e)
  BY DEF Kept, Advances, Good
<1>2. t \in Nat /\ t <= MaxBatched /\ MaxBatched - t \in Nat
      /\ Selected(e) \cap Elems(e.waiting) = {}
  BY <1>1, FillRoom
<1>3. e.batch = << >> => MaxBatched - t > 0
  <2>1. e.batch = << >> => t = 0 BY EmptyBatch
  <2> QED BY <2>1, CoreAssumption
<1>4. d = SchedulePrefill(e, MaxBatched - t) BY DEF FillUp
<1> HIDE DEF d, t
<1>5. Prefills(e, d, 1..n, MaxBatched - t, MaxNumSeqs) BY <1>1, <1>2, <1>4, PrefillFacts
<1>6. Draws(e, d) /\ (CanStart(e) /\ MaxBatched - t > 0 => Len(d.batch) > Len(e.batch))
  BY <1>1, <1>2, <1>4, PrefillDraws
<1>7. Advances(e, d, 1..n) BY <1>1, FillUpAdvances DEF d
<1>8. Orderly(d) BY <1>1, <1>6, <1>7, DrawnOrderly DEF Advances
<1>9. Kept(d, 1..n) BY <1>7, <1>8, KeptFacts
<1>10. LeftOut(d) \subseteq LeftOut(e) BY <1>6 DEF Draws, LeftOut
<1>11. ASSUME d.batch = << >> PROVE e.batch = << >> /\ ~ CanStart(e)
  <2>1. Len(d.batch) = 0 /\ Len(e.batch) \in Nat
    BY <1>1, <1>11, EmptyQueue, LenProperties DEF BatchOK
  <2>2. ~ (Len(d.batch) > Len(e.batch)) BY <2>1
  <2>3. d = e BY <1>6, <2>2 DEF Draws
  <2> QED BY <1>3, <1>6, <1>11, <2>2, <2>3
<1> QED BY <1>5, <1>9, <1>10, <1>11 DEF Prefills, d

(* Prefill does not starve decode: whoever is left out is left out by the  *)
(* decode budget.                                                          *)
Fed(d, size) ==
  d.batch # << >> /\ LeftOut(d) # {} => PhaseCount(d.batch, "decode") >= size

LEMMA TokenBudgetWorks ==
  ASSUME NEW n \in Nat, Ready(st, 1..n), Orderly(st), Fits(st), Busy(st),
         st.policy # "prefill_first"
  PROVE  LET d == TokenBudgetStep
         IN  /\ Orderly(d) /\ (~ st.incremental => d.batch # << >>)
             /\ Fed(d, SmallerOf(MaxNumSeqs, MaxBatched))
<1> DEFINE e == ScheduleDecode(st, MaxBatched, TRUE)
           d == FillUp(e)
           size == SmallerOf(MaxNumSeqs, MaxBatched)
<1>1. MaxBatched \in Nat /\ MaxBatched > 0 /\ TRUE \in BOOLEAN /\ size \in Nat
      /\ StepSize(MaxBatched) = size
  BY CoreAssumption DEF StepSize, SmallerOf
<1> HIDE DEF size
<1>2. Kept(st, 1..n) /\ st.batch = << >> BY ReadyGood DEF Kept, Ready
<1>3. /\ Kept(e, 1..n)
      /\ ~ st.incremental /\ e.batch = << >> => CanStart(e)
  BY <1>1, <1>2, KeptDecode
<1>4. PhaseCount(e.batch, "prefill") = 0 BY <1>1, DecodeAdvances
<1>5. PICK chosen : Picks(st, e, chosen, size)
  <2>1. EInv(st, 1..n, {}) BY DEF Ready
  <2> HIDE DEF e
  <2> QED BY <1>1, <2>1, DecodePicks DEF e
<1> HIDE DEF e
<1>6. e.batch \in Seq(Item) /\ st.batch \in Seq(Item)
  BY <1>2, <1>3, EmptyBatch DEF Kept, Advances, Good, BatchOK
<1>7. ~ HasPrefill(e)
  BY <1>4, <1>6, PhaseCountFacts, LenProperties DEF HasPrefill
<1>8. FullOrAll(e, size) BY <1>1, <1>5, <1>6, PicksFill
<1>9. /\ Kept(d, 1..n) /\ LeftOut(d) \subseteq LeftOut(e)
      /\ PhaseCount(d.batch, "decode") = PhaseCount(e.batch, "decode")
      /\ d.batch = << >> => e.batch = << >> /\ ~ CanStart(e)
  BY <1>3, <1>7, FillUpKept
<1>10. TokenBudgetStep = d BY DEF TokenBudgetStep, e
<1> HIDE DEF d
<1>11. Fed(d, size) BY <1>8, <1>9 DEF FullOrAll, Fed
<1> QED BY <1>3, <1>9, <1>10, <1>11 DEF Kept, size
---------------------------------------------------------------------------
(* mixed_slo_budget: an urgent request is prefilled first, whatever it     *)
(* costs the running ones.                                                 *)

LEMMA UrgentKept ==
  ASSUME NEW n \in Nat, Ready(st, 1..n), Orderly(st), Fits(st), st.policy # "prefill_first",
         PlannedPrefill \in Nat, PlannedPrefill <= MaxBatched,
         st.waiting # << >> => PlannedPrefill > 0
  PROVE  LET e == UrgentPrefill
         IN  /\ Kept(e, 1..n)
             /\ Urgent /\ (st.table[Head(st.waiting)] = << >> \/ ~ st.incremental) =>
                  PrefillIds(e) # {} /\ HasPrefill(e)
<1> DEFINE e == UrgentPrefill
           f == FreeKvForWaitingHead(st)
<1>1. Kept(st, 1..n) /\ st.batch = << >> BY ReadyGood DEF Kept, Ready
<1>2. CASE Urgent
  <2>1. st.waiting # << >> BY <1>2 DEF Urgent
  <2>2. /\ Kept(f, 1..n) /\ f.batch = << >>
        /\ st.table[Head(st.waiting)] = << >> \/ ~ st.incremental => CanStart(f)
    BY <1>1, <2>1, KeptFree
  <2>3. e = SchedulePrefill(f, PlannedPrefill) BY <1>2 DEF UrgentPrefill
  <2> HIDE DEF e, f
  <2>4. /\ Kept(e, 1..n) /\ (e.batch = << >> => ~ CanStart(f))
        /\ e.batch # << >> => PrefillIds(e) # {} /\ HasPrefill(e)
    BY <2>1, <2>2, <2>3, KeptPrefill
  <2> QED BY <2>2, <2>4 DEF e
<1>3. CASE ~ Urgent
  <2>1. e = st BY <1>3 DEF UrgentPrefill
  <2> HIDE DEF e
  <2> QED BY <1>1, <1>3, <2>1 DEF e
<1> QED BY <1>2, <1>3

(* The order of the queue is a matter of the queue and of who has started. *)
LEMMA SameQueueOrder ==
  ASSUME NEW e, NEW d, SameBooks(e, d), d.waiting = e.waiting, d.table = e.table
  PROVE  /\ InTurn(e) => InTurn(d)
         /\ Tidy(e) => Tidy(d)
<1>1. \A s : Started(d, s) <=> Started(e, s) BY DEF Started, SameBooks
<1>2. InTurn(e) => InTurn(d) BY <1>1 DEF InTurn
<1>3. Tidy(e) => Tidy(d) BY DEF Tidy, HeadHolds, SameBooks
<1> QED BY <1>2, <1>3

(* The decode part beside it: it has a place for one sequence at least.    *)
LEMMA BesideKept ==
  ASSUME NEW e, NEW A, Kept(e, A), Ready(st, A), Fits(st), Busy(st),
         st.policy # "prefill_first", PhaseCount(e.batch, "decode") = 0,
         PlannedPrefill \in Nat, PlannedPrefill < MaxBatched,
         TokensOf(e.batch) <= PlannedPrefill
  PROVE  LET d == DecodeBeside(e)
         IN  /\ Kept(d, A) /\ FullOrAll(d, 1)
             /\ PrefillIds(e) \subseteq PrefillIds(d)
             /\ HasPrefill(e) => HasPrefill(d)
             /\ ~ st.incremental /\ d.batch = << >> => CanStart(d)
<1> DEFINE budget == MaxBatched - PlannedPrefill
           out == Keep(e.running, Selected(e))
           X == Elems(out)
           a == Aside(e)
           c == ScheduleDecode(a, budget, TRUE)
           d == Rejoined(c, out)
           size == StepSize(budget)
<1>1. DecodeBeside(e) = d BY DEF DecodeBeside, Aside
<1>2. EInv(e, A, {}) /\ BatchOK(e, {}) /\ Good(e, A) /\ Orderly(e)
      /\ e.policy = st.policy
  BY KeptFacts DEF Kept, Advances, Good
<1>3. /\ budget \in Nat /\ size \in Nat /\ size >= 1
      /\ size = SmallerOf(SmallerOf(MaxNumSeqs, MaxBatched), budget)
      /\ PlannedPrefill <= MaxBatched /\ TRUE \in BOOLEAN
  BY CoreAssumption DEF StepSize, SmallerOf
<1>4. Advances(e, d, A) BY <1>1, <1>2, <1>3, BesideAdvances
<1>5. /\ out \in Seq(SeqIds) /\ Distinct(out) /\ SetAside(e, a, A, X)
      /\ X = Elems(e.running) \cap Selected(e)
  BY <1>2, AsideFacts
<1> HIDE DEF a, out, budget, size
<1>6. /\ EInv(a, A, X) /\ SameBooks(e, a) /\ a.batch = e.batch
      /\ BatchOK(a, X) /\ Selected(a) \cap Elems(a.running) = {}
      /\ a.waiting = e.waiting /\ a.table = e.table
      /\ Elems(a.running) = Elems(e.running) \ Selected(e)
  BY <1>5 DEF SetAside
<1>7. Decodes(a, c, A, X, size)
  BY <1>3, <1>6, DecodeFacts
<1>8. PICK chosen : Picks(a, c, chosen, size)
  BY <1>3, <1>6, DecodePicks DEF size
<1> HIDE DEF c
<1>9. EInv(c, A, X) /\ SameBooks(a, c) /\ BatchOK(c, X) /\ Pressed(a, c)
  BY <1>7, <1>8 DEF Decodes, Picks
<1>10. /\ EInv(d, A, {}) /\ SameBooks(c, d) /\ d.batch = c.batch
       /\ d.waiting = c.waiting /\ d.table = c.table
       /\ Elems(d.running) = Elems(c.running) \union X
  <2>1. EInv(c, A, Elems(out)) /\ BatchOK(c, Elems(out)) BY <1>9
  <2>2. d = Rejoined(c, out) OBVIOUS
  <2> HIDE DEF d
  <2> QED BY <1>5, <2>1, <2>2, RejoinedFacts
<1> HIDE DEF d, X
<1>11. e.batch \in Seq(Item) /\ a.batch \in Seq(Item) /\ c.batch \in Seq(Item)
  BY <1>2, <1>6, <1>9 DEF BatchOK
<1>12. /\ Selected(e) \subseteq Selected(d) /\ Elems(chosen) \subseteq Selected(d)
       /\ PrefillIds(e) \subseteq PrefillIds(d)
       /\ HasPrefill(e) => HasPrefill(d)
       /\ Len(chosen) \in Nat /\ PhaseCount(c.batch, "decode") >= Len(chosen)
  <2>1. /\ Selected(a) = Selected(e) /\ Selected(d) = Selected(c)
        /\ PrefillIds(a) = PrefillIds(e) /\ PrefillIds(d) = PrefillIds(c)
        /\ HasPrefill(a) <=> HasPrefill(e)
        /\ HasPrefill(d) <=> HasPrefill(c)
    BY <1>6, <1>10 DEF Selected, PrefillIds, HasPrefill
  <2> QED BY <1>8, <1>11, <2>1, PicksItems
<1>13. Orderly(d)
  <2>1. Emitting(a) BY <1>2, <1>6 DEF Orderly, Underway, Emitting, SameBooks
  <2>2. InTurn(a) /\ Tidy(a) BY <1>2, <1>6, SameQueueOrder DEF Orderly
  <2>3. InTurn(c) /\ Emitting(c) BY <1>6, <1>9, <2>1, <2>2, PressedInTurn
  <2>4. a.policy # "prefill_first" BY <1>2, <1>6 DEF SameBooks
  <2>5. Tidy(c) BY <1>9, <2>2, <2>4, PressedTidy
  <2>6. InTurn(d) /\ Tidy(d) BY <1>10, <2>3, <2>5, SameQueueOrder
  <2>7. Underway(d)
    BY <1>5, <1>10, <1>12, <2>3 DEF Underway, Emitting, SameBooks
  <2> QED BY <2>6, <2>7 DEF Orderly
<1>14. Kept(d, A) BY <1>4, <1>13, KeptFacts
<1>15. FullOrAll(d, 1)
  <2>1. FullOrAll(c, size) BY <1>3, <1>8, <1>11, PicksFill
  <2>2. LeftOut(d) \subseteq LeftOut(c)
    BY <1>5, <1>10, <1>12 DEF LeftOut, Selected
  <2>3. PhaseCount(c.batch, "decode") \in Nat BY <1>11, PhaseCountFacts
  <2> QED BY <1>3, <1>10, <2>1, <2>2, <2>3 DEF FullOrAll
<1>16. ASSUME ~ st.incremental, d.batch = << >> PROVE CanStart(d)
  <2>1. Selected(d) = {} /\ PhaseCount(d.batch, "decode") = 0 BY <1>16, EmptyBatch
  <2>2. Elems(chosen) = {} /\ X = {} BY <1>5, <1>12, <2>1
  <2>3. Len(chosen) = 0 BY <1>10, <1>12, <2>1
  <2>4. Elems(c.running) = {} BY <1>3, <1>8, <2>2, <2>3 DEF Picks
  <2>5. Elems(d.running) = {} /\ d.running \in Seq(SeqIds)
    BY <1>10, <2>2, <2>4, QueueFacts
  <2>6. d.running = << >> BY <2>5, NobodyIn
  <2> QED BY <1>14, <1>16, <2>6, KeptIdle
<1> QED BY <1>1, <1>12, <1>14, <1>15, <1>16

LEMMA SloWorks ==
  ASSUME NEW n \in Nat, Ready(st, 1..n), Orderly(st), Fits(st), Busy(st),
         st.policy # "prefill_first",
         PlannedPrefill \in Nat, PlannedPrefill < MaxBatched,
         st.waiting # << >> => PlannedPrefill > 0
  PROVE  LET d == SloStep
         IN  /\ Orderly(d) /\ (~ st.incremental => d.batch # << >>)
             /\ Fed(d, 1)
             /\ Urgent /\ (st.table[Head(st.waiting)] = << >> \/ ~ st.incremental) =>
                  PrefillIds(d) # {}
<1> DEFINE u == UrgentPrefill
           d == DecodeBeside(u)
           f == FillUp(d)
           Pressing == Urgent /\ (st.table[Head(st.waiting)] = << >> \/ ~ st.incremental)
<1>1. PlannedPrefill <= MaxBatched BY CoreAssumption
<1>2. /\ Kept(u, 1..n) /\ (Pressing => PrefillIds(u) # {} /\ HasPrefill(u))
  BY <1>1, UrgentKept
<1>3. PhaseCount(u.batch, "decode") = 0 /\ TokensOf(u.batch) <= PlannedPrefill
  BY <1>1, UrgentAdvances
<1> HIDE DEF u
<1>4. /\ Kept(d, 1..n) /\ FullOrAll(d, 1)
      /\ PrefillIds(u) \subseteq PrefillIds(d)
      /\ HasPrefill(u) => HasPrefill(d)
      /\ ~ st.incremental /\ d.batch = << >> => CanStart(d)
  BY <1>2, <1>3, BesideKept
<1>5. SloStep = IF HasPrefill(d) THEN d ELSE f
  BY DEF SloStep, OrPrefill, u
<1> HIDE DEF d
<1>6. CASE HasPrefill(d)
  <2>1. d.batch # << >> BY <1>6, EmptyQueue DEF HasPrefill
  <2>2. Fed(d, 1) BY <1>4 DEF Fed, FullOrAll
  <2> QED BY <1>2, <1>4, <1>5, <1>6, <2>1, <2>2 DEF Kept
<1>7. CASE ~ HasPrefill(d)
  <2>1. /\ Kept(f, 1..n) /\ LeftOut(f) \subseteq LeftOut(d)
        /\ PhaseCount(f.batch, "decode") = PhaseCount(d.batch, "decode")
        /\ f.batch = << >> => d.batch = << >> /\ ~ CanStart(d)
    BY <1>4, <1>7, FillUpKept
  <2> HIDE DEF f
  <2>2. Fed(f, 1) BY <1>4, <2>1 DEF Fed, FullOrAll
  <2> QED BY <1>2, <1>4, <1>5, <1>7, <2>1, <2>2 DEF Kept
<1> QED BY <1>6, <1>7
---------------------------------------------------------------------------
(* The order of the queues through the other operations.                   *)

LEMMA ServedOrderly ==
  ASSUME NEW e, NEW d, NEW A, EInv(e, A, {}), Served(e, d, A), Orderly(e)
  PROVE  Orderly(d)
<1>1. /\ EInv(d, A, {}) /\ SameLimits(e, d) /\ Leaves(e, d)
      /\ \A r \in SeqIds : Emits(e, d, r)
      /\ \A r \in Selected(e) : Progresses(e, d, r)
  BY DEF Served, Ready
<1>2. /\ Elems(e.waiting) \union Elems(e.running) = A \ e.finished
      /\ Elems(d.waiting) \union Elems(d.running) = A \ d.finished
      /\ d.finished \subseteq A
  BY <1>1 DEF EInv, Queues, Held
<1>3. /\ d.waiting = e.waiting /\ Elems(d.running) \subseteq Elems(e.running)
      /\ \A r \in Elems(e.waiting) : d.table[r] = e.table[r] /\ d.len[r] = e.len[r]
      /\ d.plen = e.plen /\ d.policy = e.policy /\ d.incremental = e.incremental
  BY <1>1 DEF Leaves, SameLimits
<1>4. Elems(e.waiting) \subseteq SeqIds /\ Elems(e.running) \subseteq SeqIds
      /\ Elems(e.waiting) \cap Elems(e.running) = {}
  BY QueueFacts DEF Held
<1>5. \A r \in Elems(e.running) : e.table[r] # << >>
  <2>1. \A r \in Elems(e.running) : Len(e.table[r]) > 0
    BY DEF EInv, Placed, Resident, Held
  <2>2. ~ (0 > 0) OBVIOUS
  <2> QED BY <2>1, <2>2, EmptyQueue
<1>6. \A r \in Elems(d.running) : d.table[r] # << >>
  <2>1. \A r \in Elems(d.running) : Len(d.table[r]) > 0
    BY <1>1 DEF EInv, Placed, Resident, Held
  <2>2. ~ (0 > 0) OBVIOUS
  <2> QED BY <2>1, <2>2, EmptyQueue
<1>7. ASSUME NEW s \in SeqIds PROVE Started(d, s) <=> Started(e, s)
  <2>1. CASE s \in Elems(e.waiting)
    <3>1. s \notin e.finished /\ s \notin d.finished BY <2>1, <1>2, <1>3
    <3> QED BY <3>1, <2>1, <1>3 DEF Started
  <2>2. CASE s \in Elems(e.running)
    <3>1. s \in Elems(d.running) \/ s \in d.finished BY <2>2, <1>2, <1>3, <1>4
    <3> QED BY <3>1, <2>2, <1>5, <1>6 DEF Started
  <2>3. CASE s \in e.finished
    <3>1. s \in d.finished BY <2>3, <1>1 DEF Emits
    <3> QED BY <3>1, <2>3 DEF Started
  <2>4. CASE s \notin Elems(e.waiting) /\ s \notin Elems(e.running) /\ s \notin e.finished
    <3>1. s \notin A BY <2>4, <1>2
    <3>2. s \notin d.finished /\ s \notin Elems(d.waiting) /\ s \notin Elems(d.running)
      BY <3>1, <1>2
    <3>3. /\ Vacant(e, s) /\ Vacant(d, s) /\ e.len[s] = e.plen[s] /\ d.len[s] = d.plen[s]
      BY <3>1, <3>2, <2>4, <1>1 DEF EInv, Placed, Held
    <3> QED BY <3>2, <3>3, <2>4, <1>3 DEF Started, Vacant
  <2> QED BY <2>1, <2>2, <2>3, <2>4
<1>8. InTurn(d) BY <1>3, <1>4, <1>7 DEF InTurn, Orderly
<1>9. Tidy(d) BY <1>3 DEF Tidy, HeadHolds, Orderly
<1>10. Underway(d)
  <2> SUFFICES ASSUME NEW s \in Elems(d.running) PROVE d.len[s] > d.plen[s]
    BY DEF Underway
  <2>1. s \in Elems(e.running) /\ s \in SeqIds BY <1>3, <1>4
  <2>2. e.len[s] \in Nat /\ e.plen[s] \in Nat /\ e.plen[s] <= e.len[s]
    BY <2>1 DEF EInv, Setup
  <2>3. CASE s \in Selected(e)
    <3>1. d.len[s] = e.len[s] + 1 BY <2>3, <1>1 DEF Progresses
    <3> QED BY <3>1, <2>2, <1>3
  <2>4. CASE e.len[s] > e.plen[s]
    <3>1. d.len[s] = e.len[s] \/ d.len[s] = e.len[s] + 1 BY <2>1, <1>1 DEF Emits
    <3> QED BY <3>1, <2>2, <2>4, <1>3
  <2> QED BY <2>1, <2>3, <2>4 DEF Orderly, Underway
<1> QED BY <1>8, <1>9, <1>10 DEF Orderly

(* A request that arrives is behind all others.                            *)
LEMMA AppendedLast ==
  ASSUME NEW q \in Seq(SeqIds), NEW v \in SeqIds, Distinct(q), v \notin Elems(q)
  PROVE  /\ Elems(Append(q, v)) = Elems(q) \union {v}
         /\ \A s : ~ Before(Append(q, v), v, s)
         /\ q # << >> => Head(Append(q, v)) = Head(q)
<1> DEFINE r == Append(q, v)
<1>1. Elems(r) = Elems(q) \union {v} BY AppendDistinct
<1>2. /\ Len(q) \in Nat /\ Len(r) = Len(q) + 1 /\ r[Len(q) + 1] = v
      /\ \A i \in 1..Len(q) : r[i] = q[i]
  BY LenProperties, AppendProperties
<1>3. r \in Seq(SeqIds) BY AppendDistinct
<1> HIDE DEF r
<1>4. \A s : ~ Before(r, v, s)
  <2> SUFFICES ASSUME NEW i \in 1..Len(r), NEW j \in 1..Len(r), i < j, r[i] = v
               PROVE  FALSE
    BY DEF Before
  <2>1. i \in 1..Len(q) BY <1>2
  <2>2. q[i] = v BY <2>1, <1>2
  <2>3. DOMAIN q = 1..Len(q) BY LenProperties
  <2> QED BY <2>1, <2>2, <2>3 DEF Elems
<1>5. q # << >> => Head(r) = Head(q)
  <2> SUFFICES ASSUME q # << >> PROVE Head(r) = Head(q)
    OBVIOUS
  <2>1. Len(q) # 0 BY EmptySeq
  <2>2. 1 \in 1..Len(q) /\ Len(r) # 0 BY <2>1, <1>2
  <2>3. r[1] = q[1] BY <2>2, <1>2
  <2>4. r # << >> BY <2>2, EmptyQueue
  <2>5. Head(r) = r[1] /\ Head(q) = q[1] BY <1>3, <2>4, HeadTailProperties
  <2> QED BY <2>3, <2>5
<1> QED BY <1>1, <1>4, <1>5 DEF r

LEMMA AddedOrderly ==
  ASSUME NEW e, NEW n \in 0..NumSeqs, Ready(e, 1..n), n < NumSeqs, Orderly(e)
  PROVE  Orderly(Added(e, n + 1))
<1> DEFINE A == 1..n
           s == n + 1
           q == e.waiting
           d == Added(e, s)
<1>1. EInv(e, A, {}) /\ A \subseteq SeqIds BY DEF Ready, EInv, Queues
<1>2. /\ s \in SeqIds /\ s \notin A /\ \A r \in A : r < s
  BY <1>1, CoreAssumption DEF SeqIds
<1>3. /\ SameBooks(e, d) /\ d.batch = e.batch /\ d.table = e.table
      /\ d.running = e.running /\ d.waiting = Append(q, s)
      /\ d.finished = e.finished /\ d.len = e.len /\ d.plen = e.plen
      /\ d.policy = e.policy /\ d.incremental = e.incremental
  BY <1>1 DEF EInv, Setup, EngineFields, Added, SameBooks
<1> HIDE DEF d, s, A
<1>4. /\ q \in Seq(SeqIds) /\ Distinct(q) /\ Elems(q) \subseteq A /\ s \notin Elems(q)
      /\ s \notin Elems(e.running)
  <2>1. Elems(q) \union Elems(e.running) \subseteq A BY <1>1 DEF EInv, Queues, Held
  <2> QED BY <1>1, <1>2, <2>1, QueueFacts
<1>5. /\ Elems(d.waiting) = Elems(q) \union {s}
      /\ \A r : ~ Before(d.waiting, s, r)
      /\ q # << >> => Head(d.waiting) = Head(q)
  BY <1>2, <1>3, <1>4, AppendedLast
<1>6. \A r : Started(d, r) <=> Started(e, r) BY <1>3 DEF Started
<1>7. e.table[s] = << >>
  BY <1>1, <1>2, <1>4 DEF EInv, Placed, Held, Vacant, q
<1>8. InTurn(d)
  <2>1. ASSUME NEW a \in Elems(d.waiting), NEW b \in Elems(d.waiting),
               ~ Started(d, a), ~ Started(d, b), Before(d.waiting, a, b)
        PROVE  a < b
    <3>1. a # s BY <1>5, <2>1
    <3>2. a \in Elems(q) /\ a \in A BY <1>4, <1>5, <3>1, <2>1
    <3>3. CASE b = s BY <1>2, <3>2, <3>3
    <3>4. CASE b \in Elems(q)
      <4>1. Before(q, a, b)
        BY <1>2, <1>3, <1>4, <2>1, <3>2, <3>4, BeforeAppend
      <4> QED BY <4>1, <3>2, <3>4, <2>1, <1>6 DEF Orderly, InTurn, q
    <3> QED BY <3>3, <3>4, <1>5, <2>1
  <2>2. \A a, b \in SeqIds : a < b /\ Started(d, b) => Started(d, a)
    BY <1>6 DEF Orderly, InTurn
  <2> QED BY <2>1, <2>2 DEF InTurn
<1>9. Tidy(d)
  <2>1. ASSUME HeadHolds(e) PROVE HeadHolds(d)
    <3> SUFFICES ASSUME NEW r \in Elems(d.waiting), d.table[r] # << >>
                 PROVE  r = Head(d.waiting)
      BY DEF HeadHolds
    <3>1. r \in Elems(q) BY <1>3, <1>5, <1>7
    <3>2. r = Head(q) BY <2>1, <3>1, <1>3 DEF HeadHolds, q
    <3>3. q # << >> BY <3>1, EmptyQueue
    <3> QED BY <3>2, <3>3, <1>5
  <2> QED BY <2>1, <1>3 DEF Tidy, Orderly
<1>10. Underway(d)
  BY <1>3 DEF Orderly, Underway, Selected
<1> QED BY <1>8, <1>9, <1>10 DEF Orderly, d, s
---------------------------------------------------------------------------
(* The order of the queues and the ration of decode hold between any two   *)
(* operations of the model; when allocation is not incremental, no step    *)
(* fails and no drain outlasts its budget.                                 *)

NeverStuck ==
  /\ ~ failed /\ fb.drain <= MaxDrainSteps
  /\ Rotate => Rationed(fb.tokens, fb.steps)

ProgressInv ==
  /\ Orderly(st) /\ Fits(st) /\ DecodeNotStarved
  /\ ~ Bounded => fb.drain = 0
  /\ ~ st.incremental => NeverStuck

LEMMA FreshOrderly ==
  ASSUME NEW config \in Configs, NEW kind \in [SeqIds -> Kinds]
  PROVE  Orderly(Fresh(config, kind)) /\ Fits(Fresh(config, kind))
<1> DEFINE e == Fresh(config, kind)
           plen == [s \in SeqIds |-> Len(kind[s].prompt)]
<1>1. /\ e.waiting = << >> /\ e.running = << >> /\ e.finished = {}
      /\ e.plen = plen /\ e.len = plen
      /\ e.table = [s \in SeqIds |-> << >>]
      /\ e.maxTokens = [s \in SeqIds |-> kind[s].max]
  BY DEF Fresh
<1> HIDE DEF e
<1>2. \A s \in SeqIds : plen[s] \in Nat /\ ~ Started(e, s)
  <2> SUFFICES ASSUME NEW s \in SeqIds PROVE plen[s] \in Nat /\ ~ Started(e, s)
    OBVIOUS
  <2>1. kind[s] \in Kinds OBVIOUS
  <2>2. Len(kind[s].prompt) \in Nat BY <2>1, CoreAssumption, LenProperties
  <2>3. plen[s] \in Nat /\ ~ (plen[s] > plen[s]) BY <2>2
  <2> QED BY <1>1, <2>3 DEF Started
<1>3. Elems(e.waiting) = {} /\ Elems(e.running) = {} BY <1>1, EmptyQueue
<1>4. Orderly(e)
  BY <1>2, <1>3 DEF Orderly, Tidy, HeadHolds, InTurn, Underway
<1>5. Fits(e)
  <2> SUFFICES ASSUME NEW s \in SeqIds
               PROVE  BlocksFor(e.plen[s] + e.maxTokens[s] - 1) <= NumBlocks
    BY DEF Fits
  <2>1. kind[s] \in Kinds OBVIOUS
  <2>2. Feasible(kind[s]) BY <2>1, CoreAssumption
  <2>3. e.plen[s] = Len(kind[s].prompt) /\ e.maxTokens[s] = kind[s].max BY <1>1
  <2> QED BY <2>2, <2>3 DEF Feasible
<1> QED BY <1>4, <1>5 DEF e

LEMMA InitProgress == Init => ProgressInv
<1> SUFFICES ASSUME Init PROVE ProgressInv
  OBVIOUS
<1>1. PICK config \in Configs, kind \in [SeqIds -> Kinds] : st = Fresh(config, kind)
  BY DEF Init
<1>2. fb = NoFeedback /\ failed = FALSE BY DEF Init
<1>3. Orderly(st) /\ Fits(st) BY <1>1, FreshOrderly
<1>4. DecodeNotStarved
  <2>1. st.batch = << >> BY <1>1 DEF Fresh
  <2> QED BY <2>1 DEF DecodeNotStarved
<1>5. fb.drain = 0 /\ fb.tokens = 0 /\ fb.steps = 0 BY <1>2 DEF NoFeedback
<1>6. NeverStuck
  <2>1. MaxDrainSteps \in Nat /\ DecodeBudget \in Nat /\ StepGuard \in Nat
    BY PressureAssumption, StateAssumption
  <2> QED BY <1>2, <1>5, <2>1 DEF NeverStuck, Rationed
<1> QED BY <1>3, <1>4, <1>5, <1>6 DEF ProgressInv

(* What schedule() starts from.                                            *)
LEMMA StepBegins ==
  ASSUME SchedulerInv, ProgressInv, CanSchedule
  PROVE  /\ Ready(st, 1..arrived) /\ FeedbackTyped /\ Configured
         /\ Orderly(st) /\ Fits(st) /\ Busy(st) /\ st.batch = << >>
         /\ arrived \in Nat
BY InvReady DEF CanSchedule, ProgressInv, Busy, Here

LEMMA StaticWorks ==
  ASSUME SchedulerInv, ProgressInv, StaticSchedule
  PROVE  Orderly(st') /\ (~ st.incremental => st'.batch # << >>)
         /\ fb'.drain = fb.drain
         /\ (~ st.incremental /\ Rotate => Rationed(fb'.tokens, fb'.steps))
<1> DEFINE r == ScheduleImpl
<1>1. Takes(r.st) /\ fb' = [fb EXCEPT !.tokens = r.tokens, !.steps = r.steps] /\ Static
  BY DEF StaticSchedule
<1>2. st' = r.st /\ CanSchedule BY <1>1 DEF Takes
<1>3. Works(r) /\ (Rotate /\ ~ st.incremental /\ Rationed(fb.tokens, fb.steps) =>
                     Rationed(r.tokens, r.steps))
  BY <1>1, <1>2, StepBegins, ScheduleImplWorks
<1>4. FeedbackTyped BY DEF SchedulerInv
<1> HIDE DEF r
<1>5. fb'.tokens = r.tokens /\ fb'.steps = r.steps /\ fb'.drain = fb.drain
  BY <1>1, <1>4 DEF FeedbackTyped
<1>6. ~ st.incremental /\ Rotate => Rationed(fb.tokens, fb.steps)
  BY DEF ProgressInv, NeverStuck
<1> QED BY <1>2, <1>3, <1>5, <1>6 DEF Works

LEMMA MixedWorks ==
  ASSUME SchedulerInv, ProgressInv, MixedSchedule
  PROVE  /\ Orderly(st') /\ (~ st.incremental => st'.batch # << >>)
         /\ Fed(st', SmallerOf(MaxNumSeqs, IF Slo THEN 1 ELSE MaxBatched))
         /\ fb'.drain = fb.drain
         /\ Slo /\ Urgent /\ (st.table[Head(st.waiting)] = << >> \/ ~ st.incremental)
              => PrefillIds(st') # {}
<1> DEFINE e == IF Slo THEN SloStep ELSE TokenBudgetStep
<1>1. /\ Takes(e) /\ Mixed
      /\ fb' = IF Slo /\ e.batch # << >> THEN [fb EXCEPT !.age = MixedAges(e)] ELSE fb
  BY DEF MixedSchedule
<1>2. st' = e /\ CanSchedule BY <1>1 DEF Takes
<1>3. /\ Ready(st, 1..arrived) /\ arrived \in Nat /\ FeedbackTyped /\ Configured
      /\ Orderly(st) /\ Fits(st) /\ Busy(st)
  BY <1>2, StepBegins
<1>4. st.policy # "prefill_first" BY <1>1 DEF Mixed, Policy
<1>5. fb'.drain = fb.drain
  <2> HIDE DEF e
  <2> QED BY <1>1, <1>3 DEF FeedbackTyped
<1>6. CASE Slo
  <2>1. PICK config \in Configs : config.policy = "mixed_slo_budget"
    BY <1>3, <1>6 DEF Configured, Slo, Policy
  <2>2. /\ PlannedPrefill \in Nat /\ PlannedPrefill < MaxBatched
        /\ st.waiting # << >> => PlannedPrefill > 0
    BY <1>3, <2>1, PlannedFacts
  <2>3. e = SloStep BY <1>6
  <2>4. SmallerOf(MaxNumSeqs, IF Slo THEN 1 ELSE MaxBatched) = 1
    BY <1>6, CoreAssumption DEF SmallerOf
  <2>5. /\ Orderly(e) /\ (~ st.incremental => e.batch # << >>) /\ Fed(e, 1)
        /\ Urgent /\ (st.table[Head(st.waiting)] = << >> \/ ~ st.incremental) =>
             PrefillIds(e) # {}
    BY <1>3, <1>4, <2>2, <2>3, SloWorks
  <2> HIDE DEF e
  <2> QED BY <1>2, <1>5, <2>4, <2>5
<1>7. CASE ~ Slo
  <2>1. e = TokenBudgetStep BY <1>7
  <2>2. /\ Orderly(e) /\ (~ st.incremental => e.batch # << >>)
        /\ Fed(e, SmallerOf(MaxNumSeqs, MaxBatched))
    BY <1>3, <1>4, <2>1, TokenBudgetWorks
  <2> HIDE DEF e
  <2> QED BY <1>2, <1>5, <1>7, <2>2
<1> QED BY <1>6, <1>7

LEMMA PressureWorks ==
  ASSUME SchedulerInv, ProgressInv, PressureSchedule
  PROVE  /\ Orderly(st') /\ (~ st.incremental => st'.batch # << >>)
         /\ ~ Bounded => fb'.drain = 0
         /\ ~ st.incremental =>
              /\ fb'.drain <= MaxDrainSteps
              /\ Forced /\ (Bounded => fb.drain = 0) => IsPrefill(st')
              /\ fb.drain > 0 /\ fb.watch \intersect late # {} =>
                   fb'.drain = 0 /\ (st.waiting # << >> => IsPrefill(st'))
<1> DEFINE r == IF Bounded THEN BoundedStep ELSE PressureStep
<1>1. Takes(r.st) /\ fb'.drain = r.drain /\ ~ Static /\ ~ Mixed
  BY DEF PressureSchedule
<1>2. st' = r.st /\ CanSchedule BY <1>1 DEF Takes
<1>3. /\ Ready(st, 1..arrived) /\ arrived \in Nat /\ FeedbackTyped
      /\ Orderly(st) /\ Fits(st) /\ Busy(st)
  BY <1>2, StepBegins
<1>4. st.policy # "prefill_first" BY <1>1 DEF Static, Policy
<1>5. /\ ~ Bounded => fb.drain = 0
      /\ ~ st.incremental => fb.drain <= MaxDrainSteps
  BY DEF ProgressInv, NeverStuck
<1>6. CASE Bounded
  <2>1. r = BoundedStep BY <1>6
  <2>2. /\ Works(r) /\ (~ st.incremental => Ends(r))
        /\ ~ st.incremental /\ Forced /\ fb.drain = 0 => IsPrefill(r.st)
    BY <1>3, <1>4, <2>1, BoundedStepWorks
  <2> HIDE DEF r
  <2> QED BY <1>1, <1>2, <1>5, <1>6, <2>2 DEF Works, Ends
<1>7. CASE ~ Bounded
  <2>1. r = PressureStep BY <1>7
  <2>2. /\ Works(r) /\ r.drain = fb.drain
        /\ Forced /\ ~ st.incremental => IsPrefill(r.st)
    BY <1>3, <1>4, <2>1, PressureStepWorks
  <2>3. MaxDrainSteps \in Nat BY PressureAssumption
  <2>4. fb.drain = 0 /\ ~ (0 > 0) BY <1>5, <1>7
  <2> HIDE DEF r
  <2> QED BY <1>1, <1>2, <1>5, <1>7, <2>2, <2>4 DEF Works
<1> QED BY <1>6, <1>7
---------------------------------------------------------------------------
(* Every step keeps the invariant.                                         *)

(* The policy and the kind of allocation are those of the engine's         *)
(* configuration, and stay.                                                *)
LEMMA ConfigurationStays ==
  ASSUME SchedulerInv, [Next]_vars
  PROVE  st'.policy = st.policy /\ st'.incremental = st.incremental
<1>1. CASE AddRequest
  <2>1. st' = Added(st, arrived + 1) BY <1>1 DEF AddRequest
  <2>2. DOMAIN st = EngineFields BY DEF SchedulerInv, Good, EInv, Setup
  <2> QED BY <2>1, <2>2 DEF Added, EngineFields
<1>2. CASE DeadlinePasses BY <1>2 DEF DeadlinePasses
<1>3. CASE Schedule
  <2>1. PICK e : Advances(st, e, Here) /\ Takes(e) BY <1>3, ScheduleStep
  <2> QED BY <2>1 DEF Advances, Takes, SameBooks
<1>4. CASE Postprocess
  <2>1. Served(st, st', Here) BY <1>4, PostprocessServes
  <2> QED BY <2>1 DEF Served, SameLimits
<1>5. CASE UNCHANGED vars BY <1>5 DEF vars
<1>6. CASE Drained BY <1>5, <1>6 DEF Drained
<1> QED BY <1>1, <1>2, <1>3, <1>4, <1>5, <1>6 DEF Next

LEMMA SamePolicy ==
  ASSUME st'.policy = st.policy
  PROVE  /\ Static' <=> Static
         /\ Mixed' <=> Mixed
         /\ Slo' <=> Slo
         /\ Bounded' <=> Bounded
         /\ Rotate' <=> Rotate
BY DEF Static, Mixed, Slo, Bounded, Rotate, Policy

LEMMA AddRequestProgress ==
  ASSUME SchedulerInv, ProgressInv, AddRequest
  PROVE  ProgressInv'
<1>1. /\ st.batch = << >> /\ arrived < NumSeqs
      /\ st' = Added(st, arrived + 1) /\ failed' = failed
  BY DEF AddRequest
<1>2. Ready(st, 1..arrived) /\ FeedbackTyped /\ arrived \in 0..NumSeqs
  BY <1>1, InvReady DEF Here
<1>3. Orderly(st') BY <1>1, <1>2, AddedOrderly DEF ProgressInv
<1>4. /\ st'.plen = st.plen /\ st'.maxTokens = st.maxTokens /\ st'.batch = << >>
      /\ st'.policy = st.policy /\ st'.incremental = st.incremental
  <2>1. DOMAIN st = EngineFields BY <1>2 DEF Ready, EInv, Setup
  <2> QED BY <1>1, <2>1 DEF Added, EngineFields
<1>5. Fits(st') BY <1>4 DEF ProgressInv, Fits
<1>6. DecodeNotStarved' BY <1>4 DEF DecodeNotStarved
<1>7. /\ fb'.drain = fb.drain
      /\ \/ fb'.tokens = 0 /\ fb'.steps = 0
         \/ fb'.tokens = fb.tokens /\ fb'.steps = fb.steps
  <2>1. \/ fb' = [fb EXCEPT !.tokens = 0, !.steps = 0]
        \/ fb' = fb
        \/ fb' = [fb EXCEPT !.age[arrived + 1] = 0]
    BY DEF AddRequest
  <2> QED BY <1>2, <2>1 DEF FeedbackTyped
<1>8. (~ Bounded => fb.drain = 0)' BY <1>4, <1>7, SamePolicy DEF ProgressInv
<1>9. (~ st.incremental => NeverStuck)'
  <2> SUFFICES ASSUME ~ st.incremental PROVE NeverStuck'
    BY <1>4
  <2>1. NeverStuck BY DEF ProgressInv
  <2>2. Rationed(0, 0) BY StateAssumption DEF Rationed
  <2>4. Rotate => Rationed(fb'.tokens, fb'.steps)
    BY <1>7, <2>1, <2>2 DEF NeverStuck
  <2>5. Rotate' => Rationed(fb.tokens, fb.steps)'
    BY <1>4, <2>4, SamePolicy DEF Rationed
  <2> QED BY <1>1, <1>7, <2>1, <2>5 DEF NeverStuck
<1> QED BY <1>3, <1>5, <1>6, <1>8, <1>9 DEF ProgressInv

LEMMA PostprocessProgress ==
  ASSUME SchedulerInv, ProgressInv, Postprocess
  PROVE  ProgressInv'
<1>1. Served(st, st', Here) BY PostprocessServes
<1>2. EInv(st, Here, {}) BY DEF SchedulerInv, Good
<1>3. Orderly(st') BY <1>1, <1>2, ServedOrderly DEF ProgressInv
<1>4. /\ SameLimits(st, st') /\ st'.batch = << >> BY <1>1 DEF Served, Ready
<1>5. Fits(st') BY <1>4, FitsOn DEF ProgressInv
<1>6. DecodeNotStarved' BY <1>4 DEF DecodeNotStarved
<1>7. /\ fb'.drain = fb.drain /\ fb'.tokens = fb.tokens /\ fb'.steps = fb.steps
      /\ failed' = failed
  BY DEF Postprocess, SchedulerInv, FeedbackTyped
<1>8. st'.policy = st.policy /\ st'.incremental = st.incremental
  BY <1>4 DEF SameLimits
<1>9. (~ Bounded => fb.drain = 0)' BY <1>7, <1>8, SamePolicy DEF ProgressInv
<1>10. (~ st.incremental => NeverStuck)'
  <2>1. ~ st.incremental => NeverStuck BY DEF ProgressInv
  <2> QED BY <1>7, <1>8, <2>1, SamePolicy DEF NeverStuck, Rationed
<1> QED BY <1>3, <1>5, <1>6, <1>9, <1>10 DEF ProgressInv

(* What a policy has to show for its step.                                 *)
LEMMA StepProgress ==
  ASSUME SchedulerInv, ProgressInv, Schedule,
         Orderly(st'), ~ st.incremental => st'.batch # << >>,
         Mixed => Fed(st', SmallerOf(MaxNumSeqs, IF Slo THEN 1 ELSE MaxBatched)),
         ~ Bounded => fb'.drain = 0,
         ~ st.incremental => fb'.drain <= MaxDrainSteps,
         ~ st.incremental /\ Rotate => Rationed(fb'.tokens, fb'.steps)
  PROVE  ProgressInv'
<1>1. PICK e : Advances(st, e, Here) /\ Takes(e) BY ScheduleStep
<1>2. SameBooks(st, st') /\ failed' = (st'.batch = << >>)
  BY <1>1 DEF Advances, Takes
<1>3. st'.policy = st.policy /\ st'.incremental = st.incremental
  BY <1>2 DEF SameBooks
<1>4. Fits(st') BY <1>2, FitsOn DEF ProgressInv
<1>5. DecodeNotStarved'
  <2> SUFFICES ASSUME Mixed', st'.batch # << >>, LeftOut(st') # {}
               PROVE  PhaseCount(st'.batch, "decode")
                        >= SmallerOf(MaxNumSeqs, IF Slo' THEN 1 ELSE MaxBatched)
    BY DEF DecodeNotStarved, PhaseCount, LeftOut, Selected
  <2> QED BY <1>3, SamePolicy DEF Fed
<1>6. (~ Bounded => fb.drain = 0)' BY <1>3, SamePolicy
<1>7. (~ st.incremental => NeverStuck)'
  BY <1>2, <1>3, SamePolicy DEF NeverStuck, Rationed
<1> QED BY <1>4, <1>5, <1>6, <1>7 DEF ProgressInv

LEMMA ScheduleProgress ==
  ASSUME SchedulerInv, ProgressInv, Schedule
  PROVE  ProgressInv'
<1>1. /\ ~ Bounded => fb.drain = 0
      /\ ~ st.incremental => fb.drain <= MaxDrainSteps
  BY DEF ProgressInv, NeverStuck
<1>2. CASE StaticSchedule
  <2>1. ~ Mixed BY <1>2 DEF StaticSchedule, Static, Mixed
  <2> QED BY <1>1, <1>2, <2>1, StaticWorks, StepProgress
<1>3. CASE MixedSchedule
  <2>1. ~ Rotate BY <1>3 DEF MixedSchedule, Mixed, Rotate
  <2> QED BY <1>1, <1>3, <2>1, MixedWorks, StepProgress
<1>4. CASE PressureSchedule
  <2>1. ~ Rotate /\ ~ Mixed BY <1>4 DEF PressureSchedule, Static, Rotate
  <2> QED BY <1>1, <1>4, <2>1, PressureWorks, StepProgress
<1> QED BY <1>2, <1>3, <1>4 DEF Schedule

LEMMA NextProgress == SchedulerInv /\ ProgressInv /\ [Next]_vars => ProgressInv'
<1> SUFFICES ASSUME SchedulerInv, ProgressInv, [Next]_vars PROVE ProgressInv'
  OBVIOUS
<1>1. CASE AddRequest BY <1>1, AddRequestProgress
<1>2. ASSUME st' = st, fb' = fb, failed' = failed PROVE ProgressInv'
  <2>1. /\ Mixed' <=> Mixed
        /\ Slo' <=> Slo
        /\ Bounded' <=> Bounded
        /\ Rotate' <=> Rotate
    BY <1>2, SamePolicy
  <2> QED BY <1>2, <2>1 DEF ProgressInv, NeverStuck, Rationed, DecodeNotStarved,
                            LeftOut, Selected
<1>3. CASE DeadlinePasses BY <1>2, <1>3 DEF DeadlinePasses
<1>4. CASE Schedule BY <1>4, ScheduleProgress
<1>5. CASE Postprocess BY <1>5, PostprocessProgress
<1>6. CASE UNCHANGED vars BY <1>2, <1>6 DEF vars
<1>7. CASE Drained BY <1>6, <1>7 DEF Drained
<1> QED BY <1>1, <1>3, <1>4, <1>5, <1>6, <1>7 DEF Next
---------------------------------------------------------------------------
(* The policies in every reachable state.                                  *)

(* No request overtakes another: the waiting queue keeps the order of      *)
(* arrival among those that were never served, only its head can hold      *)
(* blocks, whoever runs without a token to show for it is in the batch,    *)
(* and decode keeps its share of a mixed step.  When allocation is not     *)
(* incremental, schedule() never raises and decode stays within its        *)
(* rations (_schedule_impl, _schedule_mixed_token_budget,                  *)
(* _schedule_mixed_slo_budget, _schedule_pressure_aware,                   *)
(* _schedule_recompute_aware and _schedule_recompute_aware_bounded).       *)
THEOREM ProgressInvariant == Spec => []ProgressInv
BY InitInv, NextInv, InitProgress, NextProgress, PTL DEF Spec

(* First come, first served: no request gets its first blocks before one   *)
(* that arrived earlier, with any kind of allocation (_schedule_prefill).  *)
THEOREM ServedInOrder == Spec => []FirstServiceInOrder
<1>1. ProgressInv => FirstServiceInOrder
  BY DEF ProgressInv, Orderly, InTurn, FirstServiceInOrder
<1> QED BY <1>1, ProgressInvariant, PTL

(* Prefill never starves decode in a mixed step: a running sequence is     *)
(* left out only when the decode part of the step is full, or, next to     *)
(* urgent prefill work, not empty.                                         *)
THEOREM DecodeKeepsItsShare == Spec => []DecodeNotStarved
<1>1. ProgressInv => DecodeNotStarved BY DEF ProgressInv
<1> QED BY <1>1, ProgressInvariant, PTL

(* A waiting request that is old or near its TTFT deadline makes the step  *)
(* of mixed_slo_budget prefill, whatever is resident.                      *)
THEOREM UrgentHeadsServed == Spec => UrgentHeadServed
<1> DEFINE Act == MixedSchedule /\ Slo /\ Urgent
                      /\ st.table[Head(st.waiting)] = << >> => PrefillIds(st') # {}
<1>1. SchedulerInv /\ ProgressInv => Act BY MixedWorks
<1>2. UrgentHeadServed <=> [][Act]_vars BY DEF UrgentHeadServed
<1> HIDE DEF Act
<1> QED BY <1>1, <1>2, SchedulerInvariant, ProgressInvariant, PTL

(* The configuration is not incremental, for good.                         *)
Whole == ~ st.incremental

LEMMA WholeStays == Spec /\ Whole => []Whole
<1>1. SchedulerInv /\ Whole /\ [Next]_vars => Whole'
  BY ConfigurationStays DEF Whole
<1> QED BY <1>1, SchedulerInvariant, PTL DEF Spec

(* Without incremental allocation, work that fits the KV cache never makes *)
(* schedule() raise "Scheduler cannot make progress": some sequence can    *)
(* be prefilled, decoded or preempted, under each of the eight policies.   *)
THEOREM WholeAlwaysProgresses == Spec /\ Whole => []AlwaysProgress
<1>1. ProgressInv /\ Whole => AlwaysProgress
  BY DEF ProgressInv, NeverStuck, Whole, AlwaysProgress
<1> QED BY <1>1, ProgressInvariant, WholeStays, PTL

(* Without incremental allocation decode_first_budgeted gives decode at    *)
(* most decode_token_budget tokens and decode_step_guard steps while       *)
(* requests wait.                                                          *)
THEOREM WholeDecodeBounded == Spec /\ Whole => []DecodeBounded
<1>1. ProgressInv /\ Whole => DecodeBounded
  BY DEF ProgressInv, NeverStuck, Whole, Rationed, DecodeBounded
<1> QED BY <1>1, ProgressInvariant, WholeStays, PTL

(* Without incremental allocation no drain of recompute_aware_bounded      *)
(* outlasts max_drain_steps: the prefill that ends it finds its room.      *)
THEOREM WholeDrainBounded == Spec /\ Whole => []DrainBounded
<1>1. ProgressInv /\ Whole => DrainBounded
  BY DEF ProgressInv, NeverStuck, Whole, DrainBounded
<1> QED BY <1>1, ProgressInvariant, WholeStays, PTL

(* Without incremental allocation a waiting request of the threshold's age *)
(* makes the step a prefill, at the cost of running ones if need be.       *)
THEOREM WholeForcedServed == Spec /\ Whole => ForcedServed
<1> DEFINE Act == PressureSchedule /\ Forced /\ (Bounded => fb.drain = 0)
                         => IsPrefill(st')
<1>1. SchedulerInv /\ ProgressInv /\ Whole => Act BY PressureWorks DEF Whole
<1>2. ForcedServed <=> [][Act]_vars BY DEF ForcedServed
<1> HIDE DEF Act
<1> QED BY <1>1, <1>2, SchedulerInvariant, ProgressInvariant, WholeStays, PTL

(* Without incremental allocation a drain episode ends, and a waiting      *)
(* request is prefilled, in the step after the deadline of a watched       *)
(* sequence has passed.                                                    *)
THEOREM WholeOverdueEndsDrain == Spec /\ Whole => OverdueEndsDrain
<1> DEFINE Act == PressureSchedule /\ fb.drain > 0 /\ fb.watch \intersect late # {}
                        => fb'.drain = 0 /\ (st.waiting # << >> => IsPrefill(st'))
<1>1. SchedulerInv /\ ProgressInv /\ Whole => Act BY PressureWorks DEF Whole
<1>2. OverdueEndsDrain <=> [][Act]_vars BY DEF OverdueEndsDrain
<1> HIDE DEF Act
<1> QED BY <1>1, <1>2, SchedulerInvariant, ProgressInvariant, WholeStays, PTL
=============================================================================
