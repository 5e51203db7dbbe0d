--------------------------- MODULE PDTransferProofs ---------------------------
(***************************************************************************)
(* Prefill/decode disaggregation, for any number of requests, prompts,     *)
(* limits, blocks and faults: a request is at one place at a time, an      *)
(* import finds the blocks the runner has seen, and a result that is       *)
(* written is reconciled.                                                  *)
(***************************************************************************)
EXTENDS PDTransfer, FiniteSetTheorems, SequenceTheorems, TLAPS

(* The inductive invariant.                                                *)

Terminal == {None, "Finished", "Failed", "Unfinished"}
Places == {"top", "harvest", "import", "step", "shutdown", "close prefill",
           "close decode", "records", "reconcile", "returned", "raised"}
Distinct(s) == \A i, j \in DOMAIN s : s[i] = s[j] => i = j
Decoding == running \union Elems(waiting)

Types ==
  /\ limit \in Limits /\ arrived \in 0..NumRequests /\ admitted \in 0..arrived
  /\ job \in [request : 0..admitted, state : {"none", "running", "done", "failed"}]
  /\ job.request = 0 <=> job.state = "none"
  /\ queue \in Seq(1..admitted) /\ waiting \in Seq(1..admitted)
  /\ running \subseteq 1..admitted
  /\ emitted \in [Request -> Nat]
  /\ record \in [Request -> [tokens : Nat, terminal : Terminal]]
  /\ stranded \in BOOLEAN /\ process \in [Worker -> {"up", "dead", "closed"}]
  /\ loop \in Places /\ cause \in {None, "runner_error", "timeout"}
  /\ faults \in 0..MaxFaults

(* A request is at one place, and at none before it is admitted and after  *)
(* its last token.                                                         *)
OnePlace ==
  /\ Distinct(queue) /\ Distinct(waiting)
  /\ Elems(queue) \intersect Decoding = {} /\ running \intersect Elems(waiting) = {}
  /\ job.request \notin Elems(queue) \union Decoding
  /\ \A q \in 1..admitted \ {job.request} :
       q \in Elems(queue) \union Decoding <=> emitted[q] < limit[q]

(* What has been emitted, and recorded.                                    *)
Counted ==
  /\ \A q \in Request : emitted[q] <= limit[q]
  /\ \A q \in Request : q > admitted => emitted[q] = 0
  /\ job.state = "running" => emitted[job.request] = 0
  /\ job.state = "done" => emitted[job.request] = 1 /\ limit[job.request] > 1
  /\ \A q \in Request :
       record[q].tokens = IF job.request = q THEN 0 ELSE emitted[q]
  /\ \A q \in Request : record[q].terminal = "Finished" <=> record[q].tokens = limit[q]

(* Whatever goes wrong goes back to a fault or to a request that ends with *)
(* its first token.                                                        *)
Causes ==
  /\ \A w \in Worker : process[w] = "dead" => faults > 0
  /\ job.state = "failed" => faults > 0 \/ limit[job.request] = 1
  /\ ImportsFit

(* Nothing runs any more once the workers are closed.                      *)
Closing ==
  /\ job.state = "running" => InLoop \/ loop = "shutdown"
  /\ loop \in {"reconcile", "returned"} => \A q \in Request : record[q].terminal # None
  /\ loop = "returned" => KvReleased

PDInv == Types /\ OnePlace /\ Counted /\ Causes /\ Closing

---------------------------------------------------------------------------
(* Sequences whose elements differ.                                        *)

LEMMA WidenSeq ==
  ASSUME NEW S, NEW T, S \subseteq T, NEW s \in Seq(S)
  PROVE  s \in Seq(T)
OBVIOUS

LEMMA ElemsIn ==
  ASSUME NEW S, NEW s \in Seq(S)
  PROVE  /\ Elems(s) \subseteq S /\ DOMAIN s = 1..Len(s)
         /\ \A q \in Elems(s) : \E i \in 1..Len(s) : s[i] = q
BY DEF Elems

LEMMA HeadFacts ==
  ASSUME NEW S, NEW s \in Seq(S), s # << >>, Distinct(s)
  PROVE  /\ Head(s) \in Elems(s) /\ Head(s) \notin Elems(Tail(s))
         /\ Elems(s) = {Head(s)} \union Elems(Tail(s))
         /\ Tail(s) \in Seq(S) /\ Distinct(Tail(s))
<1> DEFINE t == Tail(s)
<1>1. /\ Len(s) \in Nat /\ Len(s) >= 1 /\ DOMAIN s = 1..Len(s)
      /\ Head(s) = s[1] /\ t \in Seq(S) /\ Len(t) = Len(s) - 1
      /\ \A i \in 1..Len(t) : t[i] = s[i + 1]
  OBVIOUS
<1>2. DOMAIN t = 1..Len(t)
  OBVIOUS
<1> HIDE DEF t
<1>3. Distinct(t)
  <2> SUFFICES ASSUME NEW i \in 1..Len(t), NEW j \in 1..Len(t), t[i] = t[j] PROVE i = j
    BY <1>2 DEF Distinct
  <2>1. i + 1 \in DOMAIN s /\ j + 1 \in DOMAIN s /\ s[i + 1] = s[j + 1]
    BY <1>1
  <2>2. i + 1 = j + 1
    BY <2>1 DEF Distinct
  <2> QED BY <2>2, <1>1
<1>4. Head(s) \in Elems(s)
  BY <1>1 DEF Elems
<1>5. Head(s) \notin Elems(t)
  <2> SUFFICES ASSUME NEW i \in 1..Len(t), t[i] = s[1] PROVE FALSE
    BY <1>1, <1>2 DEF Elems
  <2>1. i + 1 \in DOMAIN s /\ 1 \in DOMAIN s /\ s[i + 1] = s[1]
    BY <1>1
  <2>2. i + 1 = 1
    BY <2>1 DEF Distinct
  <2> QED BY <2>2, <1>1
<1>6. Elems(s) = {Head(s)} \union Elems(t)
  <2>1. ASSUME NEW i \in 1..Len(s) PROVE s[i] \in {Head(s)} \union Elems(t)
    <3>1. CASE i = 1 BY <3>1, <1>1
    <3>2. CASE i # 1
      <4>1. i - 1 \in 1..Len(t) /\ t[i - 1] = s[i]
        BY <3>2, <1>1
      <4> QED BY <4>1, <1>2 DEF Elems
    <3> QED BY <3>1, <3>2
  <2>2. ASSUME NEW i \in 1..Len(t) PROVE t[i] \in Elems(s)
    BY <1>1 DEF Elems
  <2>3. Elems(s) = {s[i] : i \in 1..Len(s)} /\ Elems(t) = {t[i] : i \in 1..Len(t)}
    BY <1>1, <1>2 DEF Elems
  <2> QED BY <2>1, <2>2, <2>3, <1>4
<1> QED BY <1>1, <1>3, <1>4, <1>5, <1>6 DEF t

LEMMA AppendFacts ==
  ASSUME NEW S, NEW s \in Seq(S), NEW x \in S, Distinct(s), x \notin Elems(s)
  PROVE  /\ Append(s, x) \in Seq(S) /\ Distinct(Append(s, x))
         /\ Elems(Append(s, x)) = Elems(s) \union {x}
<1> DEFINE t == Append(s, x)
<1>1. /\ Len(s) \in Nat /\ DOMAIN s = 1..Len(s) /\ t \in Seq(S)
      /\ Len(t) = Len(s) + 1 /\ DOMAIN t = 1..(Len(s) + 1)
      /\ \A i \in 1..Len(s) : t[i] = s[i]
      /\ t[Len(s) + 1] = x
  OBVIOUS
<1> HIDE DEF t
<1>2. \A i \in DOMAIN s : s[i] # x
  BY DEF Elems
<1>3. Distinct(t)
  <2> SUFFICES ASSUME NEW i \in DOMAIN t, NEW j \in DOMAIN t, t[i] = t[j] PROVE i = j
    BY DEF Distinct
  <2>1. (i \in DOMAIN s /\ t[i] = s[i]) \/ (i = Len(s) + 1 /\ t[i] = x)
    BY <1>1
  <2>2. (j \in DOMAIN s /\ t[j] = s[j]) \/ (j = Len(s) + 1 /\ t[j] = x)
    BY <1>1
  <2> QED BY <2>1, <2>2, <1>2 DEF Distinct
<1>4. Elems(t) = Elems(s) \union {x}
  <2>1. \A i \in DOMAIN t : t[i] \in Elems(s) \union {x}
    BY <1>1 DEF Elems
  <2>2. \A i \in DOMAIN s : i \in DOMAIN t /\ t[i] = s[i]
    BY <1>1
  <2>3. Len(s) + 1 \in DOMAIN t
    BY <1>1
  <2> QED BY <2>1, <2>2, <2>3, <1>1 DEF Elems
<1> QED BY <1>1, <1>3, <1>4 DEF t

LEMMA PushFacts ==
  ASSUME NEW S, NEW s \in Seq(S), NEW x \in S, Distinct(s), x \notin Elems(s)
  PROVE  /\ <<x>> \o s \in Seq(S) /\ Distinct(<<x>> \o s)
         /\ Elems(<<x>> \o s) = {x} \union Elems(s)
<1> DEFINE t == <<x>> \o s
<1>1. /\ Len(s) \in Nat /\ DOMAIN s = 1..Len(s) /\ t \in Seq(S)
      /\ Len(t) = Len(s) + 1 /\ DOMAIN t = 1..(Len(s) + 1)
      /\ \A i \in 1..Len(s) : t[i + 1] = s[i]
      /\ t[1] = x
  OBVIOUS
<1> HIDE DEF t
<1>2. \A i \in DOMAIN s : s[i] # x
  BY DEF Elems
<1>3. \A i \in DOMAIN t : (i = 1 /\ t[i] = x) \/ (i - 1 \in DOMAIN s /\ t[i] = s[i - 1])
  <2> SUFFICES ASSUME NEW i \in DOMAIN t, i # 1
               PROVE  i - 1 \in DOMAIN s /\ t[i] = s[i - 1]
    BY <1>1
  <2>1. i - 1 \in 1..Len(s) /\ (i - 1) + 1 = i
    BY <1>1
  <2> QED BY <2>1, <1>1
<1>4. Distinct(t)
  <2> SUFFICES ASSUME NEW i \in DOMAIN t, NEW j \in DOMAIN t, t[i] = t[j] PROVE i = j
    BY DEF Distinct
  <2>1. CASE i - 1 \in DOMAIN s /\ j - 1 \in DOMAIN s /\ t[i] = s[i - 1] /\ t[j] = s[j - 1]
    <3>1. i - 1 = j - 1
      BY <2>1 DEF Distinct
    <3> QED BY <3>1, <1>1
  <2> QED BY <2>1, <1>2, <1>3
<1>5. Elems(t) = {x} \union Elems(s)
  <2>1. \A i \in DOMAIN t : t[i] \in {x} \union Elems(s)
    BY <1>3 DEF Elems
  <2>2. \A i \in DOMAIN s : i + 1 \in DOMAIN t /\ t[i + 1] = s[i]
    BY <1>1
  <2>3. 1 \in DOMAIN t
    BY <1>1
  <2> QED BY <2>1, <2>2, <2>3, <1>1 DEF Elems
<1> QED BY <1>1, <1>4, <1>5 DEF t

LEMMA CountOf ==
  ASSUME NEW S, NEW s \in Seq(S), Distinct(s), NEW q
  PROVE  Cardinality({i \in DOMAIN s : s[i] = q}) = IF q \in Elems(s) THEN 1 ELSE 0
<1>1. CASE q \in Elems(s)
  <2>1. PICK i \in DOMAIN s : s[i] = q
    BY <1>1 DEF Elems
  <2>2. {j \in DOMAIN s : s[j] = q} = {i}
    BY <2>1 DEF Distinct
  <2> QED BY <1>1, <2>2, FS_Singleton
<1>2. CASE q \notin Elems(s)
  <2>1. {j \in DOMAIN s : s[j] = q} = {}
    BY <1>2 DEF Elems
  <2> QED BY <1>2, <2>1, FS_EmptySet
<1> QED BY <1>1, <1>2

---------------------------------------------------------------------------
(* The invariant holds initially and is kept by every action.              *)

LEMMA LimitFacts ==
  ASSUME Types
  PROVE  /\ \A q \in Request : limit[q] \in Nat /\ limit[q] > 0
         /\ NumRequests \in Nat /\ MaxFaults \in Nat /\ arrived \in Nat /\ admitted \in Nat
         /\ 1..admitted \subseteq Request /\ 1..arrived \subseteq Request
         /\ faults \in Nat /\ faults <= MaxFaults
         /\ job.request \in Nat /\ job.request <= admitted
BY PDAssumption DEF Types, Request

LEMMA InitInv == Init => PDInv
<1> SUFFICES ASSUME Init PROVE PDInv
  OBVIOUS
<1> USE DEF Init
<1>1. NumRequests \in Nat /\ MaxFaults \in Nat
  BY PDAssumption
<1>2. Types
  <2>1. job \in [request : 0..admitted, state : {"none", "running", "done", "failed"}]
        /\ (job.request = 0 <=> job.state = "none")
    BY DEF NoJob
  <2>2. queue \in Seq(1..admitted) /\ waiting \in Seq(1..admitted)
    OBVIOUS
  <2>3. record \in [Request -> [tokens : Nat, terminal : Terminal]]
    BY DEF Terminal
  <2>4. process \in [Worker -> {"up", "dead", "closed"}] /\ stranded \in BOOLEAN
        /\ loop \in Places /\ cause \in {None, "runner_error", "timeout"}
    BY DEF Places
  <2>5. /\ arrived \in 0..NumRequests /\ admitted \in 0..arrived /\ faults \in 0..MaxFaults
    BY <1>1
  <2> QED BY <2>1, <2>2, <2>3, <2>4, <2>5 DEF Types
<1>3. Elems(queue) = {} /\ Elems(waiting) = {} /\ 1..admitted = {}
  BY DEF Elems
<1>4. OnePlace
  BY <1>3 DEF OnePlace, Decoding, Distinct
<1>5. Counted
  <2>1. \A q \in Request : limit[q] > 0 /\ limit[q] \in Nat
    BY <1>2, LimitFacts
  <2>2. \A q \in Request : record[q].tokens = 0 /\ record[q].terminal = None
    OBVIOUS
  <2>3. None # "Finished"
    BY DEF None
  <2> QED BY <2>1, <2>2, <2>3 DEF Counted, NoJob
<1>6. Causes /\ Closing
  BY DEF Causes, Closing, ImportsFit, NoJob, None
<1> QED BY <1>2, <1>4, <1>5, <1>6 DEF PDInv

(* A step that leaves the requests where they are.                         *)
LEMMA RestInv ==
  ASSUME PDInv, UNCHANGED <<limit, admitted, job, queue, decodeQueues, emitted, record>>
  PROVE  OnePlace' /\ Counted'
<1>1. UNCHANGED <<limit, admitted, job, queue, waiting, running, emitted, record>>
  BY DEF decodeQueues
<1>2. OnePlace'
  BY <1>1 DEF PDInv, OnePlace, Decoding, Elems, Distinct
<1>3. Counted'
  BY <1>1 DEF PDInv, Counted
<1> QED BY <1>2, <1>3

LEMMA ArriveInv ==
  ASSUME PDInv, Arrive
  PROVE  PDInv'
<1>1. OnePlace' /\ Counted'
  BY RestInv DEF Arrive
<1>2. Types'
  <2>1. Types
    BY DEF PDInv
  <2>2. arrived' \in 0..NumRequests /\ admitted \in 0..arrived'
    BY <2>1, LimitFacts DEF Arrive, Types
  <2> QED BY <2>1, <2>2 DEF Arrive, Types, decodeQueues
<1>3. Causes' /\ Closing'
  BY DEF PDInv, Arrive, Causes, Closing, ImportsFit, InLoop, KvReleased, decodeQueues
<1> QED BY <1>1, <1>2, <1>3 DEF PDInv

LEMMA DieInv ==
  ASSUME PDInv, NEW w \in Worker, Die(w)
  PROVE  PDInv'
<1>1. OnePlace' /\ Counted'
  BY RestInv DEF Die
<1>2. Types
  BY DEF PDInv
<1>3. faults' \in 0..MaxFaults /\ faults' > 0
  BY <1>2, LimitFacts DEF Die, Fault
<1>4. Types'
  <2>1. process' \in [Worker -> {"up", "dead", "closed"}]
    BY <1>2 DEF Types, Die
  <2> QED BY <1>2, <1>3, <2>1 DEF Die, Types, decodeQueues
<1>5. Causes'
  BY <1>3 DEF Causes, ImportsFit
<1>6. Closing'
  BY DEF PDInv, Die, Closing, InLoop, KvReleased, decodeQueues
<1> QED BY <1>1, <1>4, <1>5, <1>6 DEF PDInv

LEMMA PrefillInv ==
  ASSUME PDInv, Prefill
  PROVE  PDInv'
<1> DEFINE q == job.request
<1>1. Types /\ OnePlace /\ Counted /\ Causes /\ Closing
  BY DEF PDInv
<1>2. /\ job.state = "running" /\ q \in 1..admitted /\ q \in Request
      /\ emitted[q] = 0 /\ record[q].tokens = 0 /\ limit[q] \in Nat /\ limit[q] > 0
      /\ (InLoop \/ loop = "shutdown")
  <2>1. job.state = "running" BY DEF Prefill
  <2>2. q \in 0..admitted /\ q # 0 BY <1>1, <2>1 DEF Types
  <2>3. q \in 1..admitted BY <2>2, <1>1, LimitFacts
  <2> QED BY <2>1, <2>3, <1>1, LimitFacts DEF Counted, Closing
<1>3. /\ UNCHANGED <<limit, arrived, admitted, queue, process, record, loop, cause>>
      /\ UNCHANGED <<waiting, running>>
  BY DEF Prefill, decodeQueues
<1>4. PICK s \in {"done", "failed"} :
        /\ job' = [job EXCEPT !.state = s]
        /\ \/ /\ emitted' = [emitted EXCEPT ![q] = 1]
              /\ s = IF limit[q] > 1 THEN "done" ELSE "failed"
           \/ UNCHANGED emitted /\ s = "failed"
        /\ s = "failed" => faults' > 0 \/ limit[q] = 1
        /\ faults' \in 0..MaxFaults /\ faults' >= faults
        /\ stranded' \in BOOLEAN
  <2>1. faults \in 0..MaxFaults /\ stranded \in BOOLEAN /\ faults \in Nat /\ MaxFaults \in Nat
    BY <1>1, LimitFacts DEF Types
  <2>2. CASE /\ emitted' = [emitted EXCEPT ![q] = 1]
             /\ job' = [job EXCEPT !.state = IF limit[q] > 1 THEN "done" ELSE "failed"]
             /\ UNCHANGED <<stranded, faults>>
    <3>1. (IF limit[q] > 1 THEN "done" ELSE "failed") = "failed" => limit[q] = 1
      BY <1>2
    <3>2. (IF limit[q] > 1 THEN "done" ELSE "failed") \in {"done", "failed"}
      OBVIOUS
    <3> QED BY <2>1, <2>2, <3>1, <3>2
  <2>3. CASE Fault /\ job' = [job EXCEPT !.state = "failed"]
             /\ stranded' \in BOOLEAN /\ UNCHANGED emitted
    <3>1. faults' \in 0..MaxFaults /\ faults' > 0 /\ faults' >= faults
      BY <2>1, <2>3 DEF Fault
    <3> QED BY <2>3, <3>1
  <2>4. CASE process["prefill"] = "dead" /\ job' = [job EXCEPT !.state = "failed"]
             /\ UNCHANGED <<emitted, stranded, faults>>
    <3>1. faults > 0
      BY <1>1, <2>4 DEF Causes, Worker
    <3> QED BY <2>1, <2>4, <3>1
  <2> QED BY <2>2, <2>3, <2>4 DEF Prefill
<1>5. /\ job'.request = q /\ job'.state = s
      /\ job' \in [request : 0..admitted, state : {"none", "running", "done", "failed"}]
  BY <1>1, <1>4 DEF Types
<1>6. /\ emitted' \in [Request -> Nat] /\ \A p \in Request \ {q} : emitted'[p] = emitted[p]
      /\ emitted'[q] \in {0, 1} /\ (s = "done" => emitted'[q] = 1 /\ limit[q] > 1)
  <2>1. emitted \in [Request -> Nat]
    BY <1>1 DEF Types
  <2>2. CASE emitted' = [emitted EXCEPT ![q] = 1]
             /\ s = IF limit[q] > 1 THEN "done" ELSE "failed"
    <3>1. s = "done" => limit[q] > 1
      BY <2>2
    <3> QED BY <3>1, <2>1, <2>2, <1>2
  <2>3. CASE UNCHANGED emitted /\ s = "failed"
    BY <2>1, <2>3, <1>2
  <2> QED BY <2>2, <2>3, <1>4
<1> HIDE DEF q
<1>7. Types'
  <2>1. job'.request = 0 <=> job'.state = "none"
    BY <1>2, <1>4, <1>5, LimitFacts, <1>1
  <2> QED BY <2>1, <1>1, <1>3, <1>4, <1>5, <1>6 DEF Types
<1>8. OnePlace'
  <2>1. /\ Elems(queue)' = Elems(queue) /\ Decoding' = Decoding
        /\ Elems(waiting)' = Elems(waiting)
    BY <1>3 DEF Elems, Decoding
  <2>2. Distinct(queue)' /\ Distinct(waiting)'
    BY <1>1, <1>3 DEF OnePlace, Distinct
  <2>3. \A p \in 1..admitted \ {q} : p \in Elems(queue) \union Decoding <=> emitted'[p] < limit[p]
    BY <1>1, <1>6, LimitFacts DEF OnePlace, q
  <2> QED BY <2>1, <2>2, <2>3, <1>1, <1>3, <1>5 DEF OnePlace, q
<1>9. Counted'
  <2>1. \A p \in Request : emitted'[p] <= limit'[p]
    BY <1>1, <1>2, <1>3, <1>6 DEF Counted
  <2>2. \A p \in Request : p > admitted' => emitted'[p] = 0
    BY <1>1, <1>2, <1>3, <1>6, LimitFacts DEF Counted
  <2>3. \A p \in Request : record'[p].tokens = IF job'.request = p THEN 0 ELSE emitted'[p]
    BY <1>1, <1>3, <1>5, <1>6 DEF Counted, q
  <2>4. \A p \in Request : record'[p].terminal = "Finished" <=> record'[p].tokens = limit'[p]
    BY <1>1, <1>3 DEF Counted
  <2>5. job'.state # "running" /\ (job'.state = "done" => emitted'[job'.request] = 1 /\ limit'[job'.request] > 1)
    BY <1>3, <1>4, <1>5, <1>6
  <2> QED BY <2>1, <2>2, <2>3, <2>4, <2>5 DEF Counted
<1>10. Causes'
  <2>1. faults' >= faults /\ faults \in Nat /\ faults' \in Nat
    BY <1>1, <1>4, LimitFacts
  <2>2. cause = "runner_error" => faults > 0
    BY <1>1, <1>2 DEF Causes, ImportsFit
  <2>3. \A w \in Worker : process'[w] = "dead" => faults' > 0
    BY <1>1, <1>3, <2>1 DEF Causes
  <2> QED BY <1>3, <1>4, <1>5, <2>1, <2>2, <2>3 DEF Causes, ImportsFit, q
<1>11. Closing'
  BY <1>1, <1>2, <1>3, <1>4, <1>5 DEF Closing, InLoop
<1> QED BY <1>7, <1>8, <1>9, <1>10, <1>11 DEF PDInv

(* Raise on account of a fault, or of a request that ends early.           *)
LEMMA TurnInv ==
  ASSUME PDInv, Turn
  PROVE  PDInv'
<1>1. Types /\ OnePlace /\ Counted /\ Causes /\ Closing
  BY DEF PDInv
<1>2. /\ UNCHANGED <<limit, arrived, queue, emitted, stranded, process, record, faults>>
      /\ UNCHANGED <<waiting, running>> /\ loop = "top"
  BY DEF Turn, decodeQueues
<1>3. ASSUME UNCHANGED <<admitted, job>>, loop' \in {"shutdown", "harvest"},
             \/ cause' \in {cause, "timeout"}
             \/ process["decode"] = "dead" /\ cause' = "runner_error"
      PROVE  PDInv'
  <2>1. OnePlace' /\ Counted'
    BY <1>2, <1>3, RestInv DEF decodeQueues
  <2>2. Types'
    BY <1>1, <1>2, <1>3 DEF Types, Places
  <2>3. Causes'
    <3>1. process["decode"] = "dead" => faults > 0
      BY <1>1 DEF Causes, Worker
    <3> QED BY <1>1, <1>2, <1>3, <3>1 DEF Causes, ImportsFit
  <2>4. Closing'
    BY <1>1, <1>2, <1>3 DEF Closing, InLoop
  <2> QED BY <2>1, <2>2, <2>3, <2>4 DEF PDInv
<1>4. CASE /\ loop' = "harvest" /\ UNCHANGED cause /\ job = NoJob /\ admitted < arrived
           /\ admitted' = admitted + 1
           /\ job' = [request |-> admitted + 1, state |-> "running"]
  <2> DEFINE q == admitted + 1
  <2>1. /\ admitted \in Nat /\ arrived \in 0..NumRequests /\ NumRequests \in Nat
        /\ q \in Request /\ 1..q = 1..admitted \union {q} /\ q \notin 1..admitted
        /\ q \in 0..arrived /\ 1..admitted \subseteq 1..q
    BY <1>1, <1>4, LimitFacts DEF Types, Request
  <2>2. job'.request = q /\ job'.state = "running" /\ job.request = 0 /\ job.state = "none"
        /\ job' \in [request : 0..q, state : {"none", "running", "done", "failed"}]
    BY <1>4, <2>1 DEF NoJob
  <2>3. emitted[q] = 0 /\ record[q].tokens = 0
    BY <1>1, <2>1, <2>2 DEF Counted
  <2>4. /\ Elems(queue) \subseteq 1..admitted /\ Elems(waiting) \subseteq 1..admitted
        /\ running \subseteq 1..admitted
    BY <1>1, ElemsIn DEF Types
  <2>5. Types'
    <3>1. queue' \in Seq(1..q) /\ waiting' \in Seq(1..q)
      BY <1>1, <1>2, <2>1, WidenSeq DEF Types
    <3>2. job'.request = 0 <=> job'.state = "none"
      BY <2>1, <2>2
    <3> QED BY <1>1, <1>2, <1>4, <2>1, <2>2, <3>1, <3>2 DEF Types, Places
  <2> HIDE DEF q
  <2>6. OnePlace'
    <3>1. /\ Elems(queue)' = Elems(queue) /\ Decoding' = Decoding
          /\ Elems(waiting)' = Elems(waiting)
      BY <1>2 DEF Elems, Decoding
    <3>2. Distinct(queue)' /\ Distinct(waiting)'
      BY <1>1, <1>2 DEF OnePlace, Distinct
    <3>3. \A p \in 1..q \ {q} : p \in Elems(queue) \union Decoding <=> emitted[p] < limit[p]
      BY <1>1, <2>1, <2>2 DEF OnePlace
    <3>4. q \notin Elems(queue) \union Decoding
      BY <2>1, <2>4 DEF Decoding
    <3>5. admitted' = q
      BY <1>4 DEF q
    <3> QED BY <3>1, <3>2, <3>3, <3>4, <3>5, <1>1, <1>2, <2>2 DEF OnePlace
  <2>7. Counted'
    <3>1. \A p \in Request : p > admitted' => emitted'[p] = 0
      BY <1>1, <1>2, <1>4, <2>1 DEF Counted, Request
    <3>2. \A p \in Request :
            record'[p].tokens = IF job'.request = p THEN 0 ELSE emitted'[p]
      <4>1. \A p \in Request : record[p].tokens = emitted[p]
        BY <1>1, <2>2 DEF Counted, Request
      <4> QED BY <4>1, <1>2, <2>2, <2>3
    <3> QED BY <3>1, <3>2, <1>1, <1>2, <2>2, <2>3 DEF Counted
  <2>8. Causes'
    BY <1>1, <1>2, <1>4, <2>2 DEF Causes, ImportsFit
  <2>9. Closing'
    BY <1>1, <1>2, <1>4 DEF Closing, InLoop
  <2> QED BY <2>5, <2>6, <2>7, <2>8, <2>9 DEF PDInv
<1>5. CASE Raise /\ process["decode"] = "dead" /\ UNCHANGED <<admitted, job>>
  BY <1>3, <1>5 DEF Raise
<1>6. CASE loop' = "shutdown" /\ UNCHANGED <<cause, admitted, job>>
  BY <1>3, <1>6
<1>7. CASE loop' = "shutdown" /\ cause' = "timeout" /\ UNCHANGED <<admitted, job>>
  BY <1>3, <1>7
<1>8. CASE loop' = "harvest" /\ UNCHANGED cause /\ UNCHANGED <<admitted, job>>
  BY <1>3, <1>8
<1> QED BY <1>4, <1>5, <1>6, <1>7, <1>8 DEF Turn

LEMMA HarvestInv ==
  ASSUME PDInv, Harvest
  PROVE  PDInv'
<1> DEFINE q == job.request
<1>1. Types /\ OnePlace /\ Counted /\ Causes /\ Closing
  BY DEF PDInv
<1>2. /\ UNCHANGED <<limit, arrived, admitted, emitted, stranded, process, faults>>
      /\ UNCHANGED <<waiting, running>> /\ loop = "harvest"
  BY DEF Harvest, decodeQueues
<1>3. CASE job.state = "done"
  <2>1. /\ record' = [record EXCEPT ![q].tokens = @ + 1]
        /\ queue' = Append(queue, q) /\ job' = NoJob
        /\ loop' = "import" /\ UNCHANGED cause
    BY <1>3 DEF Harvest
  <2>2. /\ q \in 1..admitted /\ q \in Request
        /\ emitted[q] = 1 /\ record[q].tokens = 0 /\ limit[q] \in Nat /\ limit[q] > 1
    <3>1. q \in 0..admitted /\ q # 0 BY <1>1, <1>3 DEF Types
    <3>2. q \in 1..admitted BY <3>1, <1>1, LimitFacts
    <3> QED BY <3>2, <1>1, <1>3, LimitFacts DEF Counted
  <2>3. /\ queue \in Seq(1..admitted) /\ Distinct(queue) /\ q \notin Elems(queue)
        /\ q \notin Decoding
    BY <1>1 DEF Types, OnePlace
  <2>4. /\ queue' \in Seq(1..admitted) /\ Distinct(queue')
        /\ Elems(queue') = Elems(queue) \union {q}
    <3> HIDE DEF q
    <3>1. PICK S : S = 1..admitted
      OBVIOUS
    <3>2. queue \in Seq(S) /\ q \in S
      BY <2>2, <2>3, <3>1
    <3>3. queue' = Append(queue, q)
      BY <2>1
    <3>4. queue' \in Seq(S) /\ Distinct(queue') /\ Elems(queue') = Elems(queue) \union {q}
      BY <2>3, <3>2, <3>3, AppendFacts
    <3> QED BY <3>1, <3>4
  <2>5. job'.request = 0 /\ job'.state = "none"
        /\ job' \in [request : 0..admitted, state : {"none", "running", "done", "failed"}]
    BY <1>1, <2>1, LimitFacts DEF NoJob
  <2>6. /\ record' \in [Request -> [tokens : Nat, terminal : Terminal]]
        /\ record'[q].tokens = 1 /\ record'[q].terminal = record[q].terminal
        /\ \A p \in Request \ {q} : record'[p] = record[p]
    <3> HIDE DEF q
    <3>1. record \in [Request -> [tokens : Nat, terminal : Terminal]]
      BY <1>1 DEF Types
    <3>2. record' = [record EXCEPT ![q].tokens = @ + 1]
      BY <2>1
    <3>3. \A p \in Request \ {q} : record'[p] = record[p]
      BY <3>1, <3>2
    <3>4. record'[q] = [record[q] EXCEPT !.tokens = @ + 1]
      BY <3>1, <3>2, <2>2
    <3>5. record[q] \in [tokens : Nat, terminal : Terminal]
      BY <3>1, <2>2
    <3>6. record'[q].tokens = 1 /\ record'[q].terminal = record[q].terminal
          /\ record'[q] \in [tokens : Nat, terminal : Terminal]
      BY <3>4, <3>5, <2>2
    <3>7. record' \in [Request -> [tokens : Nat, terminal : Terminal]]
      BY <3>1, <3>2, <3>3, <3>6
    <3> QED BY <3>3, <3>6, <3>7
  <2>7. Types'
    BY <1>1, <1>2, <2>1, <2>4, <2>5, <2>6 DEF Types, Places
  <2> HIDE DEF q
  <2>8. OnePlace'
    <3>1. Decoding' = Decoding /\ Elems(waiting)' = Elems(waiting)
      BY <1>2 DEF Elems, Decoding
    <3>2. Distinct(waiting)'
      BY <1>1, <1>2 DEF OnePlace, Distinct
    <3>3. 0 \notin Elems(queue') \union Decoding
      <4>1. Elems(queue') \subseteq 1..admitted /\ Decoding \subseteq 1..admitted
        BY <1>1, <2>4, ElemsIn DEF Types, Decoding
      <4> QED BY <4>1, <1>1, LimitFacts
    <3>4. \A p \in 1..admitted : p \in Elems(queue') \union Decoding <=> emitted[p] < limit[p]
      <4>1. ASSUME NEW p \in 1..admitted \ {q}
            PROVE  p \in Elems(queue') \union Decoding <=> emitted[p] < limit[p]
        BY <1>1, <2>4 DEF OnePlace, q
      <4>2. q \in Elems(queue') /\ emitted[q] < limit[q]
        BY <2>2, <2>4
      <4> QED BY <4>1, <4>2
    <3>5. Elems(queue') \intersect Decoding = {} /\ running \intersect Elems(waiting) = {}
      BY <1>1, <2>3, <2>4 DEF OnePlace
    <3> QED BY <3>1, <3>2, <3>3, <3>4, <3>5, <2>4, <2>5, <1>2 DEF OnePlace
  <2>9. Counted'
    <3>1. \A p \in Request : record'[p].tokens = emitted[p]
      BY <1>1, <2>2, <2>6 DEF Counted, q
    <3>2. \A p \in Request : p # 0
      BY DEF Request
    <3>3. \A p \in Request : record'[p].terminal = "Finished" <=> record'[p].tokens = limit[p]
      BY <1>1, <2>2, <2>6 DEF Counted
    <3> QED BY <3>1, <3>2, <3>3, <1>1, <1>2, <2>5 DEF Counted
  <2>10. Causes'
    BY <1>1, <1>2, <1>3, <2>1, <2>5 DEF Causes, ImportsFit
  <2>11. Closing'
    BY <1>1, <1>2, <2>1, <2>5 DEF Closing, InLoop
  <2> QED BY <2>7, <2>8, <2>9, <2>10, <2>11 DEF PDInv
<1>4. CASE job.state # "done"
  <2>1. /\ UNCHANGED <<record, queue, job>>
        /\ \/ loop' = "shutdown" /\ cause' = "runner_error" /\ job.state = "failed"
           \/ loop' = "import" /\ UNCHANGED cause
    BY <1>4 DEF Harvest, Raise
  <2>2. OnePlace' /\ Counted'
    BY <1>2, <2>1, RestInv DEF decodeQueues
  <2>3. Types'
    BY <1>1, <1>2, <2>1 DEF Types, Places
  <2>4. Causes'
    BY <1>1, <1>2, <2>1 DEF Causes, ImportsFit
  <2>5. Closing'
    BY <1>1, <1>2, <2>1 DEF Closing, InLoop
  <2> QED BY <2>2, <2>3, <2>4, <2>5 DEF PDInv
<1> QED BY <1>3, <1>4

LEMMA ImportInv ==
  ASSUME PDInv, Import
  PROVE  PDInv'
<1>1. Types /\ OnePlace /\ Counted /\ Causes /\ Closing
  BY DEF PDInv
<1>2. /\ UNCHANGED <<limit, arrived, admitted, job, waiting, emitted, stranded, process, record>>
      /\ loop = "import"
  BY DEF Import
<1>3. faults \in Nat /\ MaxFaults \in Nat /\ faults \in 0..MaxFaults
  BY <1>1, LimitFacts DEF Types
<1>4. ASSUME UNCHANGED <<queue, running>>, faults' \in 0..MaxFaults, faults' >= faults,
             \/ loop' = "step" /\ UNCHANGED cause
             \/ loop' = "shutdown" /\ cause' = "runner_error" /\ faults' > 0
      PROVE  PDInv'
  <2>1. OnePlace' /\ Counted'
    BY <1>2, <1>4, RestInv DEF decodeQueues
  <2>2. Types'
    BY <1>1, <1>2, <1>4 DEF Types, Places
  <2>3. Causes'
    BY <1>1, <1>2, <1>3, <1>4 DEF Causes, ImportsFit
  <2>4. Closing'
    BY <1>1, <1>2, <1>4 DEF Closing, InLoop
  <2> QED BY <2>1, <2>2, <2>3, <2>4 DEF PDInv
<1>5. process["decode"] = "dead" => faults > 0
  BY <1>1 DEF Causes, Worker
<1>6. CASE queue = << >> /\ loop' = "step" /\ UNCHANGED <<cause, queue, running, faults>>
  BY <1>3, <1>4, <1>6
<1>7. CASE /\ IF process["decode"] = "dead" THEN Raise ELSE loop' = "step" /\ UNCHANGED cause
           /\ UNCHANGED <<queue, running, faults>>
  BY <1>3, <1>4, <1>5, <1>7 DEF Raise
<1>8. CASE Fault /\ Raise /\ UNCHANGED <<queue, running>>
  <2>1. faults' \in 0..MaxFaults /\ faults' >= faults /\ faults' > 0
    BY <1>3, <1>8 DEF Fault
  <2> QED BY <1>4, <1>8, <2>1 DEF Raise
<1>9. CASE /\ queue # << >>
           /\ running' = running \union {Head(queue)} /\ queue' = Popped
           /\ loop' = "step" /\ UNCHANGED <<cause, faults>>
  <2> DEFINE h == Head(queue)
  <2>1. PICK S : S = 1..admitted
    OBVIOUS
  <2>2. queue \in Seq(S) /\ running \subseteq S /\ Elems(waiting) \subseteq S
    BY <1>1, <2>1, ElemsIn DEF Types
  <2>3. /\ h \in Elems(queue) /\ h \notin Elems(queue')
        /\ Elems(queue) = {h} \union Elems(queue')
        /\ queue' \in Seq(S) /\ Distinct(queue')
    BY <1>1, <1>9, <2>2, HeadFacts DEF OnePlace, Popped
  <2>4. h \in S
    BY <2>2, <2>3, ElemsIn
  <2> HIDE DEF h
  <2>5. running' = running \union {h}
    BY <1>9 DEF h
  <2>6. /\ Elems(waiting)' = Elems(waiting)
        /\ Decoding' = Decoding \union {h}
    BY <1>2, <2>5 DEF Decoding, Elems
  <2>7. Types'
    <3>1. queue' \in Seq(1..admitted) /\ running' \subseteq 1..admitted
      BY <2>1, <2>2, <2>3, <2>4, <2>5
    <3> QED BY <1>1, <1>2, <1>9, <3>1 DEF Types, Places
  <2>8. OnePlace'
    <3>1. Distinct(waiting)'
      BY <1>1, <1>2 DEF OnePlace, Distinct
    <3>2. /\ Elems(queue') \intersect (Decoding \union {h}) = {}
          /\ h \notin Elems(waiting) /\ running' \intersect Elems(waiting) = {}
          /\ Elems(queue') \union (Decoding \union {h}) = Elems(queue) \union Decoding
      <4>1. Elems(waiting) \subseteq Decoding
        BY DEF Decoding
      <4> QED BY <1>1, <2>3, <2>5, <4>1 DEF OnePlace
    <3> QED BY <1>1, <1>2, <2>3, <2>6, <3>1, <3>2 DEF OnePlace
  <2>9. Counted'
    BY <1>1, <1>2 DEF Counted
  <2>10. Causes'
    BY <1>1, <1>2, <1>9 DEF Causes, ImportsFit
  <2>11. Closing'
    BY <1>1, <1>2, <1>9 DEF Closing, InLoop
  <2> QED BY <2>7, <2>8, <2>9, <2>10, <2>11 DEF PDInv
<1>10. CASE queue # << >> /\ process["decode"] = "up" /\ Free >= Required(Head(queue))
            /\ UNCHANGED faults
            /\ IF Free >= CeilDiv(Prompt[Head(queue)], BlockSize)
               THEN /\ running' = running \union {Head(queue)}
                    /\ queue' = Popped
                    /\ loop' = "step" /\ UNCHANGED cause
               ELSE Raise /\ UNCHANGED <<queue, running>>
  <2>1. Free >= CeilDiv(Prompt[Head(queue)], BlockSize)
    BY <1>10, Zenon DEF Required
  <2> QED BY <1>9, <1>10, <2>1, Zenon
<1> QED BY <1>6, <1>7, <1>8, <1>10, Zenon DEF Import

(* A decode step moves requests between the queues of the worker, gives    *)
(* some a token and lets those go that have their last one.                *)
LEMMA EmissionInv ==
  ASSUME Types, OnePlace, Counted, NEW emitting, NEW left, NEW S, S = 1..admitted,
         UNCHANGED <<limit, admitted, job, queue>>,
         emitting \subseteq Decoding, left \in Seq(S), Distinct(left),
         emitting \intersect Elems(left) = {},
         running \union emitting \union Elems(left) = Decoding,
         Emission(emitting, left)
  PROVE  /\ OnePlace' /\ Counted'
         /\ waiting' \in Seq(S) /\ running' \subseteq S /\ emitted' \in [Request -> Nat]
         /\ record' \in [Request -> [tokens : Nat, terminal : Terminal]]
<1> DEFINE ended == {q \in emitting : emitted'[q] = limit[q]}
           held == (running \union emitting) \ Elems(left)
<1>1. /\ emitted' = [q \in Request |-> emitted[q] + IF q \in emitting THEN 1 ELSE 0]
      /\ waiting' = left
  BY DEF Emission
<1>2. /\ emitting \subseteq S /\ S \subseteq Request /\ Decoding \subseteq S
      /\ emitted \in [Request -> Nat] /\ job.request \notin emitting
      /\ Elems(left) \subseteq Decoding
  <2>1. Decoding \subseteq S
    BY ElemsIn DEF Types, Decoding
  <2>2. S \subseteq Request
    BY LimitFacts
  <2> QED BY <2>1, <2>2 DEF Types, OnePlace
<1>3. running' = held \ ended
  BY <1>1, <1>2 DEF Emission
<1>4. record' = [q \in Request |->
         IF q \notin emitting THEN record[q]
         ELSE [tokens |-> record[q].tokens + 1,
               terminal |-> IF q \in ended THEN "Finished" ELSE record[q].terminal]]
  BY <1>1, <1>2 DEF Emission
<1>5. \A q \in emitting : /\ q \in 1..admitted \ {job.request} /\ q \in Request
                          /\ emitted[q] < limit[q] /\ emitted[q] \in Nat /\ limit[q] \in Nat
                          /\ emitted'[q] = emitted[q] + 1
  BY <1>1, <1>2, LimitFacts DEF OnePlace
<1>6. \A q \in Request \ emitting : emitted'[q] = emitted[q]
  BY <1>1, <1>2
<1>7. emitted' \in [Request -> Nat]
  BY <1>1, <1>2
<1>8. /\ record' \in [Request -> [tokens : Nat, terminal : Terminal]]
      /\ \A q \in Request \ emitting : record'[q] = record[q]
      /\ \A q \in emitting : /\ record'[q].tokens = record[q].tokens + 1
                             /\ record'[q].terminal = IF q \in ended THEN "Finished"
                                                      ELSE record[q].terminal
  <2>1. record \in [Request -> [tokens : Nat, terminal : Terminal]]
    BY DEF Types
  <2> HIDE DEF ended
  <2>2. \A q \in Request \ emitting : record'[q] = record[q]
    BY <1>4
  <2>3. ASSUME NEW q \in emitting
        PROVE  /\ record'[q] \in [tokens : Nat, terminal : Terminal]
               /\ record'[q].tokens = record[q].tokens + 1
               /\ record'[q].terminal = IF q \in ended THEN "Finished" ELSE record[q].terminal
    <3>1. q \in Request /\ record[q] \in [tokens : Nat, terminal : Terminal]
      BY <1>5, <2>1
    <3>2. record'[q] = [tokens |-> record[q].tokens + 1,
                        terminal |-> IF q \in ended THEN "Finished" ELSE record[q].terminal]
      BY <1>4, <3>1
    <3>3. "Finished" \in Terminal
      BY DEF Terminal
    <3> QED BY <3>1, <3>2, <3>3
  <2>4. record' = [q \in Request |-> record'[q]]
    BY <1>4
  <2>5. \A q \in Request : record'[q] \in [tokens : Nat, terminal : Terminal]
    BY <2>1, <2>2, <2>3
  <2> QED BY <2>2, <2>3, <2>4, <2>5
<1>9. running' \subseteq S
  BY <1>2, <1>3 DEF Decoding
<1>10. /\ Elems(waiting') = Elems(left) /\ Distinct(waiting')
       /\ Elems(waiting)' = Elems(left) /\ Elems(queue)' = Elems(queue)
  BY <1>1 DEF Elems
<1>11. Decoding' = Decoding \ ended
  <2>1. ended \intersect Elems(left) = {}
    OBVIOUS
  <2>2. Decoding' = (held \ ended) \union Elems(left)
    BY <1>3, <1>10 DEF Decoding
  <2> QED BY <2>1, <2>2
<1>12. \A q \in Decoding : q \in ended <=> ~ (emitted'[q] < limit[q])
  <2>1. \A q \in Decoding \ emitting : q \in Request /\ q \in 1..admitted \ {job.request}
                                       /\ emitted'[q] < limit[q]
    BY <1>2, <1>6 DEF OnePlace
  <2>2. \A q \in emitting : q \in ended <=> ~ (emitted'[q] < limit[q])
    BY <1>5
  <2> QED BY <2>1, <2>2
<1> HIDE DEF ended, held
<1>13. OnePlace'
  <2>1. Distinct(queue)'
    BY DEF OnePlace, Distinct
  <2>2. running' \intersect Elems(left) = {}
    BY <1>3 DEF held
  <2>3. Elems(queue) \intersect Decoding' = {}
        /\ job.request \notin Elems(queue) \union Decoding'
    BY <1>11 DEF OnePlace
  <2>4. ASSUME NEW q \in 1..admitted \ {job.request}
        PROVE  q \in Elems(queue) \union Decoding' <=> emitted'[q] < limit[q]
    <3>1. CASE q \in Decoding
      BY <3>1, <1>11, <1>12 DEF OnePlace
    <3>2. CASE q \notin Decoding
      <4>1. q \in Request \ emitting
        BY <3>2, <1>2
      <4> QED BY <3>2, <4>1, <1>6, <1>11 DEF OnePlace
    <3> QED BY <3>1, <3>2
  <2> QED BY <2>1, <2>2, <2>3, <2>4, <1>10 DEF OnePlace
<1>14. Counted'
  <2>1. \A q \in Request : emitted'[q] <= limit[q]
    BY <1>5, <1>6 DEF Counted
  <2>2. \A q \in Request : q > admitted => emitted'[q] = 0
    <3> SUFFICES ASSUME NEW q \in Request, q > admitted PROVE emitted'[q] = 0
      OBVIOUS
    <3>1. q \in Nat /\ admitted \in Nat
      BY LimitFacts DEF Request
    <3>2. q \notin emitting
      BY <3>1, <1>5
    <3> QED BY <3>2, <1>6 DEF Counted
  <2>3. job.request \in Request => emitted'[job.request] = emitted[job.request]
    BY <1>2, <1>6
  <2>4. job.state \in {"running", "done"} => job.request \in Request
    BY LimitFacts DEF Types, Request
  <2>5. \A q \in Request : record'[q].tokens = IF job.request = q THEN 0 ELSE emitted'[q]
    BY <1>5, <1>6, <1>8 DEF Counted
  <2>6. ASSUME NEW q \in Request
        PROVE  record'[q].terminal = "Finished" <=> record'[q].tokens = limit[q]
    <3>1. CASE q \notin emitting
      BY <3>1, <1>8 DEF Counted
    <3>2. CASE q \in emitting
      <4>1. record[q].tokens = emitted[q] /\ record'[q].tokens = emitted'[q]
        BY <3>2, <1>5, <1>8, <2>5 DEF Counted
      <4>2. record[q].terminal # "Finished"
        BY <3>2, <4>1, <1>5 DEF Counted
      <4>3. q \in ended <=> emitted'[q] = limit[q]
        BY <3>2 DEF ended
      <4> QED BY <3>2, <4>1, <4>2, <4>3, <1>8
    <3> QED BY <3>1, <3>2
  <2> QED BY <2>1, <2>2, <2>3, <2>4, <2>5, <2>6 DEF Counted
<1> QED BY <1>1, <1>7, <1>8, <1>9, <1>13, <1>14

(* What each kind of decode step hands to Emission.                        *)
LEMMA DecodeStepFacts ==
  ASSUME Types, OnePlace, NEW S, S = 1..admitted, DecodeStep
  PROVE  \E emitting, left :
           /\ emitting \subseteq Decoding /\ left \in Seq(S) /\ Distinct(left)
           /\ emitting \intersect Elems(left) = {}
           /\ running \union emitting \union Elems(left) = Decoding
           /\ Emission(emitting, left)
<1>1. /\ waiting \in Seq(S) /\ Distinct(waiting) /\ running \subseteq S
      /\ running \intersect Elems(waiting) = {}
  BY DEF Types, OnePlace
<1>2. CASE waiting # << >> /\ Emission({Head(waiting)}, Tail(waiting))
  <2>1. /\ Head(waiting) \in Elems(waiting) /\ Head(waiting) \notin Elems(Tail(waiting))
        /\ Elems(waiting) = {Head(waiting)} \union Elems(Tail(waiting))
        /\ Tail(waiting) \in Seq(S) /\ Distinct(Tail(waiting))
    BY <1>1, <1>2, HeadFacts
  <2>2. PICK x : x = Head(waiting)
    OBVIOUS
  <2>3. PICK left : left = Tail(waiting)
    OBVIOUS
  <2>4. /\ x \in Elems(waiting) /\ x \notin Elems(left)
        /\ Elems(waiting) = {x} \union Elems(left)
        /\ left \in Seq(S) /\ Distinct(left) /\ Emission({x}, left)
    BY <1>2, <2>1, <2>2, <2>3
  <2>5. /\ {x} \subseteq Decoding /\ {x} \intersect Elems(left) = {}
        /\ running \union {x} \union Elems(left) = Decoding
    BY <2>4 DEF Decoding
  <2> QED BY <2>4, <2>5
<1>3. CASE Emission(running, waiting)
  <2>1. running \subseteq Decoding /\ running \union running \union Elems(waiting) = Decoding
    BY DEF Decoding
  <2> QED BY <1>1, <1>3, <2>1
<1>4. ASSUME NEW q \in running, Emission(running \ {q}, <<q>> \o waiting)
      PROVE  \E emitting, left :
               /\ emitting \subseteq Decoding /\ left \in Seq(S) /\ Distinct(left)
               /\ emitting \intersect Elems(left) = {}
               /\ running \union emitting \union Elems(left) = Decoding
               /\ Emission(emitting, left)
  <2>1. q \in S /\ q \notin Elems(waiting)
    BY <1>1
  <2>2. /\ <<q>> \o waiting \in Seq(S) /\ Distinct(<<q>> \o waiting)
        /\ Elems(<<q>> \o waiting) = {q} \union Elems(waiting)
    BY <1>1, <2>1, PushFacts
  <2>3. PICK left : left = <<q>> \o waiting
    OBVIOUS
  <2>4. /\ left \in Seq(S) /\ Distinct(left) /\ Elems(left) = {q} \union Elems(waiting)
        /\ Emission(running \ {q}, left)
    BY <1>4, <2>2, <2>3
  <2>5. /\ running \ {q} \subseteq Decoding /\ (running \ {q}) \intersect Elems(left) = {}
        /\ running \union (running \ {q}) \union Elems(left) = Decoding
    BY <1>1, <2>4 DEF Decoding
  <2> QED BY <2>4, <2>5
<1> QED BY <1>2, <1>3, <1>4 DEF DecodeStep

LEMMA StepInv ==
  ASSUME PDInv, Step
  PROVE  PDInv'
<1>1. Types /\ OnePlace /\ Counted /\ Causes /\ Closing
  BY DEF PDInv
<1>2. /\ UNCHANGED <<limit, arrived, admitted, job, queue, stranded, process>>
      /\ loop = "step"
  BY DEF Step
<1>3. faults \in Nat /\ MaxFaults \in Nat /\ faults \in 0..MaxFaults
  BY <1>1, LimitFacts DEF Types
<1>4. CASE DecodeStep /\ loop' = "top" /\ UNCHANGED <<cause, faults>>
  <2>1. PICK S : S = 1..admitted
    OBVIOUS
  <2>2. /\ OnePlace' /\ Counted'
        /\ waiting' \in Seq(S) /\ running' \subseteq S /\ emitted' \in [Request -> Nat]
        /\ record' \in [Request -> [tokens : Nat, terminal : Terminal]]
    <3>1. PICK emitting, left :
            /\ emitting \subseteq Decoding /\ left \in Seq(S) /\ Distinct(left)
            /\ emitting \intersect Elems(left) = {}
            /\ running \union emitting \union Elems(left) = Decoding
            /\ Emission(emitting, left)
      BY <1>1, <1>4, <2>1, DecodeStepFacts
    <3> QED BY <1>1, <1>2, <2>1, <3>1, EmissionInv
  <2>3. Types'
    BY <1>1, <1>2, <1>4, <2>1, <2>2 DEF Types, Places
  <2>4. Causes'
    BY <1>1, <1>2, <1>4 DEF Causes, ImportsFit
  <2>5. Closing'
    BY <1>1, <1>2, <1>4 DEF Closing, InLoop
  <2> QED BY <2>2, <2>3, <2>4, <2>5 DEF PDInv
<1>5. ASSUME UNCHANGED <<decodeQueues, emitted, record>>,
             faults' \in 0..MaxFaults, faults' >= faults,
             \/ loop' = "top" /\ UNCHANGED cause
             \/ loop' = "shutdown" /\ cause' = "runner_error" /\ faults' > 0
      PROVE  PDInv'
  <2>1. OnePlace' /\ Counted'
    BY <1>2, <1>5, RestInv
  <2>2. Types'
    BY <1>1, <1>2, <1>5 DEF Types, Places, decodeQueues
  <2>3. Causes'
    BY <1>1, <1>2, <1>3, <1>5 DEF Causes, ImportsFit
  <2>4. Closing'
    BY <1>1, <1>2, <1>5 DEF Closing, InLoop
  <2> QED BY <2>1, <2>2, <2>3, <2>4 DEF PDInv
<1>6. CASE loop' = "top" /\ UNCHANGED <<decodeQueues, emitted, record, cause, faults>>
  BY <1>3, <1>5, <1>6
<1>7. CASE /\ Raise
           /\ IF process["decode"] = "dead" THEN UNCHANGED faults ELSE Fault
           /\ UNCHANGED <<decodeQueues, emitted, record>>
  <2>1. process["decode"] = "dead" => faults > 0
    BY <1>1 DEF Causes, Worker
  <2>2. faults' \in 0..MaxFaults /\ faults' >= faults /\ faults' > 0
    BY <1>3, <1>7, <2>1 DEF Fault
  <2> QED BY <1>5, <1>7, <2>2 DEF Raise
<1> QED BY <1>4, <1>6, <1>7 DEF Step

LEMMA ClosingInv ==
  ASSUME PDInv, Shutdown \/ CloseWorkers \/ Return
  PROVE  PDInv'
<1>1. Types /\ OnePlace /\ Counted /\ Causes /\ Closing
  BY DEF PDInv
<1>2. /\ UNCHANGED <<limit, arrived, admitted, job, queue, emitted, stranded, record>>
      /\ UNCHANGED <<waiting, running, cause, faults>>
  BY DEF Shutdown, CloseWorkers, Close, Return, decodeQueues
<1>3. OnePlace' /\ Counted'
  BY <1>2, RestInv DEF decodeQueues
<1>4. /\ loop' \in {"close prefill", "close decode", "records", "returned", "raised"}
      /\ process' \in [Worker -> {"up", "dead", "closed"}]
      /\ \A w \in Worker : process'[w] = "dead" => process[w] = "dead"
  <2>1. process \in [Worker -> {"up", "dead", "closed"}]
    BY <1>1 DEF Types
  <2>2. ASSUME NEW w \in Worker, NEW next, Close(w, next)
        PROVE  /\ loop' \in {next, "raised"}
               /\ process' \in [Worker -> {"up", "dead", "closed"}]
               /\ \A v \in Worker : process'[v] = "dead" => process[v] = "dead"
    BY <2>1, <2>2 DEF Close
  <2>3. CASE Shutdown BY <2>1, <2>3 DEF Shutdown
  <2>4. CASE CloseWorkers BY <2>2, <2>4 DEF CloseWorkers, Worker
  <2>5. CASE Return BY <2>1, <2>5 DEF Return
  <2> QED BY <2>3, <2>4, <2>5
<1>5. Types'
  BY <1>1, <1>2, <1>4 DEF Types, Places
<1>6. Causes'
  BY <1>1, <1>2, <1>4 DEF Causes, ImportsFit
<1>7. Closing'
  <2>1. job.state # "running"
    BY <1>1 DEF Shutdown, CloseWorkers, Return, Closing, InLoop
  <2>2. loop' = "returned" => loop = "reconcile" /\ KvReleased
    BY DEF Shutdown, CloseWorkers, Close, Return
  <2> QED BY <1>1, <1>2, <1>4, <2>1, <2>2 DEF Closing, KvReleased
<1> QED BY <1>3, <1>5, <1>6, <1>7 DEF PDInv

LEMMA CloseRecordsInv ==
  ASSUME PDInv, CloseRecords
  PROVE  PDInv'
<1>1. Types /\ OnePlace /\ Counted /\ Causes /\ Closing
  BY DEF PDInv
<1>2. /\ UNCHANGED <<limit, arrived, admitted, job, queue, emitted, stranded, process>>
      /\ UNCHANGED <<waiting, running, cause, faults>> /\ loop = "records"
      /\ loop' \in {"reconcile", "raised"} /\ (loop' = "reconcile" => arrived = NumRequests)
  BY DEF CloseRecords, decodeQueues
<1>3. /\ record' \in [Request -> [tokens : Nat, terminal : Terminal]]
      /\ \A q \in Request :
           /\ record'[q].tokens = record[q].tokens
           /\ record'[q].terminal = "Finished" <=> record[q].terminal = "Finished"
           /\ q <= arrived => record'[q].terminal # None
  <2>1. record \in [Request -> [tokens : Nat, terminal : Terminal]]
    BY <1>1 DEF Types
  <2> DEFINE t == IF cause = "runner_error" THEN "Failed" ELSE "Unfinished"
  <2>2. t \in Terminal /\ t # None /\ t # "Finished" /\ None # "Finished"
    BY DEF Terminal, None
  <2>3. record' = [q \in Request |->
          IF record[q].terminal = None /\ q <= arrived
          THEN [record[q] EXCEPT !.terminal = t] ELSE record[q]]
    BY DEF CloseRecords
  <2> HIDE DEF t
  <2>4. ASSUME NEW q \in Request
        PROVE  /\ record'[q] \in [tokens : Nat, terminal : Terminal]
               /\ record'[q].tokens = record[q].tokens
               /\ record'[q].terminal = "Finished" <=> record[q].terminal = "Finished"
               /\ q <= arrived => record'[q].terminal # None
    BY <2>1, <2>2, <2>3
  <2>5. record' \in [Request -> [tokens : Nat, terminal : Terminal]]
    BY <2>3, <2>4
  <2> QED BY <2>4, <2>5
<1>4. Types'
  BY <1>1, <1>2, <1>3 DEF Types, Places
<1>5. OnePlace'
  BY <1>1, <1>2 DEF OnePlace, Decoding, Elems, Distinct
<1>6. Counted'
  BY <1>1, <1>2, <1>3 DEF Counted
<1>7. Causes'
  BY <1>1, <1>2 DEF Causes, ImportsFit
<1>8. Closing'
  <2>1. job.state # "running"
    BY <1>1, <1>2 DEF Closing, InLoop
  <2>2. loop' = "reconcile" => \A q \in Request : record'[q].terminal # None
    BY <1>2, <1>3 DEF Request
  <2> QED BY <1>2, <2>1, <2>2 DEF Closing
<1> QED BY <1>4, <1>5, <1>6, <1>7, <1>8 DEF PDInv

LEMMA NextInv == PDInv /\ [Next]_vars => PDInv'
<1> SUFFICES ASSUME PDInv, [Next]_vars PROVE PDInv'
  OBVIOUS
<1>1. CASE Next /\ ~ UNCHANGED vars
  BY <1>1, TurnInv, HarvestInv, ImportInv, StepInv, ClosingInv, CloseRecordsInv,
     PrefillInv, ArriveInv, DieInv DEF Next, Runner, Over
<1>2. CASE UNCHANGED vars
  <2>1. OnePlace' /\ Counted'
    BY <1>2, RestInv DEF vars
  <2>2. Types' BY <1>2 DEF vars, PDInv, Types, decodeQueues
  <2>3. Causes' BY <1>2 DEF vars, PDInv, Causes, ImportsFit
  <2>4. Closing' BY <1>2 DEF vars, PDInv, Closing, InLoop, KvReleased, decodeQueues
  <2> QED BY <2>1, <2>2, <2>3, <2>4 DEF PDInv
<1> QED BY <1>1, <1>2

(* The inductive invariant of a disaggregated run.                         *)
THEOREM PDInvariant == Spec => []PDInv
BY InitInv, NextInv, PTL DEF Spec

---------------------------------------------------------------------------
(* What it implies.                                                        *)

(* A request is handed on from worker to worker and never copied or lost:  *)
(* it is at exactly one place until it has all its tokens, and its record  *)
(* shows the tokens that were emitted.                                     *)
THEOREM HandedOnOnce == Spec => []HandedOn
<1>1. ASSUME PDInv PROVE HandedOn
  <2>1. Types /\ OnePlace /\ Counted
    BY <1>1 DEF PDInv
  <2>2. TypeOK
    <3>1. Elems(queue) \union Elems(waiting) \union running \subseteq 1..admitted
      BY <2>1, ElemsIn DEF Types
    <3>2. \A q \in Request : emitted[q] \in 0..limit[q] /\ record[q].tokens \in 0..limit[q]
      <4>1. \A q \in Request : emitted[q] \in Nat /\ limit[q] \in Nat /\ emitted[q] <= limit[q]
        BY <2>1, LimitFacts DEF Types, Counted
      <4> QED BY <4>1, <2>1 DEF Counted
    <3>3. job.request \in 0..admitted /\ job.state \in {"none", "running", "done", "failed"}
      BY <2>1 DEF Types
    <3> QED BY <2>1, <3>1, <3>2, <3>3 DEF TypeOK, Types
  <2>3. ASSUME NEW q \in 1..admitted
        PROVE  (IF job.request = q THEN 1 ELSE 0)
                 + Cardinality({i \in DOMAIN queue : queue[i] = q})
                 + Cardinality({i \in DOMAIN waiting : waiting[i] = q})
                 + Cardinality({q} \intersect running)
               = IF emitted[q] < limit[q] \/ job.request = q THEN 1 ELSE 0
    <3>1. Cardinality({i \in DOMAIN queue : queue[i] = q}) = IF q \in Elems(queue) THEN 1 ELSE 0
      BY <2>1, CountOf DEF Types, OnePlace
    <3>2. Cardinality({i \in DOMAIN waiting : waiting[i] = q})
            = IF q \in Elems(waiting) THEN 1 ELSE 0
      BY <2>1, CountOf DEF Types, OnePlace
    <3>3. Cardinality({q} \intersect running) = IF q \in running THEN 1 ELSE 0
      <4>1. {q} \intersect running = IF q \in running THEN {q} ELSE {}
        OBVIOUS
      <4> QED BY <4>1, FS_Singleton, FS_EmptySet
    <3>4. /\ q \in Elems(queue) => q \notin running /\ q \notin Elems(waiting) /\ job.request # q
          /\ q \in running => q \notin Elems(waiting) /\ job.request # q
          /\ q \in Elems(waiting) => job.request # q
          /\ job.request # q => (q \in Elems(queue) \/ q \in running \/ q \in Elems(waiting)
                                   <=> emitted[q] < limit[q])
      BY <2>1 DEF OnePlace, Decoding
    <3>5. CASE job.request = q
      BY <3>1, <3>2, <3>3, <3>4, <3>5
    <3>6. CASE job.request # q
      BY <3>1, <3>2, <3>3, <3>4, <3>6
    <3> QED BY <3>5, <3>6
  <2> QED BY <2>1, <2>2, <2>3 DEF HandedOn, Counted
<1> QED BY <1>1, PDInvariant, PTL

(* The blocks that the runner has seen free are there when the decode      *)
(* worker imports: only a fault, or a request that ends with its first     *)
(* token, ends a run with an error.                                        *)
THEOREM ImportsAlwaysFit == Spec => []ImportsFit
<1>1. PDInv => ImportsFit
  BY DEF PDInv, Causes
<1> QED BY <1>1, PDInvariant, PTL

(* A result is written only when every request is closed, as finished      *)
(* exactly if it has all its tokens, and no worker holds KV.               *)
THEOREM ReconciledWhenWritten == Spec => []ResultReconciled
<1>1. PDInv => ResultReconciled
  BY DEF PDInv, Closing, Counted, ResultReconciled, KvReleased
<1> QED BY <1>1, PDInvariant, PTL
=============================================================================
