----------------------------- MODULE ReplicasProofs -----------------------------
(***************************************************************************)
(* Runner, router and workers, for any number of replicas, requests,       *)
(* blocks and faults: the records agree with the engines, a result that is *)
(* written is reconciled, and the router uses every replica before it      *)
(* queues a request behind another.                                        *)
(***************************************************************************)
EXTENDS Replicas, FiniteSetTheorems, SequenceTheorems, WellFoundedInduction, TLAPS

(* The inductive invariant.                                                *)

Terminal == {None, "Finished", "Failed", "Unfinished"}
Places == {"launch", "top", "woken", "route", "stepping", "finally", "snapshots",
           "closing", "returned", "raised"}
Ends == {"finally", "snapshots", "closing", "returned", "raised"}
Group == {PrefixGroup[q] : q \in Request}
Engine == [waiting : Seq(Request), running : SUBSET Request,
           cached : SUBSET Group, added : Seq(Request)]
Event == [seq : Nat \ {0}, finished : BOOLEAN]
Answer == [state : {"silent", "asked", "answered", "refused"}, events : SUBSET Event]

Types ==
  /\ router \in Routers /\ cursor \in Replica
  /\ engine \in [Replica -> Engine] /\ emitted \in [Request -> Nat]
  /\ process \in [Replica -> {"absent", "up", "dead", "closed"}]
  /\ answer \in [Replica -> Answer]
  /\ routed \in 0..NumRequests /\ due \in routed..NumRequests
  /\ record \in [Request -> [tokens : Nat, terminal : Terminal]]
  /\ loop \in Places /\ cause \in {None, "runner_error", "timeout"}
  /\ final \subseteq Replica /\ faults \in 0..MaxFaults

Distinct(s) == \A i, j \in DOMAIN s : s[i] = s[j] => i = j

(* A request is added to one replica, once, and found under its number.    *)
Placed ==
  /\ \A r \in Replica :
       /\ Distinct(engine[r].added) /\ Elems(engine[r].added) \subseteq 1..routed
       /\ \A i \in DOMAIN engine[r].added :
            <<r, i>> \in DOMAIN owner /\ owner[<<r, i>>] = engine[r].added[i]
  /\ \A r, s \in Replica :
       r # s => Elems(engine[r].added) \intersect Elems(engine[s].added) = {}

(* An engine has in its queue or running, and not in both, what was added  *)
(* to it and has tokens left to emit.                                      *)
Queued ==
  \A r \in Replica :
    /\ Distinct(engine[r].waiting)
    /\ Elems(engine[r].waiting) \intersect engine[r].running = {}
    /\ \A q \in Request :
         q \in Elems(engine[r].waiting) \union engine[r].running
           <=> q \in Elems(engine[r].added) /\ emitted[q] < Limit[q]

(* What an answer of this round, not yet collected, says.                  *)
Events ==
  \A r \in Replica :
    /\ answer[r].state # "answered" => answer[r].events = {}
    /\ \A e \in answer[r].events :
         /\ e.seq \in DOMAIN engine[r].added
         /\ LET q == engine[r].added[e.seq] IN e.finished <=> emitted[q] = Limit[q]

Awaited(q) ==
  \E r \in Replica : \E e \in answer[r].events : engine[r].added[e.seq] = q

(* What has been emitted, and recorded.                                    *)
Counted ==
  \A q \in Request :
    /\ emitted[q] <= Limit[q] /\ (q > routed => emitted[q] = 0)
    /\ emitted[q] = record[q].tokens + IF Awaited(q) THEN 1 ELSE 0
    /\ record[q].terminal = "Finished" <=> record[q].tokens = Limit[q]

(* Answers outlive their round only if it failed.                          *)
Rounds ==
  /\ (\E r \in Replica : answer[r].state # "silent")
       => loop = "stepping" \/ cause = "runner_error"
  /\ cause # None => loop \in Ends

(* What closing has done so far.                                           *)
Closing ==
  /\ loop \in {"snapshots", "closing", "returned"}
       => \A q \in Request : record[q].terminal # None
  /\ loop = "returned" => /\ \A r \in Replica : process[r] = "closed"
                          /\ \A r \in final : engine[r].running = {}

ReplicasInv == Types /\ Placed /\ Queued /\ Events /\ Counted /\ Rounds /\ Closing

---------------------------------------------------------------------------
(* Sequences whose elements differ.                                        *)

LEMMA WidenSeq ==
  ASSUME NEW S, NEW T, S \subseteq T, NEW s \in Seq(S)
  PROVE  s \in Seq(T)
OBVIOUS

LEMMA ElemsIn ==
  ASSUME NEW S, NEW s \in Seq(S)
  PROVE  /\ Elems(s) \subseteq S /\ DOMAIN s = 1..Len(s)
         /\ \A q \in Elems(s) : \E i \in 1..Len(s) : s[i] = q
BY DEF Elems

LEMMA HeadFacts ==
  ASSUME NEW S, NEW s \in Seq(S), s # << >>, Distinct(s)
  PROVE  /\ Head(s) \in Elems(s) /\ Head(s) \notin Elems(Tail(s))
         /\ Elems(s) = {Head(s)} \union Elems(Tail(s))
         /\ Tail(s) \in Seq(S) /\ Distinct(Tail(s))
<1> DEFINE t == Tail(s)
<1>1. /\ Len(s) \in Nat /\ Len(s) >= 1 /\ DOMAIN s = 1..Len(s)
      /\ Head(s) = s[1] /\ t \in Seq(S) /\ Len(t) = Len(s) - 1
      /\ \A i \in 1..Len(t) : t[i] = s[i + 1]
  OBVIOUS
<1>2. DOMAIN t = 1..Len(t)
  OBVIOUS
<1> HIDE DEF t
<1>3. Distinct(t)
  <2> SUFFICES ASSUME NEW i \in 1..Len(t), NEW j \in 1..Len(t), t[i] = t[j] PROVE i = j
    BY <1>2 DEF Distinct
  <2>1. i + 1 \in DOMAIN s /\ j + 1 \in DOMAIN s /\ s[i + 1] = s[j + 1]
    BY <1>1
  <2>2. i + 1 = j + 1
    BY <2>1 DEF Distinct
  <2> QED BY <2>2, <1>1
<1>4. Head(s) \in Elems(s)
  BY <1>1 DEF Elems
<1>5. Head(s) \notin Elems(t)
  <2> SUFFICES ASSUME NEW i \in 1..Len(t), t[i] = s[1] PROVE FALSE
    BY <1>1, <1>2 DEF Elems
  <2>1. i + 1 \in DOMAIN s /\ 1 \in DOMAIN s /\ s[i + 1] = s[1]
    BY <1>1
  <2>2. i + 1 = 1
    BY <2>1 DEF Distinct
  <2> QED BY <2>2, <1>1
<1>6. Elems(s) = {Head(s)} \union Elems(t)
  <2>1. ASSUME NEW i \in 1..Len(s) PROVE s[i] \in {Head(s)} \union Elems(t)
    <3>1. CASE i = 1 BY <3>1, <1>1
    <3>2. CASE i # 1
      <4>1. i - 1 \in 1..Len(t) /\ t[i - 1] = s[i]
        BY <3>2, <1>1
      <4> QED BY <4>1, <1>2 DEF Elems
    <3> QED BY <3>1, <3>2
  <2>2. ASSUME NEW i \in 1..Len(t) PROVE t[i] \in Elems(s)
    BY <1>1 DEF Elems
  <2>3. Elems(s) = {s[i] : i \in 1..Len(s)} /\ Elems(t) = {t[i] : i \in 1..Len(t)}
    BY <1>1, <1>2 DEF Elems
  <2> QED BY <2>1, <2>2, <2>3, <1>4
<1> QED BY <1>1, <1>3, <1>4, <1>5, <1>6 DEF t

LEMMA AppendFacts ==
  ASSUME NEW S, NEW s \in Seq(S), NEW x \in S, Distinct(s), x \notin Elems(s)
  PROVE  /\ Append(s, x) \in Seq(S) /\ Distinct(Append(s, x))
         /\ Elems(Append(s, x)) = Elems(s) \union {x}
<1> DEFINE t == Append(s, x)
<1>1. /\ Len(s) \in Nat /\ DOMAIN s = 1..Len(s) /\ t \in Seq(S)
      /\ Len(t) = Len(s) + 1 /\ DOMAIN t = 1..(Len(s) + 1)
      /\ \A i \in 1..Len(s) : t[i] = s[i]
      /\ t[Len(s) + 1] = x
  OBVIOUS
<1> HIDE DEF t
<1>2. \A i \in DOMAIN s : s[i] # x
  BY DEF Elems
<1>3. Distinct(t)
  <2> SUFFICES ASSUME NEW i \in DOMAIN t, NEW j \in DOMAIN t, t[i] = t[j] PROVE i = j
    BY DEF Distinct
  <2>1. (i \in DOMAIN s /\ t[i] = s[i]) \/ (i = Len(s) + 1 /\ t[i] = x)
    BY <1>1
  <2>2. (j \in DOMAIN s /\ t[j] = s[j]) \/ (j = Len(s) + 1 /\ t[j] = x)
    BY <1>1
  <2> QED BY <2>1, <2>2, <1>2 DEF Distinct
<1>4. Elems(t) = Elems(s) \union {x}
  <2>1. \A i \in DOMAIN t : t[i] \in Elems(s) \union {x}
    BY <1>1 DEF Elems
  <2>2. \A i \in DOMAIN s : i \in DOMAIN t /\ t[i] = s[i]
    BY <1>1
  <2>3. Len(s) + 1 \in DOMAIN t
    BY <1>1
  <2> QED BY <2>1, <2>2, <2>3, <1>1 DEF Elems
<1> QED BY <1>1, <1>3, <1>4 DEF t

LEMMA PushFacts ==
  ASSUME NEW S, NEW s \in Seq(S), NEW x \in S, Distinct(s), x \notin Elems(s)
  PROVE  /\ <<x>> \o s \in Seq(S) /\ Distinct(<<x>> \o s)
         /\ Elems(<<x>> \o s) = {x} \union Elems(s)
<1> DEFINE t == <<x>> \o s
<1>1. /\ Len(s) \in Nat /\ DOMAIN s = 1..Len(s) /\ t \in Seq(S)
      /\ Len(t) = Len(s) + 1 /\ DOMAIN t = 1..(Len(s) + 1)
      /\ \A i \in 1..Len(s) : t[i + 1] = s[i]
      /\ t[1] = x
  OBVIOUS
<1> HIDE DEF t
<1>2. \A i \in DOMAIN s : s[i] # x
  BY DEF Elems
<1>3. \A i \in DOMAIN t : (i = 1 /\ t[i] = x) \/ (i - 1 \in DOMAIN s /\ t[i] = s[i - 1])
  <2> SUFFICES ASSUME NEW i \in DOMAIN t, i # 1
               PROVE  i - 1 \in DOMAIN s /\ t[i] = s[i - 1]
    BY <1>1
  <2>1. i - 1 \in 1..Len(s) /\ (i - 1) + 1 = i
    BY <1>1
  <2> QED BY <2>1, <1>1
<1>4. Distinct(t)
  <2> SUFFICES ASSUME NEW i \in DOMAIN t, NEW j \in DOMAIN t, t[i] = t[j] PROVE i = j
    BY DEF Distinct
  <2>1. CASE i - 1 \in DOMAIN s /\ j - 1 \in DOMAIN s /\ t[i] = s[i - 1] /\ t[j] = s[j - 1]
    <3>1. i - 1 = j - 1
      BY <2>1 DEF Distinct
    <3> QED BY <3>1, <1>1
  <2> QED BY <2>1, <1>2, <1>3
<1>5. Elems(t) = {x} \union Elems(s)
  <2>1. \A i \in DOMAIN t : t[i] \in {x} \union Elems(s)
    BY <1>3 DEF Elems
  <2>2. \A i \in DOMAIN s : i + 1 \in DOMAIN t /\ t[i + 1] = s[i]
    BY <1>1
  <2>3. 1 \in DOMAIN t
    BY <1>1
  <2> QED BY <2>1, <2>2, <2>3, <1>1 DEF Elems
<1> QED BY <1>1, <1>4, <1>5 DEF t

---------------------------------------------------------------------------
(* The router: the least load key, and what it says.                       *)

LEMMA LeastNat ==
  ASSUME NEW T, T \subseteq Nat, T # {}
  PROVE  \E n \in T : \A m \in T : n <= m
<1>1. PICK n \in T : \A m \in T : <<m, n>> \notin OpToRel(<, Nat)
  BY NatLessThanWellFounded, WFMin, Zenon
<1>2. \A m \in T : m \in Nat /\ n \in Nat /\ ~ (m < n)
  BY <1>1, Zenon DEF OpToRel
<1> QED BY <1>2

LEMMA LeastBy ==
  ASSUME NEW S, S # {}, NEW f, \A x \in S : f[x] \in Nat
  PROVE  \E x \in S : \A y \in S : f[x] <= f[y]
<1>1. PICK n \in {f[x] : x \in S} : \A m \in {f[x] : x \in S} : n <= m
  <2>1. {f[x] : x \in S} \subseteq Nat /\ {f[x] : x \in S} # {}
    OBVIOUS
  <2> QED BY <2>1, LeastNat
<1> QED BY <1>1

LEMMA PrecedesFacts ==
  ASSUME NEW k, NEW o, DOMAIN k = 1..5
  PROVE  Precedes(k, o) <=>
           \/ k[1] < o[1]
           \/ k[1] = o[1] /\ k[2] < o[2]
           \/ k[1] = o[1] /\ k[2] = o[2] /\ k[3] < o[3]
           \/ k[1] = o[1] /\ k[2] = o[2] /\ k[3] = o[3] /\ k[4] < o[4]
           \/ k[1] = o[1] /\ k[2] = o[2] /\ k[3] = o[3] /\ k[4] = o[4] /\ k[5] < o[5]
<1>1. Precedes(k, o) <=>
        \E i \in 1..5 : k[i] < o[i] /\ \A j \in 1..(i - 1) : k[j] = o[j]
  BY DEF Precedes
<1>2. 1..5 = {1, 2, 3, 4, 5}
  OBVIOUS
<1>3. /\ 1..(1 - 1) = {} /\ 1..(2 - 1) = {1} /\ 1..(3 - 1) = {1, 2}
      /\ 1..(4 - 1) = {1, 2, 3} /\ 1..(5 - 1) = {1, 2, 3, 4}
  OBVIOUS
<1> DEFINE Less(i) == k[i] < o[i] /\ \A j \in 1..(i - 1) : k[j] = o[j]
<1>4. (\E i \in 1..5 : Less(i)) <=> Less(1) \/ Less(2) \/ Less(3) \/ Less(4) \/ Less(5)
  <2> HIDE DEF Less
  <2> QED BY <1>2
<1>5. Less(1) <=> k[1] < o[1]
  BY <1>3
<1>6. Less(2) <=> k[1] = o[1] /\ k[2] < o[2]
  BY <1>3
<1>7. Less(3) <=> k[1] = o[1] /\ k[2] = o[2] /\ k[3] < o[3]
  BY <1>3
<1>8. Less(4) <=> k[1] = o[1] /\ k[2] = o[2] /\ k[3] = o[3] /\ k[4] < o[4]
  BY <1>3
<1>9. Less(5) <=> k[1] = o[1] /\ k[2] = o[2] /\ k[3] = o[3] /\ k[4] = o[4] /\ k[5] < o[5]
  BY <1>3
<1>10. Precedes(k, o) <=> \E i \in 1..5 : Less(i)
  BY <1>1
<1> HIDE DEF Less
<1> QED BY <1>4, <1>5, <1>6, <1>7, <1>8, <1>9, <1>10

LEMMA ConstantFacts ==
  /\ NumReplicas \in Nat \ {0} /\ NumRequests \in Nat /\ MaxFaults \in Nat
  /\ BlockSize \in Nat \ {0} /\ TotalBlocks \in Nat
  /\ \A q \in Request : /\ q \in Nat /\ q > 0 /\ q <= NumRequests
                        /\ Prompt[q] \in Nat \ {0} /\ Limit[q] \in Nat \ {0}
BY ReplicasAssumption DEF Request

LEMMA ImageFinite ==
  ASSUME NEW S, IsFiniteSet(S), NEW f
  PROVE  IsFiniteSet({f[x] : x \in S})
<1> DEFINE T == {f[x] : x \in S}
           g == [x \in S |-> f[x]]
<1>1. g \in Surjection(S, T)
  BY DEF Surjection
<1> HIDE DEF T, g
<1>2. IsFiniteSet(T)
  BY <1>1, FS_Surjection
<1> QED BY <1>2 DEF T

(* Requests that are running hold blocks, finitely many.                   *)
LEMMA BlocksFacts ==
  ASSUME NEW S, S \subseteq Request, NEW t, \A q \in S : t[q] \in Nat
  PROVE  /\ Cardinality(BlocksOf(S, t)) \in Nat
         /\ Cardinality(BlocksOf(S, t)) = 0 <=> S = {}
<1> DEFINE firsts == {<<PrefixGroup[q], 1>> : q \in S}
           Others(q) == {q} \X (2..CeilDiv(Prompt[q] + t[q] - 1, BlockSize))
<1>1. IsFiniteSet(S)
  <2>1. IsFiniteSet(Request)
    BY ConstantFacts, FS_Interval DEF Request
  <2> QED BY <2>1, FS_Subset
<1>2. IsFiniteSet(firsts)
  <2> DEFINE f == [q \in S |-> <<PrefixGroup[q], 1>>]
  <2>1. IsFiniteSet({f[q] : q \in S})
    BY <1>1, ImageFinite
  <2>2. {f[q] : q \in S} = firsts
    OBVIOUS
  <2> QED BY <2>1, <2>2
<1>3. ASSUME NEW q \in S PROVE IsFiniteSet(Others(q))
  <2>1. /\ Prompt[q] + t[q] - 1 + BlockSize - 1 \in Int
        /\ BlockSize \in Nat \ {0}
    BY ConstantFacts
  <2>2. CeilDiv(Prompt[q] + t[q] - 1, BlockSize) \in Int
    BY <2>1 DEF CeilDiv
  <2>3. IsFiniteSet(2..CeilDiv(Prompt[q] + t[q] - 1, BlockSize))
    BY <2>2, FS_Interval
  <2> QED BY <2>3, FS_Singleton, FS_Product
<1>4. IsFiniteSet({Others(q) : q \in S})
  <2> DEFINE f == [q \in S |-> Others(q)]
  <2>1. IsFiniteSet({f[q] : q \in S})
    <3> HIDE DEF f
    <3> QED BY <1>1, ImageFinite
  <2>2. {f[q] : q \in S} = {Others(q) : q \in S}
    OBVIOUS
  <2> QED BY <2>1, <2>2
<1>5. IsFiniteSet(UNION {Others(q) : q \in S})
  <2> HIDE DEF Others
  <2> QED BY <1>3, <1>4, FS_UNION
<1>6. BlocksOf(S, t) = firsts \union UNION {Others(q) : q \in S}
  BY DEF BlocksOf
<1>7. BlocksOf(S, t) = {} <=> S = {}
  <2>1. ASSUME NEW q \in S PROVE <<PrefixGroup[q], 1>> \in BlocksOf(S, t)
    BY <1>6
  <2>2. S = {} => firsts = {} /\ UNION {Others(q) : q \in S} = {}
    OBVIOUS
  <2> QED BY <2>1, <2>2, <1>6
<1>8. IsFiniteSet(BlocksOf(S, t))
  <2> HIDE DEF firsts, Others
  <2> QED BY <1>2, <1>5, <1>6, FS_Union
<1> QED BY <1>7, <1>8, FS_EmptySet, FS_CardinalityType

LEMMA EngineTypes ==
  ASSUME Types, NEW r \in Replica
  PROVE  /\ engine[r].waiting \in Seq(Request) /\ engine[r].running \in SUBSET Request
         /\ engine[r].added \in Seq(Request) /\ engine[r].cached \in SUBSET Group
         /\ \A q \in engine[r].running : emitted[q] \in Nat
BY DEF Types, Engine

(* What a snapshot shows of an idle and of a busy replica.                 *)
LEMMA SnapshotFacts ==
  ASSUME Types, NEW r \in Replica, NEW q \in Request, NEW s, s = Snapshot(r, q)
  PROVE  /\ s.id = r /\ s.waiting \in Nat /\ s.used \in Nat /\ s.running \in Nat
         /\ s.matched \in {0, 1} /\ s.active \in {0, 1} /\ s.free = TotalBlocks - s.used
         /\ ~ Busy(r) => s.waiting = 0 /\ s.used = 0 /\ s.running = 0
         /\ Busy(r) => s.waiting > 0 \/ s.used > 0
         /\ s.used = 0 => s.active = 0
<1> DEFINE e == engine[r]
<1>1. e.waiting \in Seq(Request) /\ e.running \subseteq Request
      /\ \A p \in e.running : emitted[p] \in Nat
  BY EngineTypes
<1>2. IsFiniteSet(Request)
  BY ConstantFacts, FS_Interval DEF Request
<1>3. Cardinality(e.running) \in Nat /\ (e.running = {} => Cardinality(e.running) = 0)
  BY <1>1, <1>2, FS_Subset, FS_CardinalityType, FS_EmptySet
<1>4. Used(r) \in Nat /\ (Used(r) = 0 <=> e.running = {})
  BY <1>1, BlocksFacts DEF Used
<1>5. Len(e.waiting) \in Nat /\ (Len(e.waiting) = 0 <=> e.waiting = << >>)
  BY <1>1
<1>6. /\ s.id = r /\ s.waiting = Len(e.waiting) /\ s.used = Used(r)
      /\ s.running = Cardinality(e.running) /\ s.free = TotalBlocks - Used(r)
      /\ s.matched \in {0, 1} /\ s.active \in {0, 1}
      /\ e.running = {} => s.active = 0
  BY DEF Snapshot
<1> QED BY <1>3, <1>4, <1>5, <1>6 DEF Busy

LEMMA KeyFacts ==
  ASSUME NEW s, s.matched \in {0, 1}, router \in Routers
  PROVE  LET k == LoadKey(s)
         IN  /\ DOMAIN k = 1..5 /\ k[1] \in {- 1, 0}
             /\ k[2] = s.waiting /\ k[3] = s.used /\ k[4] = s.running /\ k[5] = s.id
             /\ router = "resource_aware" => k[1] = 0
BY DEF LoadKey

(* min(candidates, key = load_key) has one answer.                         *)
LEMMA LeastLoad ==
  ASSUME Types, NEW q \in Request, NEW C,
         C \subseteq {Snapshot(r, q) : r \in Replica}, C # {}
  PROVE  \E s \in C : \A t \in C \ {s} : Precedes(LoadKey(s), LoadKey(t))
<1> DEFINE K(s, i) == LoadKey(s)[i]
           Best(S, i) == {s \in S : \A t \in S : K(s, i) <= K(t, i)}
<1>1. ASSUME NEW s \in C
      PROVE  /\ K(s, 1) \in {- 1, 0} /\ DOMAIN LoadKey(s) = 1..5
             /\ K(s, 2) \in Nat /\ K(s, 3) \in Nat /\ K(s, 4) \in Nat /\ K(s, 5) \in Nat
             /\ K(s, 5) = s.id
  <2>1. PICK r \in Replica : s = Snapshot(r, q)
    OBVIOUS
  <2>2. r \in Nat
    BY DEF Replica
  <2>3. /\ s.id = r /\ s.waiting \in Nat /\ s.used \in Nat /\ s.running \in Nat
        /\ s.matched \in {0, 1}
    BY <2>1, SnapshotFacts
  <2>4. router \in Routers
    BY DEF Types
  <2> QED BY <2>2, <2>3, <2>4, KeyFacts
<1>2. ASSUME NEW s \in C, NEW t \in C, s # t PROVE K(s, 5) # K(t, 5)
  <2>1. PICK r \in Replica : s = Snapshot(r, q)
    OBVIOUS
  <2>2. PICK p \in Replica : t = Snapshot(p, q)
    OBVIOUS
  <2>3. s.id = r /\ t.id = p
    BY <2>1, <2>2, SnapshotFacts
  <2> QED BY <2>1, <2>2, <2>3, <1>1, <1>2
<1> HIDE DEF K
<1>3. Best(C, 1) # {}
  <2> DEFINE f == [s \in C |-> K(s, 1) + 1]
  <2>1. \A s \in C : f[s] \in Nat
    BY <1>1
  <2>2. PICK s \in C : \A t \in C : f[s] <= f[t]
    <3> HIDE DEF f
    <3> QED BY <2>1, LeastBy
  <2>3. \A t \in C : K(s, 1) + 1 <= K(t, 1) + 1
    BY <2>2
  <2>4. \A t \in C : K(s, 1) <= K(t, 1)
    BY <2>3, <1>1
  <2> QED BY <2>4
<1>4. ASSUME NEW S, S \subseteq C, S # {}, NEW i \in {2, 3, 4, 5} PROVE Best(S, i) # {}
  <2> DEFINE f == [s \in S |-> K(s, i)]
  <2>1. \A s \in S : f[s] \in Nat
    <3> SUFFICES ASSUME NEW s \in S PROVE K(s, i) \in Nat
      OBVIOUS
    <3> QED BY <1>1, <1>4
  <2>2. PICK s \in S : \A t \in S : f[s] <= f[t]
    <3> HIDE DEF f
    <3> QED BY <2>1, <1>4, LeastBy
  <2> QED BY <2>2
<1> DEFINE C1 == Best(C, 1)
           C2 == Best(C1, 2)
           C3 == Best(C2, 3)
           C4 == Best(C3, 4)
           C5 == Best(C4, 5)
<1>5. C1 \subseteq C /\ C2 \subseteq C1 /\ C3 \subseteq C2 /\ C4 \subseteq C3 /\ C5 \subseteq C4
  OBVIOUS
<1>6. ASSUME NEW S, NEW i, NEW s \in Best(S, i), NEW t \in S PROVE K(s, i) <= K(t, i)
  OBVIOUS
<1>7. ASSUME NEW S, NEW i, NEW s \in Best(S, i), NEW t \in S, t \notin Best(S, i), S \subseteq C,
             i \in 1..5
      PROVE  K(s, i) < K(t, i)
  <2>1. PICK u \in S : ~ (K(t, i) <= K(u, i))
    BY <1>7
  <2>2. K(s, i) <= K(u, i)
    BY <2>1
  <2>3. s \in C /\ t \in C /\ u \in C
    BY <1>7
  <2>4. K(s, i) \in Int /\ K(t, i) \in Int /\ K(u, i) \in Int
    BY <2>3, <1>1, <1>7
  <2> QED BY <2>1, <2>2, <2>4
<1>8. ASSUME NEW S, NEW i, NEW s \in Best(S, i), NEW t \in Best(S, i), S \subseteq C, i \in 1..5
      PROVE  K(s, i) = K(t, i)
  <2>1. K(s, i) <= K(t, i) /\ K(t, i) <= K(s, i)
    OBVIOUS
  <2>2. s \in C /\ t \in C
    BY <1>8
  <2>3. K(s, i) \in Int /\ K(t, i) \in Int
    BY <2>2, <1>1, <1>8
  <2> QED BY <2>1, <2>3
<1>9. C1 # {} BY <1>3
<1> HIDE DEF Best
<1>10. C5 # {}
  <2> HIDE DEF C1
  <2>1. C2 # {} BY <1>4, <1>5, <1>9
  <2> HIDE DEF C2
  <2>2. C3 # {} BY <2>1, <1>4, <1>5
  <2> HIDE DEF C3
  <2>3. C4 # {} BY <2>2, <1>4, <1>5
  <2> HIDE DEF C4
  <2> QED BY <2>3, <1>4, <1>5
<1>11. PICK s \in C5 : TRUE
  BY <1>10
<1>12. s \in C /\ s \in C1 /\ s \in C2 /\ s \in C3 /\ s \in C4
  BY <1>5
<1>13. ASSUME NEW t \in C, t # s PROVE Precedes(LoadKey(s), LoadKey(t))
  <2>1. \/ t \notin C1 /\ K(s, 1) < K(t, 1)
        \/ t \in C1 /\ K(s, 1) = K(t, 1)
    BY <1>5, <1>7, <1>8, <1>12
  <2>2. t \in C1 => \/ t \notin C2 /\ K(s, 2) < K(t, 2)
                    \/ t \in C2 /\ K(s, 2) = K(t, 2)
    BY <1>5, <1>7, <1>8, <1>12
  <2>3. t \in C2 => \/ t \notin C3 /\ K(s, 3) < K(t, 3)
                    \/ t \in C3 /\ K(s, 3) = K(t, 3)
    BY <1>5, <1>7, <1>8, <1>12
  <2>4. t \in C3 => \/ t \notin C4 /\ K(s, 4) < K(t, 4)
                    \/ t \in C4 /\ K(s, 4) = K(t, 4)
    BY <1>5, <1>7, <1>8, <1>12
  <2>5. t \in C4 => K(s, 5) < K(t, 5)
    <3>1. t \in C4 => K(s, 5) <= K(t, 5)
      BY <1>6
    <3>2. K(s, 5) # K(t, 5) /\ K(s, 5) \in Nat /\ K(t, 5) \in Nat
      BY <1>1, <1>2, <1>12, <1>13
    <3> QED BY <3>1, <3>2
  <2>6. DOMAIN LoadKey(s) = 1..5
    BY <1>1, <1>12
  <2> HIDE DEF C1, C2, C3, C4, C5
  <2> QED BY <2>1, <2>2, <2>3, <2>4, <2>5, <2>6, PrecedesFacts DEF K
<1> QED BY <1>12, <1>13

(* The replica a request goes to; resource_aware sends it to a busy one    *)
(* only when all are.                                                      *)
LEMMA TargetFacts ==
  ASSUME Types, NEW q \in Request
  PROVE  /\ Target(q) \in Replica
         /\ router = "resource_aware" /\ Busy(Target(q)) => \A r \in Replica : Busy(r)
<1>1. CASE router = "round_robin"
  BY <1>1 DEF Types, Target
<1>2. CASE router # "round_robin"
  <2> DEFINE snapshots == {Snapshot(r, q) : r \in Replica}
             feasible == {s \in snapshots : s.free + s.active >= Estimated(q)}
             candidates == IF feasible = {} THEN snapshots ELSE feasible
             Least(s) == \A t \in candidates \ {s} : Precedes(LoadKey(s), LoadKey(t))
             best == CHOOSE s \in candidates : Least(s)
  <2>1. candidates \subseteq snapshots /\ candidates # {}
    <3>1. 1 \in Replica
      BY ConstantFacts DEF Replica
    <3> QED BY <3>1
  <2>2. best \in candidates /\ Least(best)
    <3>1. \E s \in candidates : Least(s)
      <4> HIDE DEF candidates
      <4> QED BY <2>1, LeastLoad
    <3> HIDE DEF candidates, Least
    <3> QED BY <3>1
  <2>3. Target(q) = best.id
    BY <1>2 DEF Target, ResourceAware
  <2> HIDE DEF best
  <2>4. PICK r \in Replica : best = Snapshot(r, q)
    BY <2>1, <2>2
  <2>5. Target(q) = r
    BY <2>3, <2>4, SnapshotFacts
  <2>6. ASSUME router = "resource_aware", Busy(r), NEW p \in Replica, ~ Busy(p) PROVE FALSE
    <3> DEFINE idle == Snapshot(p, q)
    <3>1. /\ idle.id = p /\ idle.waiting = 0 /\ idle.used = 0 /\ idle.running = 0
          /\ idle.active = 0 /\ idle.free = TotalBlocks /\ idle.matched \in {0, 1}
      <4>1. TotalBlocks - 0 = TotalBlocks
        BY ConstantFacts
      <4> HIDE DEF idle
      <4> QED BY <2>6, <4>1, SnapshotFacts DEF idle
    <3>2. /\ best.id = r /\ best.waiting \in Nat /\ best.used \in Nat /\ best.running \in Nat
          /\ best.waiting > 0 \/ best.used > 0
          /\ best.free = TotalBlocks - best.used /\ best.active \in {0, 1}
          /\ best.used = 0 => best.active = 0
          /\ best.matched \in {0, 1}
      BY <2>4, <2>6, SnapshotFacts
    <3>3. idle \in candidates
      <4>1. idle \in snapshots
        OBVIOUS
      <4>2. ASSUME best.free + best.active >= Estimated(q), Estimated(q) \in Int
            PROVE  idle.free + idle.active >= Estimated(q)
        <5>1. best.free + best.active <= TotalBlocks
          BY <3>2, ConstantFacts
        <5> QED BY <5>1, <4>2, <3>1, <3>2, ConstantFacts
      <4>3. Estimated(q) \in Int
        <5>1. Prompt[q] + Limit[q] - 1 + BlockSize - 1 \in Int /\ BlockSize \in Nat \ {0}
          BY ConstantFacts
        <5> QED BY <5>1 DEF Estimated, CeilDiv
      <4>4. feasible # {} => best \in feasible
        BY <2>2
      <4> HIDE DEF idle
      <4> QED BY <4>1, <4>2, <4>3, <4>4
    <3>4. idle # best
      BY <3>1, <3>2
    <3>5. Precedes(LoadKey(best), LoadKey(idle))
      <4> HIDE DEF candidates, idle
      <4> QED BY <2>2, <3>3, <3>4
    <3>6. /\ DOMAIN LoadKey(best) = 1..5
          /\ LoadKey(best)[1] = 0 /\ LoadKey(best)[2] = best.waiting
          /\ LoadKey(best)[3] = best.used
      <4>1. router \in Routers BY DEF Types
      <4> QED BY <2>6, <3>2, <4>1, KeyFacts
    <3>7. /\ LoadKey(idle)[1] = 0 /\ LoadKey(idle)[2] = 0 /\ LoadKey(idle)[3] = 0
      <4>1. router \in Routers BY DEF Types
      <4> HIDE DEF idle
      <4> QED BY <2>6, <3>1, <4>1, KeyFacts
    <3> HIDE DEF idle
    <3> QED BY <3>2, <3>5, <3>6, <3>7, PrecedesFacts
  <2> QED BY <2>5, <2>6
<1> QED BY <1>1, <1>2

---------------------------------------------------------------------------
(* The invariant holds initially and is kept by every action.              *)

LEMMA InitInv == Init => ReplicasInv
<1> SUFFICES ASSUME Init PROVE ReplicasInv
  OBVIOUS
<1> USE DEF Init
<1>1. Types
  <2>1. engine \in [Replica -> Engine]
    BY DEF Engine
  <2>2. answer \in [Replica -> Answer]
    BY DEF Answer, Silent
  <2>3. record \in [Request -> [tokens : Nat, terminal : Terminal]]
    BY DEF Terminal
  <2>4. cursor \in Replica
    BY ConstantFacts DEF Replica
  <2>5. routed \in 0..NumRequests /\ due \in routed..NumRequests /\ faults \in 0..MaxFaults
    BY ConstantFacts
  <2>6. /\ emitted \in [Request -> Nat] /\ router \in Routers
        /\ process \in [Replica -> {"absent", "up", "dead", "closed"}]
        /\ loop \in Places /\ cause \in {None, "runner_error", "timeout"}
        /\ final \subseteq Replica
    BY DEF Places
  <2> QED BY <2>1, <2>2, <2>3, <2>4, <2>5, <2>6 DEF Types
<1>2. \A r \in Replica :
        /\ engine[r].waiting = << >> /\ engine[r].added = << >> /\ engine[r].running = {}
        /\ answer[r].state = "silent" /\ answer[r].events = {}
  BY DEF Silent
<1>3. Elems(<< >>) = {} /\ DOMAIN << >> = {}
  BY DEF Elems
<1>4. Placed
  BY <1>2, <1>3 DEF Placed, Distinct
<1>5. Queued
  BY <1>2, <1>3 DEF Queued, Distinct
<1>6. Events
  BY <1>2 DEF Events
<1>7. Counted
  <2>1. \A q \in Request : ~ Awaited(q)
    BY <1>2 DEF Awaited
  <2>2. \A q \in Request : /\ emitted[q] = 0 /\ record[q].tokens = 0
                           /\ record[q].terminal = None
    OBVIOUS
  <2>3. \A q \in Request : Limit[q] \in Nat \ {0}
    BY ConstantFacts
  <2> QED BY <2>1, <2>2, <2>3 DEF Counted, None
<1>8. Rounds /\ Closing
  BY <1>2 DEF Rounds, Closing
<1> QED BY <1>1, <1>4, <1>5, <1>6, <1>7, <1>8 DEF ReplicasInv

(* A step that leaves the requests, the answers and the records alone.     *)
LEMMA RestInv ==
  ASSUME ReplicasInv, UNCHANGED <<engine, emitted, answer, owner, routed, record>>
  PROVE  Placed' /\ Queued' /\ Events' /\ Counted'
<1>1. Placed'
  BY DEF ReplicasInv, Placed
<1>2. Queued'
  BY DEF ReplicasInv, Queued
<1>3. Events'
  BY DEF ReplicasInv, Events
<1>4. Counted'
  <2>1. \A q \in Request : Awaited(q)' <=> Awaited(q)
    BY DEF Awaited
  <2> QED BY <2>1 DEF ReplicasInv, Counted
<1> QED BY <1>1, <1>2, <1>3, <1>4

LEMMA FaultFacts ==
  ASSUME faults \in 0..MaxFaults, faults < MaxFaults
  PROVE  faults + 1 \in 0..MaxFaults
BY ConstantFacts

LEMMA LaunchInv == ASSUME ReplicasInv, Launch PROVE ReplicasInv'
<1> USE DEF Launch, choice, arrivals, ending
<1>1. Placed' /\ Queued' /\ Events' /\ Counted'
  BY RestInv
<1>2. Types'
  <2>1. process' \in [Replica -> {"absent", "up", "dead", "closed"}]
    OBVIOUS
  <2>2. faults' \in 0..MaxFaults
    BY FaultFacts DEF ReplicasInv, Types
  <2>3. loop' \in Places
    BY DEF Places
  <2> QED BY <2>1, <2>2, <2>3 DEF ReplicasInv, Types
<1>3. Rounds'
  <2>1. cause = None
    BY DEF ReplicasInv, Rounds, Ends
  <2>2. \A r \in Replica : answer[r].state = "silent"
    BY <2>1 DEF ReplicasInv, Rounds, None
  <2> QED BY <2>1, <2>2 DEF Rounds
<1>4. Closing'
  BY DEF Closing
<1> QED BY <1>1, <1>2, <1>3, <1>4 DEF ReplicasInv

(* What the places in the loop say.                                        *)
LEMMA InLoopFacts ==
  ASSUME ReplicasInv, loop \notin Ends
  PROVE  /\ cause = None
         /\ loop # "stepping" => \A r \in Replica : answer[r].state = "silent"
BY DEF ReplicasInv, Rounds, None

LEMMA TurnInv == ASSUME ReplicasInv, Turn PROVE ReplicasInv'
<1> USE DEF Turn, choice, fleet, ending
<1>1. Placed' /\ Queued' /\ Events' /\ Counted'
  BY RestInv
<1>2. loop \notin Ends /\ loop # "stepping"
  BY DEF Ends
<1>3. Types'
  <2>1. routed \in Nat /\ routed <= NumRequests /\ due \in routed..NumRequests
    BY ConstantFacts DEF ReplicasInv, Types
  <2>2. due' \in routed'..NumRequests
    BY <2>1, ConstantFacts
  <2>3. loop' \in Places
    BY DEF Places
  <2> QED BY <2>2, <2>3 DEF ReplicasInv, Types
<1>4. Rounds' /\ Closing'
  BY <1>2, InLoopFacts DEF Rounds, Closing
<1> QED BY <1>1, <1>3, <1>4 DEF ReplicasInv

LEMMA TimeOutInv == ASSUME ReplicasInv, TimeOut PROVE ReplicasInv'
<1> USE DEF TimeOut, choice, fleet, arrivals, ending
<1>1. Placed' /\ Queued' /\ Events' /\ Counted'
  BY RestInv
<1>2. loop \notin Ends /\ loop # "stepping"
  BY DEF Ends
<1>3. Types'
  BY DEF ReplicasInv, Types, Places
<1>4. Rounds' /\ Closing'
  BY <1>2, InLoopFacts DEF Rounds, Closing, Ends
<1> QED BY <1>1, <1>3, <1>4 DEF ReplicasInv

LEMMA IdleInv == ASSUME ReplicasInv, Idle PROVE ReplicasInv'
<1> USE DEF Idle, choice, fleet, arrivals, ending
<1>1. Placed' /\ Queued' /\ Events' /\ Counted'
  BY RestInv
<1>2. loop \notin Ends /\ loop # "stepping"
  BY DEF Ends
<1>3. Types'
  BY DEF ReplicasInv, Types, Places
<1>4. Rounds' /\ Closing'
  BY <1>2, InLoopFacts DEF Rounds, Closing
<1> QED BY <1>1, <1>3, <1>4 DEF ReplicasInv

LEMMA DieInv == ASSUME ReplicasInv, NEW r \in Replica, Die(r) PROVE ReplicasInv'
<1> USE DEF Die, choice, arrivals, ending
<1>1. Placed' /\ Queued' /\ Events' /\ Counted'
  BY RestInv
<1>2. Types'
  <2>1. process' \in [Replica -> {"absent", "up", "dead", "closed"}]
    BY DEF ReplicasInv, Types
  <2>2. faults' \in 0..MaxFaults
    BY FaultFacts DEF ReplicasInv, Types
  <2> QED BY <2>1, <2>2 DEF ReplicasInv, Types
<1>3. Rounds' /\ Closing'
  BY DEF ReplicasInv, Rounds, Closing
<1> QED BY <1>1, <1>2, <1>3 DEF ReplicasInv

LEMMA CallFailsInv == ASSUME ReplicasInv, CallFails PROVE ReplicasInv'
<1> USE DEF CallFails, choice, fleet, arrivals, ending
<1>1. Placed' /\ Queued' /\ Events' /\ Counted'
  BY RestInv
<1>2. Types'
  <2>1. faults' \in 0..MaxFaults
    BY FaultFacts DEF ReplicasInv, Types
  <2> QED BY <2>1 DEF ReplicasInv, Types, Places
<1>3. Rounds' /\ Closing'
  BY DEF Rounds, Closing, Ends
<1> QED BY <1>1, <1>2, <1>3 DEF ReplicasInv

LEMMA CloseEndpointInv == ASSUME ReplicasInv, CloseEndpoint PROVE ReplicasInv'
<1> USE DEF CloseEndpoint, choice, arrivals, ending
<1>1. Placed' /\ Queued' /\ Events' /\ Counted'
  BY RestInv
<1>2. Types'
  BY DEF ReplicasInv, Types, Places
<1>3. Rounds' /\ Closing'
  BY DEF ReplicasInv, Rounds, Closing, Ends
<1> QED BY <1>1, <1>2, <1>3 DEF ReplicasInv

LEMMA ReturnInv == ASSUME ReplicasInv, Return PROVE ReplicasInv'
<1> USE DEF Return, choice, fleet, arrivals, ending
<1>1. Placed' /\ Queued' /\ Events' /\ Counted'
  BY RestInv
<1>2. Types'
  BY DEF ReplicasInv, Types, Places
<1>3. Rounds'
  BY DEF ReplicasInv, Rounds, Ends
<1>4. Closing'
  <2>1. ASSUME KvReleased, NEW r \in final PROVE engine[r].running = {}
    <3>1. Types /\ r \in Replica BY DEF ReplicasInv, Types
    <3> QED BY <2>1, <3>1, EngineTypes, BlocksFacts DEF KvReleased, Used
  <2> QED BY <2>1 DEF ReplicasInv, Closing
<1> QED BY <1>1, <1>2, <1>3, <1>4 DEF ReplicasInv

(* finally gives records a terminal state other than Finished.             *)
LEMMA CloseRecordsInv == ASSUME ReplicasInv, CloseRecords PROVE ReplicasInv'
<1> USE DEF CloseRecords, choice, fleet, arrivals, ending
<1>1. ASSUME NEW q \in Request
      PROVE  /\ record'[q] \in [tokens : Nat, terminal : Terminal]
             /\ record'[q].tokens = record[q].tokens
             /\ record'[q].terminal = "Finished" <=> record[q].terminal = "Finished"
  <2>1. record[q] \in [tokens : Nat, terminal : Terminal]
    BY DEF ReplicasInv, Types
  <2> QED BY <2>1 DEF Terminal, None
<1>2. Types'
  <2>1. record' \in [Request -> [tokens : Nat, terminal : Terminal]]
    <3>1. record' = [q \in Request |-> record'[q]]
      OBVIOUS
    <3> QED BY <3>1, <1>1
  <2>2. loop' \in Places
    BY DEF Places
  <2> QED BY <2>1, <2>2 DEF ReplicasInv, Types
<1>3. Placed' /\ Queued' /\ Events'
  <2>1. UNCHANGED <<engine, emitted, answer, owner, routed>>
    OBVIOUS
  <2>2. Placed' BY ONLY ReplicasInv, <2>1 DEF ReplicasInv, Placed
  <2>3. Queued' BY ONLY ReplicasInv, <2>1 DEF ReplicasInv, Queued
  <2>4. Events' BY ONLY ReplicasInv, <2>1 DEF ReplicasInv, Events
  <2> QED BY <2>2, <2>3, <2>4
<1>4. Counted'
  <2>1. \A q \in Request : Awaited(q)' <=> Awaited(q)
    BY DEF Awaited
  <2> QED BY <2>1, <1>1 DEF ReplicasInv, Counted
<1>5. Rounds'
  BY DEF ReplicasInv, Rounds, Ends
<1>6. Closing'
  <2>1. ASSUME loop' = "snapshots", NEW q \in Request PROVE record'[q].terminal # None
    <3>1. PICK arrived \in due..NumRequests :
            /\ record' = [p \in Request |->
                 IF record[p].terminal = None /\ p <= arrived
                 THEN [record[p] EXCEPT !.terminal =
                         IF cause = "runner_error" THEN "Failed" ELSE "Unfinished"]
                 ELSE record[p]]
            /\ loop' = IF arrived = NumRequests THEN "snapshots" ELSE "raised"
      OBVIOUS
    <3>2. q <= arrived
      BY <3>1, <2>1, ConstantFacts
    <3>3. record[q] \in [tokens : Nat, terminal : Terminal]
      BY DEF ReplicasInv, Types
    <3> QED BY <3>1, <3>2, <3>3 DEF None
  <2> QED BY <2>1 DEF Closing
<1> QED BY <1>2, <1>3, <1>4, <1>5, <1>6 DEF ReplicasInv

LEMMA FinalSnapshotsInv == ASSUME ReplicasInv, FinalSnapshots PROVE ReplicasInv'
<1> USE DEF FinalSnapshots, choice, fleet, arrivals
<1>1. Placed' /\ Queued' /\ Events' /\ Counted'
  BY RestInv
<1>2. Types'
  <2>1. faults' \in 0..MaxFaults
    BY FaultFacts DEF ReplicasInv, Types
  <2>2. final' \subseteq Replica
    OBVIOUS
  <2> QED BY <2>1, <2>2 DEF ReplicasInv, Types, Places
<1>3. Rounds' /\ Closing'
  BY DEF ReplicasInv, Rounds, Closing, Ends
<1> QED BY <1>1, <1>2, <1>3 DEF ReplicasInv

LEMMA StartStepInv == ASSUME ReplicasInv, StartStep PROVE ReplicasInv'
<1> USE DEF StartStep, choice, fleet, arrivals, ending
<1>1. cause = None /\ \A r \in Replica : answer[r].state = "silent"
  BY InLoopFacts DEF Ends
<1>2. \A r \in Replica : answer[r].events = {}
  BY <1>1 DEF ReplicasInv, Events
<1>3. ASSUME NEW r \in Replica
      PROVE  /\ answer'[r] \in Answer /\ answer'[r].events = {}
             /\ answer'[r].state # "answered"
  BY DEF Silent, Answer
<1>4. Types'
  <2>1. answer' \in [Replica -> Answer]
    <3>1. answer' = [r \in Replica |-> answer'[r]]
      OBVIOUS
    <3> QED BY <3>1, <1>3
  <2> QED BY <2>1 DEF ReplicasInv, Types, Places
<1>5. Placed' /\ Queued'
  BY DEF ReplicasInv, Placed, Queued
<1>6. Events'
  BY <1>3 DEF Events
<1>7. Counted'
  <2>1. \A q \in Request : ~ Awaited(q)' /\ ~ Awaited(q)
    BY <1>2, <1>3 DEF Awaited
  <2> QED BY <2>1 DEF ReplicasInv, Counted
<1>8. Rounds' /\ Closing'
  BY <1>1 DEF Rounds, Closing
<1> QED BY <1>4, <1>5, <1>6, <1>7, <1>8 DEF ReplicasInv

(* route_request and add: the next request goes to the end of one queue.   *)
LEMMA RouteInv == ASSUME ReplicasInv, Route PROVE ReplicasInv'
<1> DEFINE q == routed + 1
           r == Target(q)
           key == <<r, Len(engine[r].added) + 1>>
<1>1. /\ loop = "route" /\ routed < due
      /\ engine' = [engine EXCEPT ![r].waiting = Append(@, q), ![r].added = Append(@, q)]
      /\ owner' = [k \in DOMAIN owner \union {key} |-> IF k = key THEN q ELSE owner[k]]
      /\ cursor' = IF router = "round_robin" THEN NextCursor ELSE cursor
      /\ routed' = routed + 1
      /\ UNCHANGED <<router, emitted, process, answer, due, record, loop, cause, final, faults>>
  BY DEF Route, ending
<1>2. /\ Types /\ Placed /\ Queued /\ Events /\ Counted /\ Rounds /\ Closing
  BY DEF ReplicasInv
<1>3. /\ q \in Request /\ q \in Nat /\ routed \in Nat /\ due \in Nat
      /\ q <= due /\ due <= NumRequests
  BY <1>1, <1>2, ConstantFacts DEF Types, Request
<1>4. r \in Replica
  <2> HIDE DEF q
  <2> QED BY <1>2, <1>3, TargetFacts
<1>5. cause = None /\ \A p \in Replica : answer[p].state = "silent" /\ answer[p].events = {}
  BY <1>1, <1>2, InLoopFacts DEF Ends, Events
<1>6. \A p \in Replica : q \notin Elems(engine[p].added)
  BY <1>2, <1>3 DEF Placed
<1>7. \A p \in Replica : q \notin Elems(engine[p].waiting) \union engine[p].running
  BY <1>2, <1>3, <1>6 DEF Queued
<1>8. emitted[q] = 0 /\ Limit[q] > 0
  <2>1. q > routed BY <1>3
  <2> QED BY <2>1, <1>2, <1>3, ConstantFacts DEF Counted
<1> HIDE DEF q, r
<1>9. /\ \A p \in Replica \ {r} : engine'[p] = engine[p]
      /\ engine'[r].waiting = Append(engine[r].waiting, q)
      /\ engine'[r].added = Append(engine[r].added, q)
      /\ engine'[r].running = engine[r].running /\ engine'[r].cached = engine[r].cached
  BY <1>1, <1>2, <1>4 DEF Types, Engine
<1>10. /\ engine[r].added \in Seq(Request) /\ engine[r].waiting \in Seq(Request)
       /\ Distinct(engine[r].added) /\ Distinct(engine[r].waiting)
  BY <1>2, <1>4, EngineTypes DEF Placed, Queued
<1>11. /\ engine'[r].waiting \in Seq(Request) /\ Distinct(engine'[r].waiting)
       /\ Elems(engine'[r].waiting) = Elems(engine[r].waiting) \union {q}
  BY <1>3, <1>4, <1>7, <1>9, <1>10, AppendFacts
<1>12. /\ engine'[r].added \in Seq(Request) /\ Distinct(engine'[r].added)
       /\ Elems(engine'[r].added) = Elems(engine[r].added) \union {q}
  BY <1>3, <1>4, <1>6, <1>9, <1>10, AppendFacts
<1>13. Types'
  <2>1. engine' \in [Replica -> Engine]
    <3>1. engine'[r] \in Engine
      <4>1. engine'[r] = [engine[r] EXCEPT !.waiting = Append(@, q), !.added = Append(@, q)]
        BY <1>1, <1>2, <1>4 DEF Types
      <4>2. engine[r] \in Engine
        BY <1>2, <1>4 DEF Types
      <4> QED BY <4>1, <4>2, <1>9, <1>11, <1>12 DEF Engine
    <3> QED BY <3>1, <1>1, <1>2, <1>4 DEF Types
  <2>2. cursor' \in Replica
    <3>1. cursor \in Nat /\ NumReplicas \in Nat \ {0}
      BY <1>2, ConstantFacts DEF Types, Replica
    <3>2. (cursor % NumReplicas) \in 0..(NumReplicas - 1)
      BY <3>1
    <3>3. NextCursor \in Replica
      BY <3>1, <3>2 DEF NextCursor, Replica
    <3> QED BY <3>3, <1>1, <1>2 DEF Types
  <2>3. routed' \in 0..NumRequests /\ due' \in routed'..NumRequests
    BY <1>1, <1>3, ConstantFacts DEF q
  <2> QED BY <2>1, <2>2, <2>3, <1>1, <1>2 DEF Types
<1>14. Placed'
  <2>1. ASSUME NEW p \in Replica
        PROVE  /\ Distinct(engine'[p].added)
               /\ Elems(engine'[p].added) \subseteq 1..routed'
               /\ \A i \in DOMAIN engine'[p].added :
                    <<p, i>> \in DOMAIN owner' /\ owner'[<<p, i>>] = engine'[p].added[i]
    <3>1. 1..routed \subseteq 1..routed' /\ q \in 1..routed'
      BY <1>1, <1>3 DEF q
    <3>2. CASE p # r
      <4>1. \A i : <<p, i>> # key
        BY <3>2
      <4>2. engine'[p] = engine[p]
        BY <3>2, <1>9
      <4>3. /\ Distinct(engine[p].added) /\ Elems(engine[p].added) \subseteq 1..routed
            /\ \A i \in DOMAIN engine[p].added :
                 <<p, i>> \in DOMAIN owner /\ owner[<<p, i>>] = engine[p].added[i]
        BY <1>2 DEF Placed
      <4> HIDE DEF key
      <4>4. \A k \in DOMAIN owner : k # key => k \in DOMAIN owner' /\ owner'[k] = owner[k]
        BY <1>1
      <4> QED BY <4>1, <4>2, <4>3, <4>4, <3>1, Zenon
    <3>3. CASE p = r
      <4>1. ASSUME NEW i \in DOMAIN engine'[r].added
            PROVE  <<r, i>> \in DOMAIN owner' /\ owner'[<<r, i>>] = engine'[r].added[i]
        <5>1. \/ i \in DOMAIN engine[r].added /\ engine'[r].added[i] = engine[r].added[i]
                 /\ i # Len(engine[r].added) + 1
              \/ i = Len(engine[r].added) + 1 /\ engine'[r].added[i] = q
          BY <1>9, <1>10
        <5>2. CASE i = Len(engine[r].added) + 1 /\ engine'[r].added[i] = q
          BY <5>2, <1>1
        <5>3. CASE i \in DOMAIN engine[r].added /\ engine'[r].added[i] = engine[r].added[i]
                   /\ i # Len(engine[r].added) + 1
          <6>1. <<r, i>> # key
            BY <5>3
          <6> HIDE DEF key
          <6> QED BY <6>1, <5>3, <1>1, <1>2, <1>4 DEF Placed
        <5> QED BY <5>1, <5>2, <5>3
      <4> QED BY <4>1, <3>1, <3>3, <1>2, <1>4, <1>12 DEF Placed
    <3> QED BY <3>2, <3>3
  <2>2. ASSUME NEW p \in Replica, NEW s \in Replica, p # s
        PROVE  Elems(engine'[p].added) \intersect Elems(engine'[s].added) = {}
    <3>1. Elems(engine[p].added) \intersect Elems(engine[s].added) = {}
      BY <2>2, <1>2 DEF Placed
    <3>2. CASE p # r /\ s # r BY <3>1, <3>2, <1>9
    <3>3. CASE p = r BY <2>2, <3>1, <3>3, <1>6, <1>9, <1>12
    <3>4. CASE s = r BY <2>2, <3>1, <3>4, <1>6, <1>9, <1>12
    <3> QED BY <3>2, <3>3, <3>4
  <2> QED BY <2>1, <2>2 DEF Placed
<1>15. Queued'
  <2> SUFFICES ASSUME NEW p \in Replica
      PROVE  /\ Distinct(engine'[p].waiting)
             /\ Elems(engine'[p].waiting) \intersect engine'[p].running = {}
             /\ \A x \in Request :
                  x \in Elems(engine'[p].waiting) \union engine'[p].running
                    <=> x \in Elems(engine'[p].added) /\ emitted[x] < Limit[x]
    BY <1>1 DEF Queued
  <2>1. CASE p # r BY <2>1, <1>2, <1>9 DEF Queued
  <2>2. CASE p = r
    BY <2>2, <1>2, <1>4, <1>7, <1>8, <1>9, <1>11, <1>12 DEF Queued
  <2> QED BY <2>1, <2>2
<1>16. Events'
  BY <1>1, <1>5 DEF Events
<1>17. Counted'
  <2>1. \A x \in Request : ~ Awaited(x)' /\ ~ Awaited(x)
    BY <1>1, <1>5 DEF Awaited
  <2>2. \A x \in Request : x > routed' => x > routed
    BY <1>1, <1>3, ConstantFacts
  <2> QED BY <2>1, <2>2, <1>1, <1>2 DEF Counted
<1>18. Rounds' /\ Closing'
  BY <1>1, <1>5 DEF Rounds, Closing
<1> QED BY <1>13, <1>14, <1>15, <1>16, <1>17, <1>18 DEF ReplicasInv

(* step_with_events: each request of `emitting` gets a token; those that   *)
(* are done leave, the others are still queued or running.                 *)
LEMMA EmissionInv ==
  ASSUME ReplicasInv, NEW r \in Replica, loop = "stepping", answer[r].state = "asked",
         NEW emitting, NEW waiting, Emission(r, emitting, waiting),
         waiting \in Seq(Request), Distinct(waiting),
         emitting \intersect Elems(waiting) = {},
         emitting \subseteq Elems(engine[r].waiting) \union engine[r].running,
         engine[r].running \union emitting \union Elems(waiting)
           = Elems(engine[r].waiting) \union engine[r].running,
         UNCHANGED <<choice, process, owner, arrivals, record, loop, ending, faults>>
  PROVE  ReplicasInv'
<1> USE DEF choice, arrivals, ending
<1> DEFINE t == [q \in Request |-> emitted[q] + IF q \in emitting THEN 1 ELSE 0]
           held == (engine[r].running \union emitting) \ Elems(waiting)
           ended == {q \in emitting : t[q] = Limit[q]}
           added == engine[r].added
<1>1. /\ Types /\ Placed /\ Queued /\ Events /\ Counted /\ Rounds /\ Closing
  BY DEF ReplicasInv
<1>2. /\ engine[r].waiting \in Seq(Request) /\ engine[r].running \subseteq Request
      /\ added \in Seq(Request) /\ engine[r].cached \subseteq Group /\ engine[r] \in Engine
  BY <1>1, EngineTypes DEF Types
<1>3. emitting \subseteq Request
  BY <1>2, ElemsIn
<1>4. \A q \in emitting : q \in Elems(added) /\ emitted[q] < Limit[q]
  BY <1>1, <1>3 DEF Queued
<1>5. \A q \in Request :
        emitted[q] \in Nat /\ Limit[q] \in Nat /\ record[q].tokens \in Nat
  BY <1>1, ConstantFacts DEF Types
<1>6. /\ emitted' = t
      /\ answer' = [answer EXCEPT ![r] =
           [state |-> "answered",
            events |-> {[seq |-> i, finished |-> added[i] \in ended] :
                          i \in {j \in DOMAIN added : added[j] \in emitting}}]]
  BY DEF Emission
<1>7. PICK evicted \in SUBSET (engine[r].cached \ {PrefixGroup[q] : q \in held}) :
        engine' = [engine EXCEPT
          ![r].waiting = waiting, ![r].running = held \ ended,
          ![r].cached = (@ \union {PrefixGroup[q] : q \in emitting}) \ evicted]
  BY DEF Emission
<1>8. /\ \A q \in emitting : emitted'[q] = emitted[q] + 1
      /\ \A q \in Request : q \notin emitting => emitted'[q] = emitted[q]
      /\ emitted' \in [Request -> Nat]
  BY <1>3, <1>5, <1>6
<1>9. /\ \A p \in Replica \ {r} : engine'[p] = engine[p]
      /\ engine'[r].waiting = waiting /\ engine'[r].running = held \ ended
      /\ engine'[r].added = added
      /\ engine'[r].cached
           = (engine[r].cached \union {PrefixGroup[q] : q \in emitting}) \ evicted
      /\ engine'[r] = [engine[r] EXCEPT !.waiting = waiting, !.running = held \ ended,
           !.cached = (@ \union {PrefixGroup[q] : q \in emitting}) \ evicted]
  BY <1>1, <1>2, <1>7 DEF Types, Engine
<1>10. \A p \in Replica : engine'[p].added = engine[p].added
  BY <1>9
<1>11. \A q \in ended : emitted'[q] = Limit[q] /\ q \in emitting
  BY <1>6
<1>12. \A q \in emitting : q \notin ended => emitted'[q] < Limit[q]
  <2> SUFFICES ASSUME NEW q \in emitting, q \notin ended PROVE emitted'[q] < Limit[q]
    OBVIOUS
  <2>1. q \in Request /\ emitted[q] < Limit[q] /\ emitted'[q] # Limit[q]
    BY <1>3, <1>4, <1>6
  <2> QED BY <2>1, <1>5, <1>8
<1> HIDE DEF t, ended
<1>13. Types'
  <2>1. engine' \in [Replica -> Engine]
    <3>1. {PrefixGroup[q] : q \in emitting} \subseteq Group
      BY <1>3 DEF Group
    <3>2. held \ ended \subseteq Request
      BY <1>2, <1>3
    <3> HIDE DEF held
    <3>3. engine'[r] \in Engine
      BY <3>1, <3>2, <1>2, <1>9 DEF Engine
    <3> QED BY <3>3, <1>1, <1>7 DEF Types
  <2>2. answer' \in [Replica -> Answer]
    <3>1. {[seq |-> i, finished |-> added[i] \in ended] :
             i \in {j \in DOMAIN added : added[j] \in emitting}} \subseteq Event
      <4> DEFINE last(i) == added[i] \in ended
      <4>1. \A i \in DOMAIN added : i \in Nat \ {0}
        BY <1>2, ElemsIn
      <4>2. ASSUME NEW i \in DOMAIN added PROVE [seq |-> i, finished |-> last(i)] \in Event
        <5>1. last(i) \in BOOLEAN
          OBVIOUS
        <5> HIDE DEF last
        <5> QED BY <5>1, <4>1, Zenon DEF Event
      <4> HIDE DEF last
      <4>3. {[seq |-> i, finished |-> last(i)] :
               i \in {j \in DOMAIN added : added[j] \in emitting}} \subseteq Event
        BY <4>2, Zenon
      <4> QED BY <4>3 DEF last
    <3> DEFINE a == [state |-> "answered",
            events |-> {[seq |-> i, finished |-> added[i] \in ended] :
                          i \in {j \in DOMAIN added : added[j] \in emitting}}]
    <3>2. a \in Answer
      BY <3>1 DEF Answer
    <3>3. answer' = [answer EXCEPT ![r] = a]
      BY <1>6
    <3> HIDE DEF a
    <3> QED BY <3>2, <3>3, <1>1 DEF Types
  <2> QED BY <2>1, <2>2, <1>1, <1>8 DEF Types
<1>14. Placed'
  BY <1>1, <1>10 DEF Placed
<1>15. \A p \in Replica \ {r} : \A q \in Elems(engine[p].added) : q \notin emitting
  BY <1>1, <1>4 DEF Placed
<1>16. \A p \in Replica : Elems(engine[p].added) \subseteq Request
  BY <1>1, EngineTypes, ElemsIn
<1>17. Queued'
  <2> SUFFICES ASSUME NEW p \in Replica
      PROVE  /\ Distinct(engine'[p].waiting)
             /\ Elems(engine'[p].waiting) \intersect engine'[p].running = {}
             /\ \A x \in Request :
                  x \in Elems(engine'[p].waiting) \union engine'[p].running
                    <=> x \in Elems(engine'[p].added) /\ emitted'[x] < Limit[x]
    BY DEF Queued
  <2>1. CASE p # r
    BY <2>1, <1>1, <1>8, <1>9, <1>15 DEF Queued
  <2>2. CASE p = r
    <3>1. held \intersect Elems(waiting) = {}
      OBVIOUS
    <3>2. ASSUME NEW x \in Request
          PROVE  x \in Elems(waiting) \union (held \ ended)
                   <=> x \in Elems(added) /\ emitted'[x] < Limit[x]
      <4>1. x \in Elems(engine[r].waiting) \union engine[r].running
              <=> x \in Elems(added) /\ emitted[x] < Limit[x]
        BY <1>1 DEF Queued
      <4>2. x \in Elems(waiting) \union held
              <=> x \in Elems(engine[r].waiting) \union engine[r].running
        OBVIOUS
      <4>3. CASE x \in ended
        <5>1. x \notin Elems(waiting) /\ ~ (emitted'[x] < Limit[x])
          BY <4>3, <1>5, <1>11
        <5> QED BY <5>1, <4>3
      <4>4. CASE x \in emitting /\ x \notin ended
        <5>1. emitted'[x] < Limit[x] /\ x \in Elems(added)
          BY <4>4, <1>4, <1>12
        <5> QED BY <5>1, <4>2, <4>4
      <4>5. CASE x \notin emitting
        <5>1. emitted'[x] = emitted[x] /\ x \notin ended
          BY <4>5, <1>8, <1>11
        <5> QED BY <5>1, <4>1, <4>2
      <4> QED BY <4>3, <4>4, <4>5
    <3> QED BY <2>2, <3>1, <3>2, <1>9, <1>10
  <2> QED BY <2>1, <2>2
<1>18. answer[r].events = {}
  BY <1>1 DEF Events
<1>19. \A p \in Replica \ {r} : answer'[p] = answer[p]
  BY <1>1, <1>6 DEF Types
<1>20. /\ answer'[r].state = "answered"
       /\ answer'[r].events = {[seq |-> i, finished |-> added[i] \in ended] :
                                 i \in {j \in DOMAIN added : added[j] \in emitting}}
  BY <1>1, <1>6 DEF Types
<1>21. Events'
  <2> SUFFICES ASSUME NEW p \in Replica
      PROVE  /\ answer'[p].state # "answered" => answer'[p].events = {}
             /\ \A e \in answer'[p].events :
                  /\ e.seq \in DOMAIN engine[p].added
                  /\ e.finished <=> emitted'[engine[p].added[e.seq]]
                                      = Limit[engine[p].added[e.seq]]
    BY <1>10 DEF Events
  <2>1. CASE p # r
    <3>1. \A e \in answer[p].events :
            e.seq \in DOMAIN engine[p].added
              /\ (e.finished <=> emitted[engine[p].added[e.seq]]
                                   = Limit[engine[p].added[e.seq]])
      BY <1>1 DEF Events
    <3>2. \A i \in DOMAIN engine[p].added :
            emitted'[engine[p].added[i]] = emitted[engine[p].added[i]]
      BY <2>1, <1>8, <1>15, <1>16 DEF Elems
    <3>3. answer[p].state # "answered" => answer[p].events = {}
      BY <1>1 DEF Events
    <3>4. answer'[p] = answer[p]
      BY <2>1, <1>19
    <3> QED BY <3>1, <3>2, <3>3, <3>4, Zenon
  <2>2. CASE p = r
    <3>1. ASSUME NEW e \in answer'[r].events
          PROVE  /\ e.seq \in DOMAIN added
                 /\ e.finished <=> emitted'[added[e.seq]] = Limit[added[e.seq]]
      <4>1. PICK i \in DOMAIN added :
              added[i] \in emitting /\ e = [seq |-> i, finished |-> added[i] \in ended]
        BY <1>20
      <4>2. e.seq = i /\ (e.finished <=> added[i] \in ended)
        BY <4>1
      <4>3. added[i] \in ended <=> emitted'[added[i]] = Limit[added[i]]
        BY <4>1, <1>6 DEF ended
      <4> QED BY <4>2, <4>3, Zenon
    <3> QED BY <3>1, <2>2, <1>20
  <2> QED BY <2>1, <2>2
<1>22. Counted'
  <2>1. ASSUME NEW q \in Request
        PROVE  Awaited(q)' <=> q \in emitting \/ Awaited(q)
    <3>1. ASSUME q \in emitting PROVE Awaited(q)'
      <4>1. PICK i \in DOMAIN added : added[i] = q
        BY <3>1, <1>4 DEF Elems
      <4> DEFINE e == [seq |-> i, finished |-> added[i] \in ended]
      <4>2. e \in answer'[r].events /\ e.seq = i
        BY <4>1, <3>1, <1>20
      <4> HIDE DEF e
      <4> QED BY <4>1, <4>2, <1>10 DEF Awaited
    <3>2. ASSUME Awaited(q) PROVE Awaited(q)'
      BY <3>2, <1>10, <1>18, <1>19 DEF Awaited
    <3>3. ASSUME Awaited(q)', q \notin emitting PROVE Awaited(q)
      <4>1. PICK p \in Replica : \E e \in answer'[p].events : engine[p].added[e.seq] = q
        BY <3>3, <1>10 DEF Awaited
      <4>2. PICK e \in answer'[p].events : engine[p].added[e.seq] = q
        BY <4>1
      <4>3. p # r
        <5> SUFFICES ASSUME p = r PROVE FALSE
          OBVIOUS
        <5>1. PICK i \in DOMAIN added :
                added[i] \in emitting /\ e = [seq |-> i, finished |-> added[i] \in ended]
          BY <4>2, <1>20
        <5> QED BY <5>1, <4>2, <3>3
      <4> QED BY <4>2, <4>3, <1>19 DEF Awaited
    <3> QED BY <3>1, <3>2, <3>3
  <2>2. ASSUME NEW q \in emitting PROVE ~ Awaited(q)
    <3> SUFFICES ASSUME NEW p \in Replica, NEW e \in answer[p].events,
                        engine[p].added[e.seq] = q
                 PROVE  FALSE
      BY DEF Awaited
    <3>1. p # r BY <1>18
    <3>2. e.seq \in DOMAIN engine[p].added BY <1>1 DEF Events
    <3>3. q \in Elems(engine[p].added) BY <3>2 DEF Elems
    <3> QED BY <3>1, <3>3, <1>15
  <2> SUFFICES ASSUME NEW q \in Request
      PROVE  /\ emitted'[q] <= Limit[q] /\ (q > routed => emitted'[q] = 0)
             /\ emitted'[q] = record[q].tokens + IF Awaited(q)' THEN 1 ELSE 0
             /\ record[q].terminal = "Finished" <=> record[q].tokens = Limit[q]
    BY DEF Counted
  <2>3. /\ emitted[q] <= Limit[q] /\ (q > routed => emitted[q] = 0)
        /\ emitted[q] = record[q].tokens + IF Awaited(q) THEN 1 ELSE 0
        /\ record[q].terminal = "Finished" <=> record[q].tokens = Limit[q]
    BY <1>1 DEF Counted
  <2>4. CASE q \notin emitting
    BY <2>1, <2>3, <2>4, <1>8
  <2>5. CASE q \in emitting
    <3>1. emitted[q] = record[q].tokens /\ Awaited(q)'
      BY <2>1, <2>2, <2>3, <2>5, <1>5
    <3>2. ~ (q > routed)
      <4>1. q \in Elems(added) BY <2>5, <1>4
      <4>2. q \in 1..routed BY <4>1, <1>1 DEF Placed
      <4>3. routed \in Nat BY <1>1, ConstantFacts DEF Types
      <4> QED BY <4>2, <4>3
    <3>3. emitted'[q] = emitted[q] + 1 /\ emitted[q] < Limit[q]
      BY <2>5, <1>4, <1>8
    <3> QED BY <3>1, <3>2, <3>3, <2>3, <1>5
  <2> QED BY <2>4, <2>5
<1>23. Rounds' /\ Closing'
  BY <1>1 DEF Rounds, Closing
<1> QED BY <1>13, <1>14, <1>17, <1>21, <1>22, <1>23 DEF ReplicasInv

(* audit_step: a prefill, a decode, a decode that preempts one request, or *)
(* a call that is refused.                                                 *)
LEMMA AuditStepInv == ASSUME ReplicasInv, NEW r \in Replica, AuditStep(r) PROVE ReplicasInv'
<1> DEFINE w == engine[r].waiting
           run == engine[r].running
<1>1. /\ loop = "stepping" /\ answer[r].state = "asked"
      /\ UNCHANGED <<choice, process, owner, arrivals, record, loop, ending>>
  BY DEF AuditStep
<1>2. /\ w \in Seq(Request) /\ run \subseteq Request /\ Distinct(w)
      /\ Elems(w) \intersect run = {}
  <2>1. Types BY DEF ReplicasInv
  <2> QED BY <2>1, EngineTypes DEF ReplicasInv, Queued
<1>3. \/ UNCHANGED faults /\ Prefills(r)
      \/ UNCHANGED faults /\ Decodes(r)
      \/ /\ answer' = [answer EXCEPT ![r] = Refused] /\ UNCHANGED <<engine, emitted>>
         /\ UNCHANGED faults \/ (faults < MaxFaults /\ faults' = faults + 1)
  BY DEF AuditStep
<1>4. CASE UNCHANGED faults /\ Prefills(r)
  <2>1. w # << >> /\ Emission(r, {Head(w)}, Tail(w))
    BY <1>4 DEF Prefills
  <2>2. /\ Head(w) \in Elems(w) /\ Head(w) \notin Elems(Tail(w))
        /\ Elems(w) = {Head(w)} \union Elems(Tail(w))
        /\ Tail(w) \in Seq(Request) /\ Distinct(Tail(w))
    <3> HIDE DEF w
    <3> QED BY <2>1, <1>2, HeadFacts
  <2>3. /\ {Head(w)} \intersect Elems(Tail(w)) = {}
        /\ {Head(w)} \subseteq Elems(w) \union run
        /\ run \union {Head(w)} \union Elems(Tail(w)) = Elems(w) \union run
    <3> HIDE DEF w, run
    <3> QED BY <2>2
  <2> QED BY <1>1, <1>4, <2>1, <2>2, <2>3, EmissionInv
<1>5. CASE UNCHANGED faults /\ Decodes(r)
  <2>1. \/ Emission(r, run, w)
        \/ \E q \in run : Emission(r, run \ {q}, <<q>> \o w)
    BY <1>5 DEF Decodes
  <2>2. CASE Emission(r, run, w)
    <3>1. /\ run \subseteq Elems(w) \union run
          /\ run \union run \union Elems(w) = Elems(w) \union run
      OBVIOUS
    <3> QED BY <1>1, <1>2, <1>5, <2>2, <3>1, EmissionInv
  <2>3. CASE \E q \in run : Emission(r, run \ {q}, <<q>> \o w)
    <3>1. PICK q \in run : Emission(r, run \ {q}, <<q>> \o w)
      BY <2>3
    <3>2. /\ <<q>> \o w \in Seq(Request) /\ Distinct(<<q>> \o w)
          /\ Elems(<<q>> \o w) = {q} \union Elems(w)
      <4>1. q \in Request /\ q \notin Elems(w)
        BY <1>2
      <4> HIDE DEF w
      <4> QED BY <4>1, <1>2, PushFacts
    <3>3. /\ (run \ {q}) \intersect Elems(<<q>> \o w) = {}
          /\ run \ {q} \subseteq Elems(w) \union run
          /\ run \union (run \ {q}) \union Elems(<<q>> \o w) = Elems(w) \union run
      <4> HIDE DEF w, run
      <4> QED BY <3>1, <3>2, <1>2
    <3> QED BY <1>1, <1>5, <3>1, <3>2, <3>3, EmissionInv
  <2> QED BY <2>1, <2>2, <2>3
<1>6. CASE /\ answer' = [answer EXCEPT ![r] = Refused] /\ UNCHANGED <<engine, emitted>>
           /\ UNCHANGED faults \/ (faults < MaxFaults /\ faults' = faults + 1)
  <2> USE DEF choice, arrivals, ending
  <2>1. answer[r].events = {}
    BY <1>1 DEF ReplicasInv, Events
  <2>2. /\ answer'[r] = Refused /\ answer'[r].events = {} /\ answer'[r].state = "refused"
        /\ \A p \in Replica \ {r} : answer'[p] = answer[p]
    BY <1>6 DEF ReplicasInv, Types, Refused
  <2>3. Types'
    <3>1. Refused \in Answer
      BY DEF Refused, Answer
    <3>2. answer' \in [Replica -> Answer]
      BY <3>1, <1>6 DEF ReplicasInv, Types
    <3>3. faults' \in 0..MaxFaults
      BY <1>6, FaultFacts DEF ReplicasInv, Types
    <3> QED BY <3>2, <3>3, <1>1, <1>6 DEF ReplicasInv, Types
  <2>4. Placed' /\ Queued'
    BY <1>1, <1>6 DEF ReplicasInv, Placed, Queued
  <2>5. Events'
    <3>1. \A p \in Replica \ {r} :
            /\ answer[p].state # "answered" => answer[p].events = {}
            /\ \A e \in answer[p].events :
                 /\ e.seq \in DOMAIN engine[p].added
                 /\ e.finished <=> emitted[engine[p].added[e.seq]]
                                     = Limit[engine[p].added[e.seq]]
      BY DEF ReplicasInv, Events
    <3>2. engine' = engine /\ emitted' = emitted
      BY <1>6
    <3> QED BY <3>1, <3>2, <2>2, Zenon DEF Events
  <2>6. Counted'
    <3>1. \A q \in Request : Awaited(q)' <=> Awaited(q)
      BY <1>6, <2>1, <2>2 DEF Awaited
    <3> QED BY <3>1, <1>1, <1>6 DEF ReplicasInv, Counted
  <2>7. Rounds' /\ Closing'
    BY <1>1 DEF ReplicasInv, Rounds, Closing
  <2> QED BY <2>3, <2>4, <2>5, <2>6, <2>7 DEF ReplicasInv
<1> QED BY <1>3, <1>4, <1>5, <1>6

(* The events of a round reach the records of their requests, once each.   *)
LEMMA CollectInv == ASSUME ReplicasInv, Collect PROVE ReplicasInv'
<1> USE DEF choice, fleet, arrivals, ending
<1> DEFINE events == UNION {{[request |-> EventRequest(r, e.seq), finished |-> e.finished] :
                               e \in answer[r].events} : r \in Replica}
           Of(q) == {e \in events : e.request = q}
<1>1. /\ loop = "stepping" /\ loop' = "top"
      /\ record' = [q \in Request |->
           [tokens |-> record[q].tokens + Cardinality(Of(q)),
            terminal |-> IF \E e \in Of(q) : e.finished THEN "Finished"
                         ELSE record[q].terminal]]
      /\ answer' = [r \in Replica |-> Silent]
      /\ UNCHANGED <<choice, fleet, owner, arrivals, ending, faults>>
  BY DEF Collect
<1>2. /\ Types /\ Placed /\ Queued /\ Events /\ Counted /\ Rounds /\ Closing
  BY DEF ReplicasInv
<1>3. cause = None
  BY <1>1, InLoopFacts DEF Ends
<1>4. ASSUME NEW r \in Replica, NEW e \in answer[r].events
      PROVE  /\ EventRequest(r, e.seq) = engine[r].added[e.seq]
             /\ engine[r].added[e.seq] \in Elems(engine[r].added)
             /\ e.finished \in BOOLEAN
             /\ e.finished <=> emitted[engine[r].added[e.seq]] = Limit[engine[r].added[e.seq]]
  <2>1. /\ e.seq \in DOMAIN engine[r].added
        /\ e.finished <=> emitted[engine[r].added[e.seq]] = Limit[engine[r].added[e.seq]]
    BY <1>2, Zenon DEF Events
  <2>2. owner[<<r, e.seq>>] = engine[r].added[e.seq]
    BY <2>1, <1>2 DEF Placed
  <2>3. e \in Event
    BY <1>2 DEF Types, Answer
  <2>4. e.finished \in BOOLEAN
    BY <2>3 DEF Event
  <2> QED BY <2>1, <2>2, <2>4, Zenon DEF EventRequest, Elems
<1>5. ASSUME NEW q \in Request
      PROVE  /\ \A e \in Of(q) :
                  /\ Of(q) = {e} /\ Awaited(q)
                  /\ e.finished <=> emitted[q] = Limit[q]
             /\ Awaited(q) => Of(q) # {}
  <2>1. ASSUME NEW e \in Of(q)
        PROVE  \E r \in Replica : \E x \in answer[r].events :
                 /\ e = [request |-> q, finished |-> x.finished]
                 /\ engine[r].added[x.seq] = q
    <3>1. PICK r \in Replica : e \in {[request |-> EventRequest(r, x.seq),
                                        finished |-> x.finished] : x \in answer[r].events}
      OBVIOUS
    <3>2. PICK x \in answer[r].events :
            e = [request |-> EventRequest(r, x.seq), finished |-> x.finished]
      BY <3>1
    <3>3. EventRequest(r, x.seq) = q
      BY <3>2
    <3> QED BY <3>2, <3>3, <1>4
  <2>2. ASSUME NEW e \in Of(q) PROVE /\ Awaited(q) /\ e.request = q /\ e.finished \in BOOLEAN
                                     /\ e = [request |-> q, finished |-> e.finished]
                                     /\ e.finished <=> emitted[q] = Limit[q]
    <3>1. PICK r \in Replica : \E x \in answer[r].events :
            e = [request |-> q, finished |-> x.finished] /\ engine[r].added[x.seq] = q
      BY <2>1
    <3>2. PICK x \in answer[r].events :
            e = [request |-> q, finished |-> x.finished] /\ engine[r].added[x.seq] = q
      BY <3>1
    <3>3. x.finished \in BOOLEAN /\ (x.finished <=> emitted[q] = Limit[q])
      BY <3>2, <1>4, Zenon
    <3>4. e.request = q /\ e.finished = x.finished
      BY <3>2
    <3>5. Awaited(q)
      BY <3>2 DEF Awaited
    <3> HIDE DEF Of
    <3> QED BY <3>2, <3>3, <3>4, <3>5, Zenon
  <2>3. ASSUME NEW e \in Of(q), NEW f \in Of(q) PROVE e = f
    <3> HIDE DEF Of
    <3>1. /\ e.finished \in BOOLEAN /\ f.finished \in BOOLEAN
          /\ e.finished <=> f.finished
      BY <2>2, Zenon
    <3>2. e.finished = f.finished
      BY <3>1
    <3>3. e = [request |-> q, finished |-> e.finished]
          /\ f = [request |-> q, finished |-> f.finished]
      BY <2>2, Zenon
    <3> QED BY <3>2, <3>3, Zenon
  <2>4. ASSUME Awaited(q) PROVE Of(q) # {}
    <3>1. PICK r \in Replica : \E x \in answer[r].events : engine[r].added[x.seq] = q
      BY <2>4 DEF Awaited
    <3>2. PICK x \in answer[r].events : engine[r].added[x.seq] = q
      BY <3>1
    <3> DEFINE e == [request |-> EventRequest(r, x.seq), finished |-> x.finished]
    <3>3. e \in events
      OBVIOUS
    <3>4. e.request = q
      BY <3>2, <1>4
    <3> HIDE DEF e, events
    <3> QED BY <3>3, <3>4
  <2> HIDE DEF Of
  <2> QED BY <2>2, <2>3, <2>4, Zenon
<1> HIDE DEF Of, events
<1>6. ASSUME NEW q \in Request
      PROVE  /\ record'[q] \in [tokens : Nat, terminal : Terminal]
             /\ record'[q].tokens = emitted[q]
             /\ record'[q].terminal = "Finished" <=> emitted[q] = Limit[q]
  <2>1. /\ emitted[q] = record[q].tokens + IF Awaited(q) THEN 1 ELSE 0
        /\ emitted[q] <= Limit[q] /\ emitted[q] \in Nat /\ Limit[q] \in Nat
        /\ record[q].terminal = "Finished" <=> record[q].tokens = Limit[q]
        /\ record[q].tokens \in Nat /\ record[q].terminal \in Terminal
    BY <1>2, ConstantFacts DEF Counted, Types
  <2>2. CASE Of(q) = {}
    <3>1. ~ Awaited(q) /\ Cardinality(Of(q)) = 0
      BY <2>2, <1>5, FS_EmptySet
    <3>2. record'[q] = [tokens |-> record[q].tokens + Cardinality(Of(q)),
                        terminal |-> record[q].terminal]
      BY <2>2, <1>1
    <3> QED BY <2>1, <3>1, <3>2
  <2>3. CASE Of(q) # {}
    <3>1. PICK e \in Of(q) : TRUE
      BY <2>3
    <3>2. Of(q) = {e} /\ Awaited(q) /\ (e.finished <=> emitted[q] = Limit[q])
      BY <3>1, <1>5, Zenon
    <3>3. Cardinality(Of(q)) = 1
      BY <3>2, FS_Singleton
    <3>4. (\E x \in Of(q) : x.finished) <=> emitted[q] = Limit[q]
      BY <3>2, Zenon
    <3>5. record'[q] = [tokens |-> record[q].tokens + Cardinality(Of(q)),
                        terminal |-> IF emitted[q] = Limit[q] THEN "Finished"
                                     ELSE record[q].terminal]
      <4> DEFINE ended == \E x \in Of(q) : x.finished
      <4>1. record'[q] = [tokens |-> record[q].tokens + Cardinality(Of(q)),
                          terminal |-> IF ended THEN "Finished" ELSE record[q].terminal]
        BY <1>1, Zenon
      <4>2. ended <=> emitted[q] = Limit[q]
        BY <3>4, Zenon
      <4> HIDE DEF ended
      <4> QED BY <4>1, <4>2
    <3>6. "Finished" \in Terminal
      BY DEF Terminal
    <3> QED BY <2>1, <3>2, <3>3, <3>5, <3>6
  <2> QED BY <2>2, <2>3
<1>7. \A r \in Replica : answer'[r] = Silent /\ Silent.state = "silent" /\ Silent.events = {}
  BY <1>1 DEF Silent
<1>8. Types'
  <2>1. record' \in [Request -> [tokens : Nat, terminal : Terminal]]
    <3>1. record' = [q \in Request |-> record'[q]]
      BY <1>1, Zenon
    <3> QED BY <3>1, <1>6
  <2>2. answer' \in [Replica -> Answer]
    <3>1. Silent \in Answer
      BY DEF Silent, Answer
    <3> QED BY <3>1, <1>1
  <2>3. loop' \in Places
    BY <1>1 DEF Places
  <2>4. UNCHANGED <<router, cursor, engine, emitted, process, routed, due, cause,
                    final, faults>>
    BY <1>1
  <2> QED BY <2>1, <2>2, <2>3, <2>4, <1>2 DEF Types
<1>9. UNCHANGED <<engine, emitted, process, owner, routed, cause>>
  BY <1>1
<1>10. Placed' /\ Queued'
  BY <1>2, <1>9 DEF Placed, Queued
<1>11. Events'
  BY <1>7 DEF Events
<1>12. Counted'
  <2>1. \A q \in Request : ~ Awaited(q)'
    BY <1>7 DEF Awaited
  <2>2. \A q \in Request : emitted[q] \in Nat /\ emitted[q] <= Limit[q]
                           /\ (q > routed => emitted[q] = 0)
    BY <1>2 DEF Counted, Types
  <2> QED BY <2>1, <2>2, <1>6, <1>9 DEF Counted
<1>13. Rounds' /\ Closing'
  BY <1>1, <1>3, <1>7, <1>9 DEF Rounds, Closing
<1> QED BY <1>8, <1>10, <1>11, <1>12, <1>13 DEF ReplicasInv

LEMMA NextInv == ReplicasInv /\ [Next]_vars => ReplicasInv'
<1> SUFFICES ASSUME ReplicasInv, [Next]_vars PROVE ReplicasInv'
  OBVIOUS
<1>1. CASE UNCHANGED vars
  <2>1. UNCHANGED <<router, cursor, engine, emitted, process, answer, owner, routed, due,
                    record, loop, cause, final, faults>>
    BY <1>1 DEF vars, choice, fleet, arrivals, ending
  <2>2. Placed' /\ Queued' /\ Events' /\ Counted'
    BY <2>1, RestInv
  <2>3. Types' /\ Rounds' /\ Closing'
    BY <2>1 DEF ReplicasInv, Types, Rounds, Closing
  <2> QED BY <2>2, <2>3 DEF ReplicasInv
<1>2. ASSUME NEW r \in Replica, AuditStep(r) PROVE ReplicasInv'
  BY <1>2, AuditStepInv
<1>3. ASSUME NEW r \in Replica, Die(r) PROVE ReplicasInv'
  BY <1>3, DieInv
<1>4. CASE Runner
  BY <1>4, LaunchInv, TurnInv, TimeOutInv, RouteInv, IdleInv, StartStepInv, CollectInv,
     CallFailsInv, CloseRecordsInv, FinalSnapshotsInv, CloseEndpointInv, ReturnInv DEF Runner
<1> QED BY <1>1, <1>2, <1>3, <1>4 DEF Next, Over

(* The inductive invariant holds in every state.                           *)
THEOREM ReplicasInvariant == Spec => []ReplicasInv
BY InitInv, NextInv, PTL DEF Spec

---------------------------------------------------------------------------
(* What it implies.                                                        *)

(* The record of a request has the tokens its own engine has emitted, but  *)
(* for a round that is not collected or was lost with an error.            *)
THEOREM RecordsMatchEngines == Spec => []RecordsMatch
<1>1. ASSUME ReplicasInv PROVE RecordsMatch
  <2>1. Types /\ Counted /\ Rounds /\ Events
    BY <1>1 DEF ReplicasInv
  <2>2. TypeOK
    <3>1. ASSUME NEW r \in Replica
          PROVE  /\ Elems(engine[r].waiting) \union engine[r].running \subseteq Request
                 /\ engine[r].cached \subseteq {PrefixGroup[q] : q \in Request}
                 /\ answer[r].state \in {"silent", "asked", "answered", "refused"}
      <4>1. answer[r] \in Answer BY <2>1 DEF Types
      <4> QED BY <4>1, <2>1, EngineTypes, ElemsIn DEF Answer, Group
    <3>2. ASSUME NEW q \in Request
          PROVE  /\ emitted[q] \in 0..Limit[q] /\ record[q].tokens \in 0..Limit[q]
                 /\ record[q].terminal \in {None, "Finished", "Failed", "Unfinished"}
      <4>1. /\ emitted[q] = record[q].tokens + IF Awaited(q) THEN 1 ELSE 0
            /\ emitted[q] <= Limit[q] /\ emitted[q] \in Nat /\ Limit[q] \in Nat
            /\ record[q].tokens \in Nat /\ record[q].terminal \in Terminal
        BY <2>1, ConstantFacts DEF Counted, Types
      <4> QED BY <4>1 DEF Terminal
    <3> QED BY <3>1, <3>2, <2>1 DEF TypeOK, Types, Places
  <2> SUFFICES ASSUME NEW q \in Request
      PROVE  /\ record[q].terminal = "Finished" <=> record[q].tokens = Limit[q]
             /\ record[q].tokens = emitted[q]
                \/ /\ record[q].tokens = emitted[q] - 1
                   /\ loop = "stepping" \/ cause = "runner_error"
    BY <2>2 DEF RecordsMatch
  <2>3. /\ emitted[q] = record[q].tokens + IF Awaited(q) THEN 1 ELSE 0
        /\ emitted[q] \in Nat /\ record[q].tokens \in Nat
        /\ record[q].terminal = "Finished" <=> record[q].tokens = Limit[q]
    BY <2>1 DEF Counted, Types
  <2>4. Awaited(q) => loop = "stepping" \/ cause = "runner_error"
    BY <2>1 DEF Awaited, Rounds, Events
  <2> QED BY <2>3, <2>4
<1> QED BY <1>1, ReplicasInvariant, PTL

(* Without a fault no snapshot is missing: until the workers are closed    *)
(* all of them are up.                                                     *)
Snapshots ==
  faults = 0 =>
    /\ loop \in {"top", "woken", "route", "stepping", "finally", "snapshots"}
         => \A r \in Replica : process[r] = "up"
    /\ loop \in {"closing", "returned"} => final = Replica

LEMMA SnapshotsNext == ReplicasInv /\ Snapshots /\ [Next]_vars => Snapshots'
<1> SUFFICES ASSUME ReplicasInv, Snapshots, [Next]_vars PROVE Snapshots'
  OBVIOUS
<1> USE DEF Snapshots, ending, fleet
<1>1. faults \in Nat
  BY DEF ReplicasInv, Types
<1>2. CASE Launch
  BY <1>1, <1>2 DEF Launch
<1>3. ASSUME NEW r \in Replica, Die(r) PROVE Snapshots'
  BY <1>1, <1>3 DEF Die
<1>4. ASSUME NEW r \in Replica, AuditStep(r) PROVE Snapshots'
  BY <1>1, <1>4 DEF AuditStep
<1>5. CASE FinalSnapshots
  BY <1>1, <1>5 DEF FinalSnapshots
<1>6. CASE CloseEndpoint
  BY <1>6 DEF CloseEndpoint
<1>7. CASE CallFails
  BY <1>1, <1>7 DEF CallFails
<1>8. CASE Turn \/ TimeOut \/ Route \/ Idle \/ StartStep
  BY <1>8 DEF Turn, TimeOut, Route, Idle, StartStep
<1>9. CASE Collect \/ CloseRecords \/ Return
  BY <1>9 DEF Collect, CloseRecords, Return
<1>10. CASE UNCHANGED vars
  BY <1>10 DEF vars
<1> QED BY <1>2, <1>3, <1>4, <1>5, <1>6, <1>7, <1>8, <1>9, <1>10 DEF Next, Runner, Over

(* A result is written only when every worker is closed and every record   *)
(* is closed as its engine left it.  A replica that is still running       *)
(* requests then, and so holds KV, is one whose final snapshot failed.     *)
THEOREM ReconciledWhenReturned == Spec => []ResultReconciled
<1>1. Init => Snapshots
  BY DEF Init, Snapshots
<1>2. ASSUME ReplicasInv, Snapshots PROVE ResultReconciled
  <2>1. Types /\ Queued /\ Counted /\ Rounds /\ Events /\ Closing
    BY <1>2 DEF ReplicasInv
  <2> SUFFICES ASSUME loop = "returned", NEW r \in Replica
      PROVE  /\ process[r] = "closed"
             /\ engine[r].running # {} => r \notin final /\ faults > 0
             /\ \A q \in Elems(engine[r].added) :
                  record[q].terminal # None
                    /\ (record[q].terminal = "Finished" \/ cause = "runner_error"
                        \/ q \in Elems(engine[r].waiting) \union engine[r].running)
    BY DEF ResultReconciled
  <2>2. process[r] = "closed"
    BY <2>1 DEF Closing
  <2>3. engine[r].running # {} => r \notin final /\ faults > 0
    BY <1>2, <2>1 DEF Closing, Snapshots, Types
  <2>4. ASSUME NEW q \in Elems(engine[r].added)
        PROVE  record[q].terminal # None
                 /\ (record[q].terminal = "Finished" \/ cause = "runner_error"
                     \/ q \in Elems(engine[r].waiting) \union engine[r].running)
    <3>1. q \in Request
      BY <2>1, EngineTypes, ElemsIn
    <3>2. record[q].terminal # None
      BY <3>1, <2>1 DEF Closing
    <3>3. q \in Elems(engine[r].waiting) \union engine[r].running \/ emitted[q] = Limit[q]
      <4>1. emitted[q] <= Limit[q] /\ emitted[q] \in Nat /\ Limit[q] \in Nat
        BY <2>1, <3>1, ConstantFacts DEF Counted, Types
      <4> QED BY <4>1, <2>1, <3>1 DEF Queued
    <3>4. Awaited(q) => cause = "runner_error"
      BY <2>1 DEF Awaited, Rounds, Events
    <3>5. /\ emitted[q] = record[q].tokens + IF Awaited(q) THEN 1 ELSE 0
          /\ emitted[q] \in Nat /\ record[q].tokens \in Nat
          /\ record[q].terminal = "Finished" <=> record[q].tokens = Limit[q]
      BY <2>1, <3>1 DEF Counted, Types
    <3> QED BY <3>2, <3>3, <3>4, <3>5
  <2> QED BY <2>2, <2>3, <2>4
<1> QED BY <1>1, <1>2, ReplicasInvariant, SnapshotsNext, PTL DEF Spec

(* ResourceAwareRouter queues no request on a busy replica while another   *)
(* one is idle, whatever the load keys and the feasible candidates.        *)
THEOREM IdleReplicasFirst == Spec => IdlePreferred
<1> DEFINE Spreads == \A r \in Replica :
             (router = "resource_aware" /\ engine'[r].added # engine[r].added /\ Busy(r))
               => \A s \in Replica : Busy(s)
<1>1. ASSUME ReplicasInv, [Next]_vars PROVE [Spreads]_vars
  <2> SUFFICES ASSUME NEW r \in Replica, router = "resource_aware",
                      engine'[r].added # engine[r].added, Busy(r)
               PROVE  \A s \in Replica : Busy(s)
    OBVIOUS
  <2>1. Types
    BY <1>1 DEF ReplicasInv
  <2>2. ASSUME NEW p \in Replica, NEW emitting, NEW waiting, Emission(p, emitting, waiting)
        PROVE  engine'[r].added = engine[r].added
    <3>1. \E running, cached :
            engine' = [engine EXCEPT ![p].waiting = waiting, ![p].running = running,
                                     ![p].cached = cached]
      BY <2>2 DEF Emission
    <3> QED BY <3>1, <2>1 DEF Types, Engine
  <2>3. ~ UNCHANGED engine
    OBVIOUS
  <2>4. ASSUME NEW p \in Replica, AuditStep(p) PROVE FALSE
    BY <2>2, <2>3, <2>4 DEF AuditStep, Prefills, Decodes
  <2>5. Route
    BY <1>1, <2>3, <2>4 DEF Next, Runner, Launch, Turn, TimeOut, Idle, StartStep, Collect,
       CallFails, CloseRecords, FinalSnapshots, CloseEndpoint, Return, Over, Die, vars, fleet
  <2> DEFINE q == routed + 1
  <2>6. routed < due /\ engine' = [engine EXCEPT ![Target(q)].waiting = Append(@, q),
                                                 ![Target(q)].added = Append(@, q)]
    BY <2>5 DEF Route
  <2>7. q \in Request
    BY <2>1, <2>6, ConstantFacts DEF Types, Request
  <2> HIDE DEF q
  <2>8. r = Target(q)
    BY <2>1, <2>6 DEF Types
  <2> QED BY <2>1, <2>7, <2>8, TargetFacts
<1>2. ReplicasInv /\ [Next]_vars => [Spreads]_vars
  BY <1>1
<1> QED BY <1>2, ReplicasInvariant, PTL DEF Spec, IdlePreferred
=============================================================================
