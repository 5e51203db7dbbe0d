------------------------- MODULE SchedulerCoreProofs -------------------------
(***************************************************************************)
(* First, facts about the operators of BlockPool, for every pool size and  *)
(* block size.  Then facts about the loops of SchedulerCore, for any       *)
(* number of requests, blocks and tokens: what schedule() and              *)
(* postprocess() do to an engine record keeps the record sound.            *)
(***************************************************************************)
EXTENDS SchedulerCore, TLAPS, FiniteSetTheorems, SequenceTheorems,
        WellFoundedInduction

(* Every nonempty set of naturals has a least element: the form of         *)
(* induction that needs no operator parameter.                             *)
LEMMA LeastNat ==
  ASSUME NEW T \in SUBSET Nat, T # {}
  PROVE  \E n \in T : \A m \in T : n <= m
<1> DEFINE U == {0..n : n \in T}
<1>1. U \subseteq FiniteSubsetsOf(Nat)
  <2>1. ASSUME NEW n \in T PROVE 0..n \subseteq Nat /\ IsFiniteSet(0..n)
    BY FS_Interval
  <2> QED BY <2>1 DEF FiniteSubsetsOf
<1>2. U # {}
  OBVIOUS
<1>3. \E X \in U : \A Y \in U : ~ (<<Y, X>> \in StrictSubsetOrdering(Nat))
  <2> HIDE DEF U
  <2> QED BY <1>1, <1>2, FS_StrictSubsetOrderingWellFounded, WFMin
<1>4. PICK x \in T : \A Y \in U : ~ (<<Y, 0..x>> \in StrictSubsetOrdering(Nat))
  BY <1>3
<1>5. ASSUME NEW y \in T PROVE x <= y
  <2>1. ~ (<<0..y, 0..x>> \in StrictSubsetOrdering(Nat)) BY <1>4
  <2>2. ~ (0..y \subseteq 0..x /\ 0..y # 0..x)
    BY <2>1 DEF StrictSubsetOrdering
  <2>3. SUFFICES ASSUME y < x PROVE FALSE
     OBVIOUS
  <2>4. 0..y \subseteq 0..x
     BY <2>3
  <2>5. x \in 0..x /\ ~(x \in 0..y)
     BY <2>3
  <2> QED BY <2>2, <2>4, <2>5
<1> QED BY <1>5


(* g is the function that Keep's definition chooses, up to position n.     *)
Scan(q, K, n, g) ==
  g = [i \in 0..n |-> IF i = 0 THEN << >>
                      ELSE IF q[i] \in K THEN Append(g[i - 1], q[i]) ELSE g[i - 1]]

LEMMA ScanExists ==
  ASSUME NEW q, NEW K, NEW len \in Nat
  PROVE  \E g : Scan(q, K, len, g)
<1> DEFINE T == {n \in Nat : ~ \E g : Scan(q, K, n, g)}
<1>1. SUFFICES ASSUME T # {} PROVE FALSE
  OBVIOUS
<1>2. PICK n \in T : \A m \in T : n <= m
  <2> HIDE DEF T
  <2> T \subseteq Nat BY DEF T
  <2> QED BY <1>1, LeastNat
<1>3. \E g : Scan(q, K, 0, g)
  <2> DEFINE g == [i \in 0..0 |-> << >>]
  <2>1. Scan(q, K, 0, g)
     BY DEF Scan
  <2> QED BY <2>1
<1>4. n - 1 \in Nat /\ \E g : Scan(q, K, n - 1, g)
  <2>1. n # 0 BY <1>3
  <2>2. n - 1 \in Nat /\ ~(n <= n - 1) BY <2>1
  <2> QED BY <2>2, <1>2
<1>5. PICK g : Scan(q, K, n - 1, g)
  BY <1>4
<1> DEFINE last == IF q[n] \in K THEN Append(g[n - 1], q[n]) ELSE g[n - 1]
           h == [i \in 0..n |-> IF i = n THEN last ELSE g[i]]
<1>6. Scan(q, K, n, h)
  <2>1. n \in Nat /\ n # 0 BY <1>4
  <2>2. h[n] = IF q[n] \in K THEN Append(h[n - 1], q[n]) ELSE h[n - 1]
    BY <2>1
  <2>3. ASSUME NEW i \in 0..(n - 1), i # 0
        PROVE  h[i] = IF q[i] \in K THEN Append(h[i - 1], q[i]) ELSE h[i - 1]
    <3>1. h[i] = g[i] BY <2>1
    <3>2. i - 1 \in 0..(n-1) /\ h[i - 1] = g[i - 1] BY <2>3, <2>1
    <3>3. g[i] = IF q[i] \in K THEN Append(g[i - 1], q[i]) ELSE g[i - 1]
       BY <1>5, <2>3 DEF Scan
    <3> QED BY <3>1, <3>2, <3>3
  <2>4. h[0] = << >>
    BY <1>5, <2>1 DEF Scan
  <2>5. h = [i \in 0..n |-> h[i]]
    OBVIOUS
  <2> HIDE DEF h
  <2>6. \A i \in 0..n : h[i] = IF i = 0 THEN << >>
                      ELSE IF q[i] \in K THEN Append(h[i - 1], q[i]) ELSE h[i - 1]
    BY <2>1, <2>2, <2>3, <2>4
  <2> QED BY <2>5, <2>6 DEF Scan
<1> QED BY <1>6

LEMMA KeepIsScan ==
  ASSUME NEW q, NEW K, Len(q) \in Nat
  PROVE  \E g : Scan(q, K, Len(q), g) /\ Keep(q, K) = g[Len(q)]
<1> DEFINE f == CHOOSE g : Scan(q, K, Len(q), g)
<1>1. Scan(q, K, Len(q), f)
  BY ScanExists
<1>2. Keep(q, K) = f[Len(q)]
  BY DEF Keep, Scan
<1> QED BY <1>1, <1>2

(* Induction stated with a set in place of a predicate.                    *)
LEMMA SetInduction ==
  ASSUME NEW T \in SUBSET Nat, 0 \in T, \A n \in T : n + 1 \in T
  PROVE  T = Nat
<1>1. SUFFICES ASSUME Nat \ T # {} PROVE FALSE
  OBVIOUS
<1>2. PICK n \in Nat \ T : \A m \in Nat \ T : n <= m
  BY <1>1, LeastNat
<1>3. n - 1 \in Nat /\ n - 1 \notin Nat \ T
  BY <1>2
<1> QED BY <1>2, <1>3

(* Appending a new member.                                                 *)
LEMMA AppendDistinct ==
  ASSUME NEW S, NEW q \in Seq(S), NEW e \in S, Distinct(q), e \notin Elems(q)
  PROVE  /\ Append(q, e) \in Seq(S)
         /\ Elems(Append(q, e)) = Elems(q) \union {e}
         /\ Distinct(Append(q, e))
<1>1. /\ Len(q) \in Nat /\ DOMAIN q = 1..Len(q)
      /\ Append(q, e) \in Seq(S) /\ DOMAIN Append(q, e) = 1..(Len(q) + 1)
      /\ Len(Append(q, e)) = Len(q) + 1
      /\ Append(q, e)[Len(q) + 1] = e
      /\ \A i \in 1..Len(q) : Append(q, e)[i] = q[i]
  BY AppendProperties, LenProperties
<1>2. Elems(Append(q, e)) = Elems(q) \union {e}
  <2>1. ASSUME NEW x \in Elems(Append(q, e)) PROVE x \in Elems(q) \union {e}
    BY <1>1 DEF Elems
  <2>2. ASSUME NEW i \in 1..Len(q) PROVE q[i] \in Elems(Append(q, e))
    BY <1>1 DEF Elems
  <2>3. e \in Elems(Append(q, e))
    BY <1>1 DEF Elems
  <2> QED BY <2>1, <2>2, <2>3 DEF Elems
<1>3. Distinct(Append(q, e))
  <2> SUFFICES ASSUME NEW i \in 1..(Len(q) + 1), NEW j \in 1..(Len(q) + 1),
                      Append(q, e)[i] = Append(q, e)[j]
               PROVE  i = j
    BY <1>1 DEF Distinct
  <2>1. ASSUME NEW k \in 1..Len(q) PROVE q[k] # e
    BY DEF Elems
  <2> QED BY <1>1, <2>1 DEF Distinct
<1> QED BY <1>1, <1>2, <1>3

(* Keep(q, K) returns exactly the members of q in K, and keeps a sequence  *)
(* without repetitions one.                                                *)
LEMMA KeepFacts ==
  ASSUME NEW S, NEW q \in Seq(S), NEW K, Distinct(q)
  PROVE  /\ Keep(q, K) \in Seq(S)
         /\ Elems(Keep(q, K)) = Elems(q) \cap K
         /\ Distinct(Keep(q, K))
<1> DEFINE len == Len(q)
<1>1. len \in Nat /\ DOMAIN q = 1..len /\ \A i \in 1..len : q[i] \in S
  BY LenProperties
<1>2. PICK g : Scan(q, K, len, g) /\ Keep(q, K) = g[len]
  BY <1>1, KeepIsScan
<1> DEFINE Prefix(n) == {q[i] : i \in 1..n}
           Good(n) == /\ g[n] \in Seq(S)
                      /\ Elems(g[n]) = Prefix(n) \cap K
                      /\ Distinct(g[n])
           T == {n \in Nat : n <= len => Good(n)}
<1>3. Good(0)
  <2>1. g[0] = << >>
    BY <1>1, <1>2 DEF Scan
  <2>2. << >> \in Seq(S) /\ Len(<< >>) = 0 /\ DOMAIN << >> = 1..0
    BY EmptySeq, LenProperties
  <2>3. Elems(g[0]) = {} /\ Distinct(g[0])
    <3>1. 1..0 = {} OBVIOUS
    <3> QED BY <2>1, <2>2, <3>1 DEF Elems, Distinct
  <2>4. Prefix(0) = {}
    OBVIOUS
  <2> QED BY <2>1, <2>2, <2>3, <2>4
<1>4. ASSUME NEW n \in T, n + 1 <= len PROVE Good(n + 1)
  <2>1. n \in Nat /\ n + 1 \in 1..len /\ Good(n) /\ q[n + 1] \in S
    BY <1>1, <1>4
  <2>2. g[n + 1] = IF q[n + 1] \in K THEN Append(g[n], q[n + 1]) ELSE g[n]
    <3>1. n + 1 \in 0..len /\ n + 1 # 0 /\ (n + 1) - 1 = n
      BY <2>1
    <3> QED BY <3>1, <1>2 DEF Scan
  <2>3. Prefix(n + 1) = Prefix(n) \union {q[n + 1]}
    <3>1. 1..(n + 1) = 1..n \union {n + 1}
      BY <2>1
    <3> QED BY <3>1
  <2>4. q[n + 1] \notin Prefix(n)
    <3>1. ASSUME NEW i \in 1..n PROVE q[i] # q[n + 1]
      BY <1>1, <2>1 DEF Distinct
    <3> QED BY <3>1
  <2>5. CASE q[n + 1] \in K
    <3>1. q[n + 1] \notin Elems(g[n]) BY <2>1, <2>4
    <3>2. /\ g[n + 1] \in Seq(S) /\ Distinct(g[n + 1])
          /\ Elems(g[n + 1]) = Elems(g[n]) \union {q[n + 1]}
      BY <2>1, <2>2, <2>5, <3>1, AppendDistinct
    <3> QED BY <3>2, <2>1, <2>3, <2>5
  <2>6. CASE q[n + 1] \notin K
    BY <2>1, <2>2, <2>3, <2>6
  <2> QED BY <2>5, <2>6
<1> HIDE DEF Good
<1>5. T = Nat
  <2>1. 0 \in T
    BY <1>3
  <2>2. ASSUME NEW n \in T PROVE n + 1 \in T
    BY <1>4
  <2>3. T \in SUBSET Nat
    OBVIOUS
  <2> HIDE DEF T
  <2> QED BY <2>1, <2>2, <2>3, SetInduction
<1>6. Good(len)
  <2>1. len \in T BY <1>1, <1>5
  <2>2. len <= len BY <1>1
  <2> HIDE DEF len
  <2> QED BY <2>1, <2>2
<1>7. Prefix(len) = Elems(q)
  BY DEF Elems
<1> QED BY <1>2, <1>6, <1>7 DEF Good

(* A sequence without repetitions is as long as its set is large.          *)
LEMMA DistinctLen ==
  ASSUME NEW S, NEW q \in Seq(S), Distinct(q)
  PROVE  IsFiniteSet(Elems(q)) /\ Cardinality(Elems(q)) = Len(q)
<1>1. Len(q) \in Nat /\ DOMAIN q = 1..Len(q) /\ q \in [1..Len(q) -> S]
  BY LenProperties
<1>2. q \in [1..Len(q) -> Elems(q)]
  BY <1>1 DEF Elems
<1>3. q \in Bijection(1..Len(q), Elems(q))
  <2>1. q \in Injection(1..Len(q), Elems(q))
    BY <1>1, <1>2 DEF Injection, IsInjective, Distinct
  <2>2. q \in Surjection(1..Len(q), Elems(q))
    BY <1>2 DEF Surjection, Elems
  <2> QED BY <2>1, <2>2 DEF Bijection
<1>4. IsFiniteSet(1..Len(q)) /\ Cardinality(1..Len(q)) = Len(q)
  BY <1>1, FS_Interval
<1> QED BY <1>3, <1>4, FS_Bijection DEF ExistsBijection

LEMMA ReversedFacts ==
  ASSUME NEW q \in Seq(Block), Distinct(q)
  PROVE  /\ Reversed(q) \in Seq(Block)
         /\ Elems(Reversed(q)) = Elems(q)
         /\ Distinct(Reversed(q))
<1> DEFINE r == Reversed(q)
<1>1. Len(q) \in Nat /\ DOMAIN q = 1..Len(q) /\ q \in [1..Len(q) -> Block]
  BY LenProperties
<1>2. \A i \in 1..Len(q) : Len(q) + 1 - i \in 1..Len(q)
  BY <1>1
<1>3. /\ r \in [1..Len(q) -> Block] /\ DOMAIN r = 1..Len(q)
      /\ \A i \in 1..Len(q) : r[i] = q[Len(q) + 1 - i]
  BY <1>1, <1>2 DEF Reversed
<1> HIDE DEF r
<1>4. r \in Seq(Block) /\ Len(r) = Len(q) /\ DOMAIN r = 1..Len(q)
  <2>1. r \in Seq(Block) BY <1>1, <1>3, SeqDef
  <2>2. DOMAIN r = 1..Len(r) /\ Len(r) \in Nat BY <2>1, LenProperties
  <2>3. Len(r) = Len(q) BY <1>1, <1>3, <2>2
  <2> QED BY <1>3, <2>1, <2>3
<1>5. Elems(r) = Elems(q)
  <2>1. ASSUME NEW i \in 1..Len(q) PROVE q[i] \in Elems(r)
    <3>1. Len(q) + 1 - i \in 1..Len(q) /\ r[Len(q) + 1 - i] = q[i]
      BY <1>1, <1>2, <1>3
    <3> QED BY <3>1, <1>4 DEF Elems
  <2>2. ASSUME NEW i \in 1..Len(q) PROVE r[i] \in Elems(q)
    BY <1>2, <1>3 DEF Elems
  <2> QED BY <2>1, <2>2, <1>4 DEF Elems
<1>6. Distinct(r)
  BY <1>1, <1>2, <1>3, <1>4 DEF Distinct
<1> QED BY <1>4, <1>5, <1>6 DEF r

(* Two sequences without common members, one after the other.              *)
LEMMA ConcatDistinct ==
  ASSUME NEW S, NEW q \in Seq(S), NEW r \in Seq(S),
         Distinct(q), Distinct(r), Elems(q) \cap Elems(r) = {}
  PROVE  /\ q \o r \in Seq(S)
         /\ Len(q \o r) = Len(q) + Len(r)
         /\ Elems(q \o r) = Elems(q) \union Elems(r)
         /\ Distinct(q \o r)
<1> DEFINE c == q \o r
<1>1. /\ Len(q) \in Nat /\ DOMAIN q = 1..Len(q)
      /\ Len(r) \in Nat /\ DOMAIN r = 1..Len(r)
  BY LenProperties
<1>2. /\ c \in Seq(S) /\ Len(c) = Len(q) + Len(r)
      /\ \A i \in 1..(Len(q) + Len(r)) :
           c[i] = IF i <= Len(q) THEN q[i] ELSE r[i - Len(q)]
  BY ConcatProperties
<1>3. DOMAIN c = 1..(Len(q) + Len(r))
  BY <1>2, LenProperties
<1> HIDE DEF c
<1>4. \A i \in 1..Len(q) : c[i] = q[i] /\ i \in DOMAIN c
  BY <1>1, <1>2, <1>3
<1>5. \A i \in 1..Len(r) : c[Len(q) + i] = r[i] /\ Len(q) + i \in DOMAIN c
  BY <1>1, <1>2, <1>3
<1>6. \A i \in DOMAIN c : \/ i \in 1..Len(q)
                          \/ \E k \in 1..Len(r) : i = Len(q) + k
  <2> SUFFICES ASSUME NEW i \in 1..(Len(q) + Len(r)), i \notin 1..Len(q)
               PROVE  i - Len(q) \in 1..Len(r) /\ i = Len(q) + (i - Len(q))
    BY <1>3
  <2> QED BY <1>1
<1>7. Elems(c) = Elems(q) \union Elems(r)
  <2>1. Elems(c) = {c[i] : i \in DOMAIN c}
    BY <1>2, <1>3 DEF Elems
  <2>2. ASSUME NEW i \in DOMAIN c PROVE c[i] \in Elems(q) \union Elems(r)
    BY <1>4, <1>5, <1>6 DEF Elems
  <2>3. ASSUME NEW i \in 1..Len(q) PROVE q[i] \in Elems(c)
    BY <1>4, <2>1
  <2>4. ASSUME NEW i \in 1..Len(r) PROVE r[i] \in Elems(c)
    BY <1>5, <2>1
  <2>5. Elems(c) \subseteq Elems(q) \union Elems(r)
    BY <2>1, <2>2
  <2>6. Elems(q) \union Elems(r) \subseteq Elems(c)
    <3>1. Elems(q) = {q[i] : i \in 1..Len(q)} /\ Elems(r) = {r[i] : i \in 1..Len(r)}
      BY <1>1 DEF Elems
    <3> QED BY <3>1, <2>3, <2>4, Zenon
  <2> QED BY <2>5, <2>6
<1>8. Distinct(c)
  <2> SUFFICES ASSUME NEW i \in DOMAIN c, NEW j \in DOMAIN c, c[i] = c[j]
               PROVE  i = j
    BY DEF Distinct
  <2>1. \A k \in 1..Len(q), l \in 1..Len(r) : q[k] # r[l]
    BY DEF Elems
  <2>2. CASE i \in 1..Len(q) /\ j \in 1..Len(q)
    BY <2>2, <1>1, <1>4 DEF Distinct
  <2>3. CASE i \in 1..Len(q) /\ j \notin 1..Len(q)
    BY <2>3, <2>1, <1>4, <1>5, <1>6
  <2>4. CASE i \notin 1..Len(q) /\ j \in 1..Len(q)
    BY <2>4, <2>1, <1>4, <1>5, <1>6
  <2>5. CASE i \notin 1..Len(q) /\ j \notin 1..Len(q)
    <3>1. PICK k \in 1..Len(r) : i = Len(q) + k BY <2>5, <1>6
    <3>2. PICK l \in 1..Len(r) : j = Len(q) + l BY <2>5, <1>6
    <3>3. r[k] = r[l] BY <3>1, <3>2, <1>5
    <3>4. k = l BY <3>3, <1>1 DEF Distinct
    <3> QED BY <3>1, <3>2, <3>4
  <2> QED BY <2>2, <2>3, <2>4, <2>5
<1> QED BY <1>2, <1>7, <1>8 DEF c

(* Cutting a sequence without repetitions in two.                          *)
LEMMA CutDistinct ==
  ASSUME NEW q \in Seq(Block), Distinct(q), NEW n \in 0..Len(q)
  PROVE  LET a == SubSeq(q, 1, n)
             b == SubSeq(q, n + 1, Len(q))
         IN  /\ a \in Seq(Block) /\ b \in Seq(Block)
             /\ Len(a) = n /\ Len(b) = Len(q) - n
             /\ Elems(a) = {q[i] : i \in 1..n}
             /\ Elems(b) = Elems(q) \ Elems(a) /\ Elems(a) \subseteq Elems(q)
             /\ Distinct(a) /\ Distinct(b)
<1> DEFINE a == SubSeq(q, 1, n)
           b == SubSeq(q, n + 1, Len(q))
           len == Len(q)
<1>1. len \in Nat /\ DOMAIN q = 1..len /\ \A i \in 1..len : q[i] \in Block
  BY LenProperties
<1>2. n \in Nat /\ n <= len
  BY <1>1
<1>3. /\ a \in Seq(Block) /\ Len(a) = n /\ DOMAIN a = 1..n
      /\ \A i \in 1..n : a[i] = q[i]
  <2>1. \A i \in 1..n : q[i] \in Block BY <1>1, <1>2
  <2>2. a \in Seq(Block) /\ Len(a) = (IF 1 <= n THEN n - 1 + 1 ELSE 0)
        /\ \A i \in 1..(n - 1 + 1) : a[i] = q[1 + i - 1]
    BY <2>1, <1>2, SubSeqProperties
  <2>3. DOMAIN a = 1..Len(a) BY <2>2, LenProperties
  <2> HIDE DEF a
  <2> QED BY <1>2, <2>2, <2>3
<1>4. /\ b \in Seq(Block) /\ Len(b) = len - n /\ DOMAIN b = 1..(len - n)
      /\ \A i \in 1..(len - n) : b[i] = q[n + i]
  <2>1. \A i \in (n + 1)..len : q[i] \in Block BY <1>1, <1>2
  <2>2. b \in Seq(Block) /\ Len(b) = (IF n + 1 <= len THEN len - (n + 1) + 1 ELSE 0)
        /\ \A i \in 1..(len - (n + 1) + 1) : b[i] = q[(n + 1) + i - 1]
    BY <2>1, <1>1, <1>2, SubSeqProperties
  <2>3. DOMAIN b = 1..Len(b) BY <2>2, LenProperties
  <2> HIDE DEF a, b, len
  <2>4. Len(b) = len - n BY <1>1, <1>2, <2>2
  <2>5. \A i \in 1..(len - n) : b[i] = q[n + i]
    <3> SUFFICES ASSUME NEW i \in 1..(len - n) PROVE b[i] = q[n + i]
      OBVIOUS
    <3>1. i \in 1..(len - (n + 1) + 1) /\ (n + 1) + i - 1 = n + i BY <1>1, <1>2
    <3> QED BY <2>2, <3>1
  <2> QED BY <2>2, <2>3, <2>4, <2>5
<1> HIDE DEF a, b
<1>5. Elems(a) = {q[i] : i \in 1..n}
  BY <1>3 DEF Elems
<1>6. Elems(a) \subseteq Elems(q)
  <2>1. 1..n \subseteq 1..len BY <1>1, <1>2
  <2> QED BY <2>1, <1>5 DEF Elems
<1>7. Elems(b) = Elems(q) \ Elems(a)
  <2>1. ASSUME NEW i \in 1..(len - n)
        PROVE  b[i] \in Elems(q) /\ b[i] \notin Elems(a)
    <3>1. n + i \in 1..len /\ n + i \notin 1..n /\ 1..n \subseteq 1..len
      BY <1>1, <1>2
    <3>2. b[i] = q[n + i] BY <1>4
    <3> QED BY <3>1, <3>2, <1>1, <1>5 DEF Distinct, Elems
  <2>2. ASSUME NEW i \in 1..len, q[i] \notin Elems(a) PROVE q[i] \in Elems(b)
    <3>1. i \notin 1..n BY <2>2, <1>5
    <3>2. i - n \in 1..(len - n) /\ n + (i - n) = i BY <3>1, <1>1, <1>2
    <3>3. b[i - n] = q[i] BY <3>2, <1>4
    <3> QED BY <3>2, <3>3, <1>4 DEF Elems
  <2>3. /\ Elems(b) = {b[i] : i \in 1..(len - n)}
        /\ Elems(q) = {q[i] : i \in 1..len}
    BY <1>1, <1>4 DEF Elems
  <2> HIDE DEF len
  <2> QED BY <2>1, <2>2, <2>3, Zenon
<1>8. Distinct(a)
  BY <1>1, <1>2, <1>3 DEF Distinct
<1>9. Distinct(b)
  <2> SUFFICES ASSUME NEW i \in 1..(len - n), NEW j \in 1..(len - n), b[i] = b[j]
               PROVE  i = j
    BY <1>4 DEF Distinct
  <2>1. n + i \in 1..len /\ n + j \in 1..len BY <1>1, <1>2
  <2>2. n + i = n + j BY <2>1, <1>1, <1>4 DEF Distinct
  <2> QED BY <2>2, <1>2
<1> QED BY <1>3, <1>4, <1>5, <1>6, <1>7, <1>8, <1>9 DEF a, b
---------------------------------------------------------------------------
(* Token geometry.                                                         *)

LEMMA MulMonotone ==
  ASSUME NEW i \in Nat, NEW j \in Nat
  PROVE  /\ i * BlockSize \in Nat
         /\ (i + 1) * BlockSize = i * BlockSize + BlockSize
         /\ i <= j => i * BlockSize <= j * BlockSize
         /\ i < j => i * BlockSize + BlockSize <= j * BlockSize
<1>1. BlockSize \in Nat /\ BlockSize > 1
  BY PoolAssumption
<1>2. i * BlockSize \in Nat /\ (i + 1) * BlockSize = i * BlockSize + BlockSize
  BY <1>1
<1>3. ASSUME i <= j PROVE i * BlockSize <= j * BlockSize
  <2>1. j - i \in Nat BY <1>3
  <2>2. (j - i) * BlockSize \in Nat BY <2>1, <1>1
  <2>3. j * BlockSize = i * BlockSize + (j - i) * BlockSize BY <2>1, <1>1
  <2> QED BY <2>2, <2>3, <1>2
<1>4. ASSUME i < j PROVE i * BlockSize + BlockSize <= j * BlockSize
  <2>1. j - i - 1 \in Nat BY <1>4
  <2>2. (j - i - 1) * BlockSize \in Nat BY <2>1, <1>1
  <2>3. j * BlockSize = i * BlockSize + BlockSize + (j - i - 1) * BlockSize
    BY <2>1, <1>1
  <2> QED BY <2>2, <2>3, <1>1, <1>2
<1> QED BY <1>2, <1>3, <1>4

LEMMA MulCancel ==
  ASSUME NEW i \in Nat, NEW j \in Nat
  PROVE  /\ i * BlockSize <= j * BlockSize => i <= j
         /\ i * BlockSize = j * BlockSize => i = j
<1> DEFINE x == i * BlockSize
           y == j * BlockSize
<1>1. /\ x \in Nat /\ y \in Nat
      /\ i < j => x + BlockSize <= y
      /\ j < i => y + BlockSize <= x
  BY MulMonotone
<1> HIDE DEF x, y
<1>2. (x <= y => i <= j) /\ (x = y => i = j)
  BY <1>1, PoolAssumption
<1> QED BY <1>2 DEF x, y

LEMMA DivisionFacts ==
  ASSUME NEW n \in Nat
  PROVE  /\ n \div BlockSize \in Nat
         /\ (n \div BlockSize) * BlockSize <= n
         /\ n < (n \div BlockSize) * BlockSize + BlockSize
         /\ n % BlockSize = n - (n \div BlockSize) * BlockSize
BY PoolAssumption

LEMMA DivisionMonotone ==
  ASSUME NEW m \in Nat, NEW n \in Nat, m <= n
  PROVE  m \div BlockSize <= n \div BlockSize
<1> DEFINE i == m \div BlockSize
           j == n \div BlockSize
           x == i * BlockSize
           y == j * BlockSize
<1>1. i \in Nat /\ x <= m /\ j \in Nat /\ n < y + BlockSize
  BY DivisionFacts
<1> HIDE DEF i, j
<1>2. x \in Nat /\ y \in Nat /\ (j < i => y + BlockSize <= x)
  BY <1>1, MulMonotone
<1> HIDE DEF x, y
<1>3. i <= j
  BY <1>1, <1>2, PoolAssumption
<1> QED BY <1>3 DEF i, j

(* BlocksFor(n) is the least number of blocks that hold n tokens.          *)
LEMMA BlocksForFacts ==
  ASSUME NEW n \in Nat
  PROVE  /\ BlocksFor(n) \in Nat
         /\ n <= BlocksFor(n) * BlockSize
         /\ BlocksFor(n) * BlockSize < n + BlockSize
         /\ n > 0 => BlocksFor(n) > 0
         /\ \A k \in Nat : n <= k * BlockSize => BlocksFor(n) <= k
<1>1. BlockSize \in Nat /\ BlockSize > 1 /\ n + BlockSize - 1 \in Nat
  BY PoolAssumption
<1>2. /\ BlocksFor(n) \in Nat
      /\ BlocksFor(n) * BlockSize <= n + BlockSize - 1
      /\ n + BlockSize - 1 < BlocksFor(n) * BlockSize + BlockSize
  BY <1>1, DivisionFacts DEF BlocksFor
<1>3. BlocksFor(n) * BlockSize \in Nat
  BY <1>2, MulMonotone
<1>4. n > 0 => BlocksFor(n) > 0
  <2> SUFFICES ASSUME n > 0, BlocksFor(n) = 0 PROVE FALSE
    BY <1>2
  <2>1. BlocksFor(n) * BlockSize = 0 BY <1>1
  <2> QED BY <2>1, <1>1, <1>2
<1>5. ASSUME NEW k \in Nat, n <= k * BlockSize PROVE BlocksFor(n) <= k
  <2> SUFFICES ASSUME k < BlocksFor(n) PROVE FALSE
    BY <1>2
  <2>1. k * BlockSize + BlockSize <= BlocksFor(n) * BlockSize /\ k * BlockSize \in Nat
    BY <1>2, MulMonotone
  <2> QED BY <2>1, <1>1, <1>2, <1>3, <1>5
<1>6. n <= BlocksFor(n) * BlockSize /\ BlocksFor(n) * BlockSize < n + BlockSize
  BY <1>1, <1>2, <1>3
<1> QED BY <1>2, <1>4, <1>5, <1>6

LEMMA BlocksForMonotone ==
  ASSUME NEW m \in Nat, NEW n \in Nat, m <= n
  PROVE  BlocksFor(m) <= BlocksFor(n)
<1> DEFINE z == BlocksFor(n) * BlockSize
<1>1. BlocksFor(n) \in Nat /\ n <= z /\ z \in Nat
  BY BlocksForFacts, PoolAssumption
<1> HIDE DEF z
<1>2. m <= z BY <1>1
<1> QED BY <1>1, <1>2, BlocksForFacts DEF z

(* may_append's block is one that the tokens of the sequence need.         *)
LEMMA AppendFits ==
  ASSUME NEW n \in Nat, n > 0
  PROVE  BlocksFor(n - 1) + AppendNeeds(n) <= BlocksFor(n)
<1>1. n - 1 \in Nat /\ BlocksFor(n - 1) \in Nat /\ BlocksFor(n) \in Nat
  BY BlocksForFacts
<1>2. CASE n % BlockSize = 1
  <2> DEFINE q == n \div BlockSize
             b == BlocksFor(n)
             y == q * BlockSize
             z == b * BlockSize
  <2>1. q \in Nat /\ y <= n /\ n % BlockSize = n - y BY DivisionFacts
  <2>2. n <= z BY BlocksForFacts
  <2> HIDE DEF q
  <2>3. y \in Nat BY <2>1, MulMonotone
  <2> HIDE DEF y
  <2>4. n - 1 = y BY <1>2, <2>1, <2>3
  <2>5. BlocksFor(n - 1) <= q BY <1>1, <2>1, <2>4, BlocksForFacts DEF y
  <2>6. ~ (b <= q)
    <3>1. b <= q => z <= y BY <1>1, <2>1, MulMonotone DEF y
    <3>2. z \in Nat BY <1>1, MulMonotone
    <3> HIDE DEF z, b
    <3> QED BY <2>2, <2>3, <2>4, <3>1, <3>2
  <2>7. AppendNeeds(n) = 1 BY <1>2 DEF AppendNeeds
  <2> HIDE DEF b
  <2>8. BlocksFor(n - 1) + 1 <= b BY <1>1, <2>1, <2>5, <2>6 DEF b
  <2> QED BY <2>7, <2>8 DEF b
<1>3. CASE n % BlockSize # 1
  <2>1. AppendNeeds(n) = 0 BY <1>3 DEF AppendNeeds
  <2>2. BlocksFor(n - 1) <= BlocksFor(n) BY <1>1, BlocksForMonotone
  <2> QED BY <1>1, <2>1, <2>2
<1> QED BY <1>2, <1>3

---------------------------------------------------------------------------
(* The cached prefix of a token sequence.                                  *)

(* The walk of _cached_prefix ends, leaves out the last block, and every   *)
(* block before its end is a hit.                                          *)
LEMMA CachedBlocksFacts ==
  ASSUME NEW p, NEW Token, NEW toks \in Seq(Token), Len(toks) > 0
  PROVE  /\ CachedBlocks(p, toks) \in 0..(BlocksFor(Len(toks)) - 1)
         /\ \A i \in 1..CachedBlocks(p, toks) : Hit(p, toks, i)
<1> DEFINE last == BlocksFor(Len(toks)) - 1
           Stops(c) == c < last => ~ Hit(p, toks, c + 1)
           T == {c \in 0..last : Stops(c)}
<1>1. Len(toks) \in Nat
  BY LenProperties
<1>2. last \in Nat
  BY <1>1, BlocksForFacts
<1>3. T # {} /\ T \subseteq Nat
  <2>1. last \in T BY <1>2
  <2> QED BY <2>1, <1>2
<1>4. PICK c \in T : \A d \in T : c <= d
  <2> HIDE DEF T
  <2> QED BY <1>3, LeastNat
<1>5. ASSUME NEW i \in 1..c PROVE Hit(p, toks, i)
  <2>1. i - 1 \in 0..last /\ i - 1 < last /\ ~ (c <= i - 1) /\ (i - 1) + 1 = i
    BY <1>2
  <2>2. i - 1 \notin T BY <1>4, <2>1
  <2> QED BY <2>1, <2>2
<1>6. \E d \in 0..last : /\ \A i \in 1..d : Hit(p, toks, i)
                         /\ d < last => ~ Hit(p, toks, d + 1)
  BY <1>4, <1>5
<1>7. CachedBlocks(p, toks) \in 0..last
      /\ \A i \in 1..CachedBlocks(p, toks) : Hit(p, toks, i)
  BY <1>6 DEF CachedBlocks
<1> QED BY <1>7

(* The chain hashes of the full blocks of a sequence are distinct, and     *)
(* none is the root.                                                       *)
LEMMA ChainFacts ==
  ASSUME NEW Token, NEW toks \in Seq(Token), NEW i \in Nat,
         i * BlockSize <= Len(toks)
  PROVE  /\ Chain(toks, i) \in Seq(Token)
         /\ Len(Chain(toks, i)) = i * BlockSize
<1>1. i * BlockSize \in Nat /\ Len(toks) \in Nat
  BY MulMonotone, LenProperties
<1>2. \A k \in 1..(i * BlockSize) : toks[k] \in Token
  BY <1>1, LenProperties
<1> DEFINE m == i * BlockSize
<1>3. /\ SubSeq(toks, 1, m) \in Seq(Token)
      /\ Len(SubSeq(toks, 1, m)) = IF 1 <= m THEN m - 1 + 1 ELSE 0
  <2> HIDE DEF m
  <2> QED BY <1>1, <1>2, SubSeqProperties DEF m
<1> QED BY <1>1, <1>3 DEF Chain

---------------------------------------------------------------------------
(* The accounts of the pool: Accounts and Indexed of BlockPool.            *)

(* How the holders of a block change when one table is replaced.           *)
LEMMA HoldersFacts ==
  ASSUME NEW Seqs, IsFiniteSet(Seqs), NEW tab \in [Seqs -> Seq(Block)],
         NEW s \in Seqs, NEW t \in Seq(Block), NEW b
  PROVE  /\ HolderCount(tab, Seqs, b) \in Nat
         /\ HolderCount(Put(tab, s, t), Seqs, b) \in Nat
         /\ b \in Elems(tab[s]) => HolderCount(tab, Seqs, b) > 0
         /\ (b \in Elems(t) <=> b \in Elems(tab[s])) =>
              HolderCount(Put(tab, s, t), Seqs, b) = HolderCount(tab, Seqs, b)
         /\ b \in Elems(t) /\ b \notin Elems(tab[s]) =>
              HolderCount(Put(tab, s, t), Seqs, b) = HolderCount(tab, Seqs, b) + 1
         /\ b \notin Elems(t) /\ b \in Elems(tab[s]) =>
              HolderCount(Put(tab, s, t), Seqs, b) = HolderCount(tab, Seqs, b) - 1
<1> DEFINE H == HoldersOf(tab, Seqs, b)
           N == HoldersOf(Put(tab, s, t), Seqs, b)
<1>1. N = IF b \in Elems(t) THEN H \union {s} ELSE H \ {s}
  BY DEF HoldersOf, Put
<1>2. H \subseteq Seqs /\ (s \in H <=> b \in Elems(tab[s]))
  BY DEF HoldersOf
<1> HIDE DEF H, N
<1>3. IsFiniteSet(H) /\ Cardinality(H) \in Nat
  BY <1>2, FS_Subset, FS_CardinalityType
<1>4. /\ IsFiniteSet(H \union {s}) /\ IsFiniteSet(H \ {s})
      /\ Cardinality(H \union {s})
           = IF s \in H THEN Cardinality(H) ELSE Cardinality(H) + 1
      /\ Cardinality(H \ {s})
           = IF s \in H THEN Cardinality(H) - 1 ELSE Cardinality(H)
  BY <1>3, FS_AddElement, FS_RemoveElement
<1>5. Cardinality(N) \in Nat
  BY <1>1, <1>4, FS_CardinalityType
<1>6. s \in H => Cardinality(H) > 0
  <2>1. s \in H => Cardinality(H) # 0 BY <1>3, FS_EmptySet
  <2> QED BY <2>1, <1>3
<1> QED BY <1>1, <1>2, <1>3, <1>4, <1>5, <1>6 DEF H, N, HolderCount

(* The holders of a block when a sequence without blocks gets a table.     *)
HasNoBlocks(tab, s) == Elems(tab[s]) = {}

LEMMA FirstTableFacts ==
  ASSUME NEW Seqs, IsFiniteSet(Seqs), NEW tab \in [Seqs -> Seq(Block)],
         NEW s \in Seqs, NEW t \in Seq(Block), NEW b, HasNoBlocks(tab, s)
  PROVE  /\ b \in Elems(t) =>
              HolderCount(Put(tab, s, t), Seqs, b) = HolderCount(tab, Seqs, b) + 1
         /\ b \notin Elems(t) =>
              HolderCount(Put(tab, s, t), Seqs, b) = HolderCount(tab, Seqs, b)
<1>1. b \notin Elems(tab[s])
  BY DEF HasNoBlocks
<1> QED BY <1>1, HoldersFacts

(* The fresh blocks that PopFree takes and the table they are added to     *)
(* keep the accounts: _allocate_block in allocate, materialize and         *)
(* may_append.                                                             *)
LEMMA ExtendedFacts ==
  ASSUME NEW Token, NEW Seqs, IsFiniteSet(Seqs),
         NEW tab \in [Seqs -> Seq(Block)], NEW done, NEW s \in Seqs,
         NEW p, PoolTyped(p, Token), Accounts(p, tab, Seqs),
         Indexed(p, tab, done, Seqs),
         NEW n \in 0..Len(p.free)
  PROVE  LET new == Extended(p, tab[s], n)
         IN  /\ PoolTyped(new.pool, Token)
             /\ new.table \in Seq(Block) /\ Len(new.table) = Len(tab[s]) + n
             /\ Accounts(new.pool, Put(tab, s, new.table), Seqs)
             /\ Indexed(new.pool, Put(tab, s, new.table), done, Seqs)
<1> DEFINE q == PopFree(p, n)
           fresh == SubSeq(p.free, 1, n)
           rest == SubSeq(p.free, n + 1, Len(p.free))
           t == tab[s] \o fresh
           tab2 == Put(tab, s, t)
           P == Popped(p, n)
<1>1. /\ p.free \in Seq(Block) /\ Distinct(p.free) /\ p.used \subseteq Block
      /\ Elems(p.free) = Block \ p.used
      /\ p.ref \in [Block -> Nat] /\ p.hash \in [Block -> Seq(Token)]
      /\ tab[s] \in Seq(Block) /\ Distinct(tab[s])
  BY DEF PoolTyped, Accounts
<1>2. /\ fresh \in Seq(Block) /\ rest \in Seq(Block) /\ Len(fresh) = n
      /\ Elems(fresh) = P /\ Elems(rest) = Elems(p.free) \ P
      /\ P \subseteq Elems(p.free) /\ Distinct(fresh) /\ Distinct(rest)
  <2>1. /\ fresh \in Seq(Block) /\ rest \in Seq(Block) /\ Len(fresh) = n
        /\ Elems(fresh) = {p.free[i] : i \in 1..n}
        /\ Elems(rest) = Elems(p.free) \ Elems(fresh)
        /\ Elems(fresh) \subseteq Elems(p.free)
        /\ Distinct(fresh) /\ Distinct(rest)
    <3> HIDE DEF q, t, P
    <3> QED BY <1>1, CutDistinct
  <2>2. P = {p.free[i] : i \in 1..n}
    BY DEF Popped
  <2> HIDE DEF fresh, rest, P, q
  <2> QED BY <2>1, <2>2
<1>3. P \subseteq Block /\ P \cap p.used = {}
  BY <1>1, <1>2
<1>4. \A r \in Seqs : Elems(tab[r]) \subseteq p.used
  <2> SUFFICES ASSUME NEW r \in Seqs, NEW b \in Elems(tab[r]) PROVE b \in p.used
    OBVIOUS
  <2>1. tab[r] \in Seq(Block) BY DEF Elems
  <2>2. b \in Block BY <2>1, LenProperties DEF Elems
  <2>3. p.ref[b] > 0 BY <2>1, <2>2, HoldersFacts DEF Accounts
  <2> QED BY <2>2, <2>3 DEF Accounts
<1>5. /\ t \in Seq(Block) /\ Elems(t) = Elems(tab[s]) \union P /\ Distinct(t)
      /\ Len(t) = Len(tab[s]) + n
  <2>1. Elems(tab[s]) \cap Elems(fresh) = {} BY <1>2, <1>3, <1>4
  <2> HIDE DEF fresh, q, P, rest
  <2>2. /\ tab[s] \in Seq(Block) /\ fresh \in Seq(Block)
        /\ Distinct(tab[s]) /\ Distinct(fresh)
    BY <1>1, <1>2
  <2>3. /\ tab[s] \o fresh \in Seq(Block)
        /\ Elems(tab[s] \o fresh) = Elems(tab[s]) \union Elems(fresh)
        /\ Distinct(tab[s] \o fresh)
        /\ Len(tab[s] \o fresh) = Len(tab[s]) + Len(fresh)
    BY <2>1, <2>2, ConcatDistinct
  <2> QED BY <1>2, <2>3
<1>6. /\ DOMAIN q = {"ref", "hash", "map", "free", "used"}
      /\ q.ref = [b \in Block |-> IF b \in P THEN 1 ELSE p.ref[b]]
      /\ q.hash = [b \in Block |-> IF b \in P THEN Root ELSE p.hash[b]]
      /\ DOMAIN q.map \subseteq DOMAIN p.map
      /\ \A h \in DOMAIN q.map : /\ q.map[h] = p.map[h]
                                 /\ ~ (p.map[h] \in P /\ p.hash[p.map[h]] = h)
      /\ q.free = rest
      /\ q.used = p.used \union P
  BY DEF PopFree
<1> HIDE DEF q, fresh, rest, t, P
<1>7. PoolTyped(q, Token)
  <2>1. Root \in Seq(Token) BY EmptySeq DEF Root
  <2>2. q.ref \in [Block -> Nat] /\ q.hash \in [Block -> Seq(Token)]
    BY <1>1, <1>6, <2>1
  <2>3. DOMAIN q.map \subseteq Seq(Token) /\ \A h \in DOMAIN q.map : q.map[h] \in Block
    BY <1>6 DEF PoolTyped
  <2> QED BY <1>1, <1>2, <1>3, <1>6, <2>2, <2>3 DEF PoolTyped
<1>8. Accounts(q, tab2, Seqs)
  <2>1. ASSUME NEW b \in Block
        PROVE  q.ref[b] = HolderCount(tab2, Seqs, b)
    <3>1. b \in P => p.ref[b] = 0 /\ b \notin Elems(tab[s])
      BY <1>1, <1>3, <1>4 DEF Accounts
    <3>2. p.ref[b] = HolderCount(tab, Seqs, b) BY DEF Accounts
    <3>3. /\ (b \in Elems(t) <=> b \in Elems(tab[s])) =>
               HolderCount(tab2, Seqs, b) = HolderCount(tab, Seqs, b)
          /\ b \in Elems(t) /\ b \notin Elems(tab[s]) =>
               HolderCount(tab2, Seqs, b) = HolderCount(tab, Seqs, b) + 1
      BY <1>5, HoldersFacts
    <3> QED BY <3>1, <3>2, <3>3, <1>5, <1>6
  <2>2. \A r \in Seqs : Distinct(tab2[r])
    BY <1>5 DEF Accounts, Put
  <2>3. q.used = {b \in Block : q.ref[b] > 0}
    BY <1>1, <1>3, <1>6 DEF Accounts
  <2>4. Elems(q.free) = Block \ q.used
    BY <1>1, <1>2, <1>6
  <2> QED BY <1>2, <1>6, <2>1, <2>2, <2>3, <2>4 DEF Accounts
<1>9. Indexed(q, tab2, done, Seqs)
  <2>1. \A h \in DOMAIN q.map : q.hash[q.map[h]] = h /\ h # Root
    BY <1>6 DEF Indexed, PoolTyped
  <2>2. \A b \in Block : q.hash[b] = Root => q.ref[b] <= 1
    BY <1>6 DEF Indexed
  <2>3. ASSUME NEW r \in Seqs, NEW i \in DOMAIN tab2[r],
               i > done[r] \div BlockSize
        PROVE  q.hash[tab2[r][i]] = Root
    <3>1. CASE r = s
      <4>1. tab2[r] = t /\ DOMAIN t = 1..(Len(tab[s]) + n)
        BY <1>5, <3>1, LenProperties DEF Put
      <4>2. DOMAIN tab[s] = 1..Len(tab[s]) /\ Len(tab[s]) \in Nat
        BY <1>1, LenProperties
      <4>3. CASE i \in DOMAIN tab[s]
        <5>1. t[i] = tab[s][i]
          BY <1>1, <1>2, <4>1, <4>2, <4>3, ConcatProperties DEF t
        <5>2. t[i] \in Block /\ p.hash[t[i]] = Root
          BY <5>1, <4>3, <1>1, <2>3, <3>1, LenProperties DEF Indexed
        <5> QED BY <4>1, <5>2, <1>6
      <4>4. CASE i \notin DOMAIN tab[s]
        <5>1. i - Len(tab[s]) \in 1..Len(fresh) /\ ~ (i <= Len(tab[s]))
          BY <4>1, <4>2, <4>4, <1>2, <2>3
        <5>2. t[i] = fresh[i - Len(tab[s])]
          BY <1>1, <1>2, <4>1, <4>2, <5>1, <2>3, ConcatProperties DEF t
        <5>3. t[i] \in P
          BY <5>1, <5>2, <1>2 DEF Elems
        <5> QED BY <5>3, <4>1, <1>3, <1>6
      <4> QED BY <4>3, <4>4
    <3>2. CASE r # s
      <4>1. tab2[r] = tab[r] /\ tab[r] \in Seq(Block) BY <3>2 DEF Put
      <4>2. tab[r][i] \in Block /\ p.hash[tab[r][i]] = Root
        BY <4>1, <2>3, LenProperties DEF Indexed
      <4> QED BY <4>1, <4>2, <1>6
    <3> QED BY <3>1, <3>2
  <2> QED BY <2>1, <2>2, <2>3 DEF Indexed
<1>10. Extended(p, tab[s], n) = [pool |-> q, table |-> t]
  BY DEF Extended, q, t, fresh
<1> QED BY <1>5, <1>7, <1>8, <1>9, <1>10

(* The first c blocks of toks are in the cache index.                      *)
InCache(p, toks, c) ==
  /\ c \in Nat /\ c * BlockSize <= Len(toks)
  /\ \A i \in 1..c : Chain(toks, i) \in DOMAIN p.map

(* The blocks of a cached prefix are different blocks and carry a hash.    *)
LEMMA CachedTableFacts ==
  ASSUME NEW Token, NEW p, PoolTyped(p, Token),
         \A h \in DOMAIN p.map : p.hash[p.map[h]] = h /\ h # Root,
         NEW toks \in Seq(Token), NEW c, InCache(p, toks, c)
  PROVE  /\ CachedTable(p, toks, c) \in Seq(Block)
         /\ Len(CachedTable(p, toks, c)) = c
         /\ DOMAIN CachedTable(p, toks, c) = 1..c
         /\ Elems(CachedTable(p, toks, c)) = Cached(p, toks, c)
         /\ Distinct(CachedTable(p, toks, c))
         /\ Cached(p, toks, c) \subseteq Block
         /\ \A b \in Cached(p, toks, c) : p.hash[b] # Root
<1> DEFINE hits == Cached(p, toks, c)
           t == CachedTable(p, toks, c)
<1>2. ASSUME NEW i \in 1..c
      PROVE  /\ t[i] \in Block
             /\ p.hash[t[i]] = Chain(toks, i) /\ p.hash[t[i]] # Root
             /\ Len(Chain(toks, i)) = i * BlockSize
  <2>1. i \in Nat /\ i * BlockSize <= Len(toks)
    <3>1. i \in Nat /\ i <= c BY <1>2 DEF InCache
    <3>2. i * BlockSize <= c * BlockSize /\ i * BlockSize \in Nat
          /\ c * BlockSize \in Nat
      BY <3>1, MulMonotone DEF InCache
    <3>3. Len(toks) \in Nat BY LenProperties
    <3> QED BY <3>1, <3>2, <3>3 DEF InCache
  <2>2. Len(Chain(toks, i)) = i * BlockSize
    BY <2>1, ChainFacts
  <2> QED BY <1>2, <2>2 DEF PoolTyped, InCache, CachedTable
<1>3. /\ t \in [1..c -> Block] /\ DOMAIN t = 1..c
      /\ hits = {t[i] : i \in 1..c}
  <2>1. hits = {t[i] : i \in 1..c}
    BY DEF Cached, CachedTable
  <2> HIDE DEF hits
  <2> QED BY <1>2, <2>1 DEF CachedTable
<1>4. t \in Seq(Block) /\ Len(t) = c
  <2> HIDE DEF t
  <2>1. t \in Seq(Block) BY <1>3, SeqDef DEF InCache
  <2>2. DOMAIN t = 1..Len(t) /\ Len(t) \in Nat BY <2>1, LenProperties
  <2> QED BY <1>3, <2>1, <2>2 DEF InCache
<1>5. Elems(t) = hits /\ hits \subseteq Block
  <2> HIDE DEF t, hits
  <2> QED BY <1>3, <1>4 DEF Elems
<1>6. Distinct(t)
  <2> SUFFICES ASSUME NEW i \in 1..c, NEW j \in 1..c, t[i] = t[j] PROVE i = j
    <3> HIDE DEF t
    <3> QED BY <1>3 DEF Distinct
  <2> HIDE DEF t
  <2>1. i * BlockSize = j * BlockSize BY <1>2
  <2>2. i < j \/ j < i \/ i = j OBVIOUS
  <2>3. i \in Nat /\ j \in Nat /\ i * BlockSize \in Nat /\ j * BlockSize \in Nat
    BY MulMonotone
  <2>4. i < j => i * BlockSize + BlockSize <= j * BlockSize BY <2>3, MulMonotone
  <2>5. j < i => j * BlockSize + BlockSize <= i * BlockSize BY <2>3, MulMonotone
  <2> QED BY <2>1, <2>2, <2>3, <2>4, <2>5, PoolAssumption
<1>7. \A b \in hits : p.hash[b] # Root
  <2> HIDE DEF t, hits
  <2> QED BY <1>2, <1>3
<1> QED BY <1>3, <1>4, <1>5, <1>6, <1>7

(* Reusing the blocks of a cached prefix keeps the accounts: the blocks    *)
(* are different ones, they carry a hash, and one more table holds them.   *)
LEMMA ShareFacts ==
  ASSUME NEW Token, NEW Seqs, IsFiniteSet(Seqs),
         NEW tab \in [Seqs -> Seq(Block)],
         NEW done, DOMAIN done = Seqs,
         NEW s \in Seqs, HasNoBlocks(tab, s),
         NEW p, PoolTyped(p, Token), Accounts(p, tab, Seqs),
         Indexed(p, tab, done, Seqs),
         NEW toks \in Seq(Token), NEW c, InCache(p, toks, c)
  PROVE  LET hits == Cached(p, toks, c)
             q == ShareCached(p, hits)
             t == CachedTable(p, toks, c)
         IN  /\ PoolTyped(q, Token)
             /\ t \in Seq(Block) /\ Len(t) = c /\ Elems(t) = hits
             /\ Distinct(t) /\ hits \subseteq Block
             /\ Accounts(q, Put(tab, s, t), Seqs)
             /\ Indexed(q, Put(tab, s, t), Put(done, s, c * BlockSize), Seqs)
<1> DEFINE hits == Cached(p, toks, c)
           q == ShareCached(p, hits)
           t == CachedTable(p, toks, c)
           tab2 == Put(tab, s, t)
           done2 == Put(done, s, c * BlockSize)
<1>1. /\ p.free \in Seq(Block) /\ Distinct(p.free) /\ p.used \subseteq Block
      /\ Elems(p.free) = Block \ p.used
      /\ p.ref \in [Block -> Nat] /\ p.hash \in [Block -> Seq(Token)]
  BY DEF PoolTyped, Accounts
<1>2. /\ t \in Seq(Block) /\ Len(t) = c /\ DOMAIN t = 1..c
      /\ Elems(t) = hits /\ Distinct(t) /\ hits \subseteq Block
      /\ \A b \in hits : p.hash[b] # Root
  BY CachedTableFacts DEF Indexed
<1> HIDE DEF hits, t
<1>8. /\ DOMAIN q = {"ref", "hash", "map", "free", "used"}
      /\ q.ref = [b \in Block |-> IF b \notin hits THEN p.ref[b]
                                  ELSE IF b \in p.used THEN p.ref[b] + 1 ELSE 1]
      /\ q.hash = p.hash /\ q.map = p.map
      /\ q.free = Keep(p.free, Block \ hits)
      /\ q.used = p.used \union hits
  BY DEF ShareCached, PoolTyped
<1> HIDE DEF q
<1>9. /\ q.free \in Seq(Block) /\ Distinct(q.free)
      /\ Elems(q.free) = Block \ q.used
  <2>1. /\ q.free \in Seq(Block) /\ Distinct(q.free)
        /\ Elems(q.free) = Elems(p.free) \cap (Block \ hits)
    BY <1>1, <1>8, KeepFacts
  <2> QED BY <2>1, <1>1, <1>8
<1>10. PoolTyped(q, Token)
  <2>1. q.ref \in [Block -> Nat] BY <1>1, <1>8
  <2> QED BY <1>1, <1>2, <1>8, <1>9, <2>1 DEF PoolTyped
<1>12. Accounts(q, tab2, Seqs)
  <2>1. ASSUME NEW b \in Block
        PROVE  q.ref[b] = HolderCount(tab2, Seqs, b)
    <3>1. p.ref[b] = HolderCount(tab, Seqs, b) BY DEF Accounts
    <3>2. t \in Seq(Block) BY <1>2
    <3>3. /\ b \in Elems(t) =>
               HolderCount(tab2, Seqs, b) = HolderCount(tab, Seqs, b) + 1
          /\ b \notin Elems(t) =>
               HolderCount(tab2, Seqs, b) = HolderCount(tab, Seqs, b)
      BY <3>2, FirstTableFacts
    <3>5. b \notin p.used => p.ref[b] = 0 BY <1>1 DEF Accounts
    <3> QED BY <3>1, <3>3, <3>5, <1>1, <1>2, <1>8
  <2>2. \A r \in Seqs : Distinct(tab2[r])
    BY <1>2 DEF Accounts, Put
  <2>3. q.used = {b \in Block : q.ref[b] > 0}
    BY <1>1, <1>2, <1>8 DEF Accounts
  <2> QED BY <1>9, <2>1, <2>2, <2>3 DEF Accounts
<1>13. Indexed(q, tab2, done2, Seqs)
  <2>1. \A h \in DOMAIN q.map : q.hash[q.map[h]] = h /\ h # Root
    BY <1>8 DEF Indexed
  <2>2. \A b \in Block : q.hash[b] = Root => q.ref[b] <= 1
    BY <1>2, <1>8 DEF Indexed
  <2>3. ASSUME NEW r \in Seqs, NEW i \in DOMAIN tab2[r],
               i > done2[r] \div BlockSize
        PROVE  q.hash[tab2[r][i]] = Root
    <3>1. CASE r = s
      <4>1. tab2[r] = t /\ done2[r] = c * BlockSize BY <3>1 DEF Put
      <4>2. i \in 1..c BY <4>1, <2>3, <1>2
      <4>3. (c * BlockSize) \div BlockSize = c
        BY PoolAssumption DEF InCache
      <4> QED BY <4>1, <4>2, <4>3, <2>3 DEF InCache
    <3>2. CASE r # s
      <4>1. tab2[r] = tab[r] /\ done2[r] = done[r] BY <3>2 DEF Put
      <4> QED BY <4>1, <2>3, <1>8 DEF Indexed
    <3> QED BY <3>1, <3>2
  <2> QED BY <2>1, <2>2, <2>3 DEF Indexed
<1> QED BY <1>2, <1>2, <1>10, <1>12, <1>13 DEF q, t, hits

(* As many members as positions, when nothing repeats.                     *)
LEMMA ImageCardinality ==
  ASSUME NEW q \in Seq(Block), Distinct(q), NEW S \in SUBSET (1..Len(q))
  PROVE  Cardinality({q[i] : i \in S}) = Cardinality(S)
<1> DEFINE T == {q[i] : i \in S}
           f == [i \in S |-> q[i]]
<1>1. Len(q) \in Nat /\ DOMAIN q = 1..Len(q)
  BY LenProperties
<1>2. f \in Bijection(S, T)
  <2>1. f \in Injection(S, T)
    BY <1>1 DEF Injection, IsInjective, Distinct
  <2>2. f \in Surjection(S, T)
    BY DEF Surjection
  <2> QED BY <2>1, <2>2 DEF Bijection
<1>3. IsFiniteSet(S)
  <2>1. IsFiniteSet(1..Len(q)) BY <1>1, FS_Interval
  <2> QED BY <2>1, FS_Subset
<1> HIDE DEF f, T
<1>4. Cardinality(T) = Cardinality(S)
  <2>1. ExistsBijection(S, T) BY <1>2 DEF ExistsBijection
  <2> QED BY <2>1, <1>3, FS_Bijection
<1> QED BY <1>4 DEF T

(* What can_allocate's answer c promises: the c blocks are cached, and     *)
(* after they are taken the free deque still holds the rest of the blocks. *)
LEMMA CanAllocateFacts ==
  ASSUME NEW Token, NEW p, PoolTyped(p, Token),
         \A h \in DOMAIN p.map : p.hash[p.map[h]] = h /\ h # Root,
         Distinct(p.free), Elems(p.free) = Block \ p.used,
         NEW toks \in Seq(Token), Len(toks) > 0, NEW m \in Nat,
         CanAllocate(p, toks, m) # -1
  PROVE  LET c == CanAllocate(p, toks, m)
         IN  /\ InCache(p, toks, c) /\ c * BlockSize < Len(toks)
             /\ c <= CachedBlocks(p, toks) /\ c <= BlocksFor(m)
             /\ m >= CachedBlocks(p, toks) * BlockSize => c = CachedBlocks(p, toks)
             /\ BlocksFor(m) - c
                  <= Len(ShareCached(p, Cached(p, toks, c)).free)
<1> DEFINE c == CanAllocate(p, toks, m)
           K == CachedBlocks(p, toks)
           r == BlocksFor(m)
           a == ActiveCachedBlocks(p, toks)
           t == CachedTable(p, toks, c)
           hits == Cached(p, toks, c)
           kept == Keep(p.free, Block \ hits)
<1>1. /\ Len(toks) \in Nat /\ K \in Nat /\ r \in Nat
      /\ K < BlocksFor(Len(toks)) /\ BlocksFor(Len(toks)) \in Nat
      /\ \A i \in 1..K : Hit(p, toks, i)
      /\ BlocksFor(Len(toks)) * BlockSize < Len(toks) + BlockSize
  <2>1. Len(toks) \in Nat BY LenProperties
  <2>2. /\ BlocksFor(Len(toks)) \in Nat /\ r \in Nat
        /\ BlocksFor(Len(toks)) * BlockSize < Len(toks) + BlockSize
    BY <2>1, BlocksForFacts
  <2>3. K \in 0..(BlocksFor(Len(toks)) - 1) /\ \A i \in 1..K : Hit(p, toks, i)
    BY CachedBlocksFacts
  <2> HIDE DEF K, r
  <2> QED BY <2>1, <2>2, <2>3
<1>16. a \in Nat /\ Len(p.free) \in Nat
  <2>1. IsFiniteSet(1..K) BY <1>1, FS_Interval
  <2>2. IsFiniteSet({i \in 1..K : p.map[Chain(toks, i)] \in p.used})
    BY <2>1, FS_Subset
  <2>3. Len(p.free) \in Nat BY LenProperties DEF PoolTyped
  <2> QED BY <2>2, <2>3, FS_CardinalityType DEF ActiveCachedBlocks
<1>2. /\ c = IF K < r THEN K ELSE r
      /\ Len(p.free) >= r - (IF a < c THEN a ELSE c)
  <2> DEFINE least == IF K < r THEN K ELSE r
             active == IF a < least THEN a ELSE least
  <2>1. c = IF Len(p.free) < r - active THEN -1 ELSE least
    BY DEF CanAllocate
  <2> HIDE DEF K, r, a, c
  <2>2. least \in Nat /\ active \in Nat BY <1>1, <1>16
  <2>3. c # -1 BY DEF c
  <2>4. c = least /\ ~ (Len(p.free) < r - active) BY <2>1, <2>3
  <2> HIDE DEF active
  <2>5. Len(p.free) >= r - active BY <2>2, <2>4, <1>1, <1>16
  <2> QED BY <2>4, <2>5 DEF active
<1> HIDE DEF c, K, r, a
<1>3. c \in Nat /\ c <= K /\ c <= r
  BY <1>1, <1>2
<1>4. c * BlockSize < Len(toks)
  <2>1. c * BlockSize + BlockSize <= BlocksFor(Len(toks)) * BlockSize
        /\ BlocksFor(Len(toks)) * BlockSize \in Nat /\ c * BlockSize \in Nat
    <3>1. c < BlocksFor(Len(toks)) BY <1>1, <1>3
    <3> QED BY <3>1, <1>1, <1>3, MulMonotone
  <2> QED BY <2>1, <1>1, PoolAssumption
<1>5. InCache(p, toks, c)
  <2>1. \A i \in 1..c : Hit(p, toks, i) BY <1>1, <1>3
  <2>2. c * BlockSize \in Nat BY <1>3, MulMonotone
  <2> QED BY <2>1, <2>2, <1>1, <1>3, <1>4 DEF InCache, Hit
<1>6. m >= K * BlockSize => c = K
  <2> SUFFICES ASSUME m >= K * BlockSize, r < K PROVE FALSE
    BY <1>1, <1>2
  <2>1. r * BlockSize + BlockSize <= K * BlockSize
        /\ r * BlockSize \in Nat /\ K * BlockSize \in Nat
    BY <1>1, MulMonotone
  <2>2. m <= r * BlockSize BY BlocksForFacts DEF r
  <2> QED BY <2>1, <2>2, PoolAssumption
<1>7. /\ t \in Seq(Block) /\ Len(t) = c /\ Distinct(t) /\ Elems(t) = hits
      /\ hits \subseteq Block /\ DOMAIN t = 1..c
  BY <1>5, CachedTableFacts
<1>8. IsFiniteSet(hits) /\ Cardinality(hits) = c
  BY <1>7, DistinctLen
<1>9. /\ p.free \in Seq(Block) /\ p.used \subseteq Block
      /\ IsFiniteSet(Elems(p.free)) /\ Cardinality(Elems(p.free)) = Len(p.free)
      /\ Len(p.free) \in Nat
  BY DistinctLen, LenProperties DEF PoolTyped
<1>10. Len(kept) = Cardinality(Elems(p.free) \ hits)
  <2>1. /\ kept \in Seq(Block) /\ Distinct(kept)
        /\ Elems(kept) = Elems(p.free) \cap (Block \ hits)
    BY <1>9, KeepFacts
  <2>2. Elems(p.free) \cap (Block \ hits) = Elems(p.free) \ hits
    OBVIOUS
  <2> HIDE DEF kept
  <2> QED BY <2>1, <2>2, DistinctLen
<1>11. /\ Cardinality(Elems(p.free) \ hits)
            = Len(p.free) - Cardinality(Elems(p.free) \cap hits)
       /\ Cardinality(Elems(p.free) \cap hits) \in Nat
  <2>1. IsFiniteSet(Elems(p.free) \cap hits) BY <1>9, FS_Intersection
  <2> QED BY <2>1, <1>9, FS_Difference, FS_CardinalityType
<1>12. /\ Cardinality(Elems(p.free) \cap hits)
            = c - Cardinality(hits \cap p.used)
       /\ Cardinality(hits \cap p.used) \in Nat
  <2>1. Elems(p.free) \cap hits = hits \ p.used
    BY <1>7
  <2>2. IsFiniteSet(hits \cap p.used) BY <1>8, FS_Intersection
  <2> HIDE DEF hits
  <2> QED BY <2>1, <2>2, <1>8, FS_Difference, FS_CardinalityType
<1>13. K <= r => Cardinality(hits \cap p.used) = a
  <2> SUFFICES ASSUME K <= r PROVE Cardinality(hits \cap p.used) = a
    OBVIOUS
  <2>1. c = K BY <1>1, <1>2
  <2> DEFINE A == {i \in 1..K : p.map[Chain(toks, i)] \in p.used}
  <2>2. a = Cardinality(A) BY DEF a, K, ActiveCachedBlocks
  <2>3. \A i \in 1..c : t[i] = p.map[Chain(toks, i)] BY DEF CachedTable
  <2>4. hits = {t[i] : i \in 1..c} BY DEF Cached, CachedTable
  <2> HIDE DEF t, hits
  <2>5. hits \cap p.used = {t[i] : i \in A}
    BY <2>1, <2>3, <2>4
  <2>6. A \in SUBSET (1..Len(t)) BY <2>1, <1>7
  <2> HIDE DEF A
  <2> QED BY <2>2, <2>5, <2>6, <1>7, ImageCardinality
<1>14. r - c <= Len(kept)
  <2> HIDE DEF kept, hits
  <2>1. CASE K <= r
    <3>1. a \in Nat BY <1>12, <1>13, <2>1
    <3>2. c = K BY <1>1, <1>2, <2>1
    <3>3. Len(kept) = Len(p.free) - (c - a)
      BY <2>1, <1>10, <1>11, <1>12, <1>13
    <3>4. Len(p.free) >= r - a
      <4>1. CASE a < c BY <4>1, <1>2
      <4>2. CASE ~ (a < c)
        <5>1. Len(p.free) >= r - c BY <4>2, <1>2
        <5>2. Len(p.free) \in Nat /\ r \in Nat /\ c \in Nat /\ a \in Nat
          BY <1>1, <1>3, <1>16
        <5> QED BY <4>2, <5>1, <5>2
      <4> QED BY <4>1, <4>2
    <3> HIDE DEF t
    <3> QED BY <3>3, <3>4, <1>1, <1>3, <1>16
  <2>2. CASE ~ (K <= r)
    <3>1. c = r BY <1>1, <1>2, <2>2
    <3>2. Cardinality(Elems(p.free) \ hits) \in Nat
      <4>1. IsFiniteSet(Elems(p.free) \ hits) BY <1>9, FS_Difference
      <4> QED BY <4>1, FS_CardinalityType
    <3> QED BY <3>1, <3>2, <1>1, <1>10
  <2> QED BY <2>1, <2>2
<1>15. ShareCached(p, hits).free = kept
  BY DEF ShareCached
<1> QED BY <1>3, <1>4, <1>5, <1>6, <1>14, <1>15 DEF c, K, r

(* can_allocate says no only when the free deque is shorter than the       *)
(* sequence is long.                                                       *)
LEMMA CannotAllocate ==
  ASSUME NEW Token, NEW p, PoolTyped(p, Token), NEW toks \in Seq(Token),
         Len(toks) > 0, NEW m \in Nat, CanAllocate(p, toks, m) = -1
  PROVE  Len(p.free) < BlocksFor(m)
<1> DEFINE K == CachedBlocks(p, toks)
           r == BlocksFor(m)
           a == ActiveCachedBlocks(p, toks)
           f == Len(p.free)
           least == IF K < r THEN K ELSE r
           active == IF a < least THEN a ELSE least
<1>1. f \in Nat /\ Len(toks) \in Nat /\ r \in Nat
  BY LenProperties, BlocksForFacts DEF PoolTyped
<1>2. K \in Nat
  <2>1. BlocksFor(Len(toks)) \in Nat BY <1>1, BlocksForFacts
  <2>2. K \in 0..(BlocksFor(Len(toks)) - 1) BY CachedBlocksFacts
  <2> HIDE DEF K
  <2> QED BY <2>1, <2>2
<1>3. a \in Nat
  <2>1. IsFiniteSet(1..K) BY <1>2, FS_Interval
  <2>2. IsFiniteSet({i \in 1..K : p.map[Chain(toks, i)] \in p.used})
    BY <2>1, FS_Subset
  <2> QED BY <2>2, FS_CardinalityType DEF ActiveCachedBlocks
<1>4. -1 = IF f < r - active THEN -1 ELSE least BY DEF CanAllocate
<1> HIDE DEF K, r, a, f
<1>5. least \in Nat /\ active \in Nat BY <1>1, <1>2, <1>3
<1> HIDE DEF least, active
<1>6. f < r BY <1>1, <1>4, <1>5
<1> QED BY <1>6 DEF f, r

(* allocate() keeps the accounts and gives the sequence the blocks of m    *)
(* tokens, of which c whole blocks are computed already.                   *)
LEMMA AllocatedFacts ==
  ASSUME NEW Token, NEW Seqs, IsFiniteSet(Seqs),
         NEW tab \in [Seqs -> Seq(Block)],
         NEW done, DOMAIN done = Seqs,
         NEW s \in Seqs, HasNoBlocks(tab, s),
         NEW p, PoolTyped(p, Token), Accounts(p, tab, Seqs),
         Indexed(p, tab, done, Seqs),
         NEW toks \in Seq(Token), NEW c, InCache(p, toks, c),
         NEW m \in Nat, c <= BlocksFor(m),
         BlocksFor(m) - c <= Len(ShareCached(p, Cached(p, toks, c)).free)
  PROVE  LET new == Allocated(p, toks, c, m)
         IN  /\ PoolTyped(new.pool, Token)
             /\ new.table \in Seq(Block) /\ Len(new.table) = BlocksFor(m)
             /\ Accounts(new.pool, Put(tab, s, new.table), Seqs)
             /\ Indexed(new.pool, Put(tab, s, new.table),
                        Put(done, s, c * BlockSize), Seqs)
<1> DEFINE q == ShareCached(p, Cached(p, toks, c))
           t == CachedTable(p, toks, c)
           tab1 == Put(tab, s, t)
           done1 == Put(done, s, c * BlockSize)
           n == BlocksFor(m) - c
           new == Extended(q, t, n)
<1>1. /\ PoolTyped(q, Token) /\ t \in Seq(Block) /\ Len(t) = c
      /\ Accounts(q, tab1, Seqs) /\ Indexed(q, tab1, done1, Seqs)
  BY ShareFacts
<1>2. n \in 0..Len(q.free) /\ c \in Nat /\ BlocksFor(m) \in Nat
  <2>1. BlocksFor(m) \in Nat BY BlocksForFacts
  <2>2. Len(q.free) \in Nat BY <1>1, LenProperties DEF PoolTyped
  <2> HIDE DEF q
  <2> QED BY <2>1, <2>2 DEF InCache, q
<1>3. Allocated(p, toks, c, m) = new
  <2>1. n = IF BlocksFor(m) > c THEN BlocksFor(m) - c ELSE 0
    BY <1>2
  <2> HIDE DEF n
  <2> QED BY <2>1 DEF Allocated
<1>4. tab1 \in [Seqs -> Seq(Block)] /\ tab1[s] = t
  BY <1>1 DEF Put
<1>5. Put(tab1, s, new.table) = Put(tab, s, new.table)
  <2> HIDE DEF new
  <2> QED BY DEF Put
<1> HIDE DEF q, t, n, tab1, done1
<1>6. /\ PoolTyped(new.pool, Token)
      /\ new.table \in Seq(Block) /\ Len(new.table) = Len(t) + n
      /\ Accounts(new.pool, Put(tab1, s, new.table), Seqs)
      /\ Indexed(new.pool, Put(tab1, s, new.table), done1, Seqs)
  <2>1. /\ PoolTyped(q, Token) /\ Accounts(q, tab1, Seqs)
        /\ Indexed(q, tab1, done1, Seqs) /\ tab1 \in [Seqs -> Seq(Block)]
        /\ n \in 0..Len(q.free)
    BY <1>1, <1>2, <1>4
  <2> DEFINE new1 == Extended(q, tab1[s], n)
  <2>2. PoolTyped(new1.pool, Token)
    BY <2>1, ExtendedFacts
  <2>3. new1.table \in Seq(Block)
    BY <2>1, ExtendedFacts
  <2>7. Len(new1.table) = Len(tab1[s]) + n
    BY <2>1, ExtendedFacts
  <2>4. Accounts(new1.pool, Put(tab1, s, new1.table), Seqs)
    BY <2>1, ExtendedFacts
  <2>5. Indexed(new1.pool, Put(tab1, s, new1.table), done1, Seqs)
    BY <2>1, ExtendedFacts
  <2>6. new1 = new BY <1>4
  <2> HIDE DEF new1, new
  <2> QED BY <1>4, <2>2, <2>3, <2>4, <2>5, <2>6, <2>7
<1>7. Len(new.table) = BlocksFor(m)
  BY <1>1, <1>2, <1>6 DEF n
<1> HIDE DEF new
<1> QED BY <1>3, <1>5, <1>6, <1>7 DEF done1

(* A pool before any allocation.                                           *)
LEMMA EmptyPoolFacts ==
  ASSUME NEW Token, NEW Seqs, NEW tab, NEW done, \A s \in Seqs : tab[s] = << >>
  PROVE  /\ PoolTyped(EmptyPool, Token)
         /\ Accounts(EmptyPool, tab, Seqs)
         /\ Indexed(EmptyPool, tab, done, Seqs)
<1> DEFINE free0 == [i \in 1..NumBlocks |-> i - 1]
<1>1. /\ free0 \in Seq(Block) /\ Len(free0) = NumBlocks
      /\ Elems(free0) = Block /\ Distinct(free0)
  <2>1. NumBlocks \in Nat BY PoolAssumption
  <2>2. free0 \in [1..NumBlocks -> Block] BY <2>1 DEF Block
  <2>3. free0 \in Seq(Block) BY <2>1, <2>2, SeqDef
  <2>4. DOMAIN free0 = 1..Len(free0) /\ Len(free0) \in Nat
    BY <2>3, LenProperties
  <2>5. DOMAIN free0 = 1..NumBlocks OBVIOUS
  <2>6. \A i \in 1..NumBlocks : free0[i] = i - 1 OBVIOUS
  <2> HIDE DEF free0
  <2>7. Len(free0) = NumBlocks
    <3>1. 1..NumBlocks = 1..Len(free0) BY <2>4, <2>5
    <3>2. NumBlocks \in 1..NumBlocks BY PoolAssumption
    <3>3. NumBlocks \in 1..Len(free0) /\ Len(free0) \in 1..Len(free0)
      BY <3>1, <3>2, <2>4
    <3>4. Len(free0) \in 1..NumBlocks BY <3>1, <3>3
    <3> DEFINE len == Len(free0)
    <3>5. len \in Nat /\ NumBlocks \in 1..len /\ len \in 1..NumBlocks
      BY <2>4, <3>3, <3>4
    <3> HIDE DEF len
    <3>6. len = NumBlocks BY <2>1, <3>5
    <3> QED BY <3>6 DEF len
  <2>8. Distinct(free0) BY <2>1, <2>5, <2>6 DEF Distinct
  <2>9. ASSUME NEW b \in Block PROVE b \in Elems(free0)
    <3>1. b + 1 \in 1..NumBlocks /\ (b + 1) - 1 = b BY <2>1 DEF Block
    <3> QED BY <3>1, <2>6, <2>7 DEF Elems
  <2>10. Elems(free0) \subseteq Block
    BY <2>3, <2>7, <2>2 DEF Elems
  <2> QED BY <2>3, <2>7, <2>8, <2>9, <2>10
<1> DEFINE pool == EmptyPool
<1>2. /\ DOMAIN pool = {"ref", "hash", "map", "free", "used"}
      /\ pool.ref = [b \in Block |-> 0] /\ pool.hash = [b \in Block |-> Root]
      /\ pool.map = << >> /\ pool.free = free0 /\ pool.used = {}
  BY DEF EmptyPool
<1>3. DOMAIN pool.map = {}
  BY <1>2
<1>4. << >> \in Seq(Token) /\ Elems(<< >>) = {} /\ DOMAIN << >> = {} /\ Distinct(<< >>)
  <2>1. << >> \in Seq(Token) /\ Len(<< >>) = 0 /\ DOMAIN << >> = 1..0
    BY EmptySeq, LenProperties
  <2>2. 1..0 = {}
    OBVIOUS
  <2> QED BY <2>1, <2>2 DEF Elems, Distinct
<1> HIDE DEF free0, pool
<1>5. PoolTyped(pool, Token)
  BY <1>1, <1>2, <1>3, <1>4 DEF PoolTyped, Root
<1>6. Accounts(pool, tab, Seqs)
  <2>1. ASSUME NEW b \in Block PROVE HolderCount(tab, Seqs, b) = 0
    <3>1. HoldersOf(tab, Seqs, b) = {}
      BY <1>4 DEF HoldersOf
    <3> QED BY <3>1, FS_EmptySet DEF HolderCount
  <2>2. \A s \in Seqs : Distinct(tab[s])
    BY <1>4
  <2> QED BY <1>1, <1>2, <2>1, <2>2 DEF Accounts
<1>7. Indexed(pool, tab, done, Seqs)
  <2>1. \A s \in Seqs : DOMAIN tab[s] = {}
    BY <1>4
  <2>2. \A b \in Block : pool.ref[b] <= 1
    BY <1>2
  <2> QED BY <1>3, <2>1, <2>2 DEF Indexed
<1> QED BY <1>5, <1>6, <1>7 DEF pool

(* deallocate() keeps the accounts: each block of the table loses one      *)
(* holder, and exactly those that lose the last one become free.           *)
LEMMA DeallocatedFacts ==
  ASSUME NEW Token, NEW Seqs, IsFiniteSet(Seqs),
         NEW tab \in [Seqs -> Seq(Block)],
         NEW done, DOMAIN done = Seqs, NEW s \in Seqs,
         NEW p, PoolTyped(p, Token), Accounts(p, tab, Seqs),
         Indexed(p, tab, done, Seqs)
  PROVE  LET q == Deallocated(p, tab[s])
         IN  /\ PoolTyped(q, Token)
             /\ Accounts(q, Put(tab, s, << >>), Seqs)
             /\ Indexed(q, Put(tab, s, << >>), Put(done, s, 0), Seqs)
<1> DEFINE q == Deallocated(p, tab[s])
           E == Elems(tab[s])
           last == {b \in E : p.ref[b] = 1}
           back == Keep(Reversed(tab[s]), last)
           tab2 == Put(tab, s, << >>)
           done2 == Put(done, s, 0)
<1>1. /\ p.free \in Seq(Block) /\ Distinct(p.free) /\ p.used \subseteq Block
      /\ Elems(p.free) = Block \ p.used
      /\ p.used = {b \in Block : p.ref[b] > 0}
      /\ p.ref \in [Block -> Nat] /\ p.hash \in [Block -> Seq(Token)]
      /\ tab[s] \in Seq(Block) /\ Distinct(tab[s])
      /\ \A b \in Block : p.ref[b] = HolderCount(tab, Seqs, b)
  BY DEF PoolTyped, Accounts
<1>2. E \subseteq Block
  BY <1>1, LenProperties DEF Elems
<1>3. << >> \in Seq(Block) /\ Elems(<< >>) = {} /\ DOMAIN << >> = {}
      /\ Distinct(<< >>)
  <2>1. << >> \in Seq(Block) /\ Len(<< >>) = 0 /\ DOMAIN << >> = 1..0
    BY EmptySeq, LenProperties
  <2>2. 1..0 = {} OBVIOUS
  <2> QED BY <2>1, <2>2 DEF Elems, Distinct
<1>4. ASSUME NEW b \in Block
      PROVE  /\ b \in E => HolderCount(tab2, Seqs, b) = p.ref[b] - 1
             /\ b \in E => p.ref[b] > 0
             /\ b \notin E => HolderCount(tab2, Seqs, b) = p.ref[b]
  <2> DEFINE none == << >>
  <2>1. none \in Seq(Block) /\ b \notin Elems(none) BY <1>3
  <2> HIDE DEF none
  <2>2. /\ b \in Elems(tab[s]) => HolderCount(tab, Seqs, b) > 0
        /\ b \notin Elems(none) /\ b \in Elems(tab[s]) =>
             HolderCount(Put(tab, s, none), Seqs, b)
               = HolderCount(tab, Seqs, b) - 1
        /\ (b \in Elems(none) <=> b \in Elems(tab[s])) =>
             HolderCount(Put(tab, s, none), Seqs, b) = HolderCount(tab, Seqs, b)
    BY <2>1, HoldersFacts
  <2> QED BY <2>1, <2>2, <1>1 DEF none
<1>5. /\ back \in Seq(Block) /\ Distinct(back) /\ Elems(back) = last
  <2>1. /\ Reversed(tab[s]) \in Seq(Block) /\ Distinct(Reversed(tab[s]))
        /\ Elems(Reversed(tab[s])) = E
    BY <1>1, ReversedFacts
  <2>2. /\ back \in Seq(Block) /\ Distinct(back)
        /\ Elems(back) = Elems(Reversed(tab[s])) \cap last
    <3> HIDE DEF last
    <3> QED BY <2>1, KeepFacts
  <2> QED BY <2>1, <2>2
<1>6. /\ DOMAIN q = {"ref", "hash", "map", "free", "used"}
      /\ q.ref = [b \in Block |-> IF b \in E THEN p.ref[b] - 1 ELSE p.ref[b]]
      /\ q.hash = p.hash /\ q.map = p.map
      /\ q.free = p.free \o back
      /\ q.used = p.used \ last
  BY DEF Deallocated
<1>7. last \subseteq p.used /\ last \subseteq Block
  BY <1>1, <1>2
<1> HIDE DEF q, back, E
<1>8. /\ q.free \in Seq(Block) /\ Distinct(q.free)
      /\ Elems(q.free) = Block \ q.used
  <2> HIDE DEF last
  <2>1. Elems(p.free) \cap Elems(back) = {} BY <1>1, <1>5, <1>7
  <2>2. /\ p.free \in Seq(Block) /\ back \in Seq(Block)
        /\ Distinct(p.free) /\ Distinct(back)
    BY <1>1, <1>5
  <2>3. /\ p.free \o back \in Seq(Block) /\ Distinct(p.free \o back)
        /\ Elems(p.free \o back) = Elems(p.free) \union Elems(back)
    BY <2>1, <2>2, ConcatDistinct
  <2> QED BY <2>3, <1>1, <1>5, <1>6, <1>7
<1>9. PoolTyped(q, Token)
  <2>1. \A b \in Block : q.ref[b] \in Nat
    BY <1>1, <1>4, <1>6
  <2>2. q.ref \in [Block -> Nat] BY <2>1, <1>6
  <2>3. q.used \subseteq Block BY <1>1, <1>6
  <2> QED BY <1>6, <1>8, <2>2, <2>3 DEF PoolTyped
<1>10. Accounts(q, tab2, Seqs)
  <2>1. \A b \in Block : q.ref[b] = HolderCount(tab2, Seqs, b)
    BY <1>4, <1>6
  <2>2. \A r \in Seqs : Distinct(tab2[r])
    BY <1>3 DEF Accounts, Put
  <2>3. q.used = {b \in Block : q.ref[b] > 0}
    BY <1>1, <1>2, <1>4, <1>6
  <2> QED BY <1>8, <2>1, <2>2, <2>3 DEF Accounts
<1>11. Indexed(q, tab2, done2, Seqs)
  <2>1. \A h \in DOMAIN q.map : q.hash[q.map[h]] = h /\ h # Root
    BY <1>6 DEF Indexed
  <2>2. \A b \in Block : q.hash[b] = Root => q.ref[b] <= 1
    BY <1>1, <1>4, <1>6 DEF Indexed
  <2>3. ASSUME NEW r \in Seqs, NEW i \in DOMAIN tab2[r],
               i > done2[r] \div BlockSize
        PROVE  q.hash[tab2[r][i]] = Root
    <3>1. CASE r = s
      <4>1. tab2[r] = << >> BY <3>1 DEF Put
      <4> QED BY <4>1, <2>3, <1>3
    <3>2. CASE r # s
      <4>1. tab2[r] = tab[r] /\ done2[r] = done[r] BY <3>2 DEF Put
      <4> QED BY <4>1, <2>3, <1>6 DEF Indexed
    <3> QED BY <3>1, <3>2
  <2> QED BY <2>1, <2>2, <2>3 DEF Indexed
<1> QED BY <1>9, <1>10, <1>11 DEF q

(* Two tables that hold a block give it two holders.                       *)
LEMMA TwoHolders ==
  ASSUME NEW Seqs, IsFiniteSet(Seqs), NEW tab, NEW r \in Seqs, NEW s \in Seqs,
         r # s, NEW b, b \in Elems(tab[r]), b \in Elems(tab[s])
  PROVE  ~ (HolderCount(tab, Seqs, b) <= 1)
<1> DEFINE H == HoldersOf(tab, Seqs, b)
<1>1. H \subseteq Seqs /\ r \in H /\ s \in H
  BY DEF HoldersOf
<1> HIDE DEF H
<1>2. IsFiniteSet(H) /\ Cardinality(H) \in Nat
  BY <1>1, FS_Subset, FS_CardinalityType
<1>3. {r, s} \subseteq H /\ IsFiniteSet({r, s}) /\ Cardinality({r, s}) = 2
  <2>1. IsFiniteSet({r}) /\ Cardinality({r}) = 1 BY FS_Singleton
  <2>2. /\ IsFiniteSet({r} \union {s})
        /\ Cardinality({r} \union {s}) = Cardinality({r}) + 1
    BY <2>1, FS_AddElement
  <2>3. {r} \union {s} = {r, s} OBVIOUS
  <2> QED BY <2>1, <2>2, <2>3, <1>1
<1>4. 2 <= Cardinality(H)
  BY <1>2, <1>3, FS_Subset
<1> QED BY <1>2, <1>4 DEF H, HolderCount

(* hash_blocks() keeps the accounts and the index: the blocks it hashes    *)
(* belong to the table alone and had no hash, and their hashes differ.     *)
LEMMA HashedFacts ==
  ASSUME NEW Token, NEW Seqs, IsFiniteSet(Seqs),
         NEW tab \in [Seqs -> Seq(Block)],
         NEW done, DOMAIN done = Seqs, NEW s \in Seqs,
         NEW p, PoolTyped(p, Token), Accounts(p, tab, Seqs),
         Indexed(p, tab, done, Seqs),
         NEW toks \in Seq(Token), NEW d \in Nat, done[s] = d, NEW n \in Nat,
         d + n <= Len(tab[s]) * BlockSize, d + n <= Len(toks)
  PROVE  LET q == Hashed(p, toks, tab[s], d, n)
         IN  /\ PoolTyped(q, Token)
             /\ Accounts(q, tab, Seqs)
             /\ Indexed(q, tab, Put(done, s, d + n), Seqs)
<1> DEFINE table == tab[s]
           start == d \div BlockSize
           end == (d + n) \div BlockSize
           prefix == IF start = 0 THEN Root ELSE p.hash[table[start]]
           H(i) == ComputeHash(SubSeq(toks, start * BlockSize + 1, i * BlockSize),
                               prefix)
           new == (start + 1)..end
           At(b) == CHOOSE i \in new : table[i] = b
           Of(h) == CHOOSE i \in new : H(i) = h
           q == Hashed(p, toks, table, d, n)
           done2 == Put(done, s, d + n)
<1>1. /\ p.free \in Seq(Block) /\ p.used \subseteq Block
      /\ p.ref \in [Block -> Nat] /\ p.hash \in [Block -> Seq(Token)]
      /\ table \in Seq(Block) /\ Distinct(table)
      /\ Len(table) \in Nat /\ DOMAIN table = 1..Len(table)
      /\ \A i \in 1..Len(table) : table[i] \in Block
      /\ Len(toks) \in Nat
  BY LenProperties DEF PoolTyped, Accounts
<1>2. /\ start \in Nat /\ end \in Nat /\ start <= end
      /\ end * BlockSize <= d + n /\ start * BlockSize \in Nat
      /\ end * BlockSize \in Nat
  <2>1. /\ start \in Nat /\ start * BlockSize <= d /\ start * BlockSize \in Nat
    BY DivisionFacts, MulMonotone
  <2>2. /\ end \in Nat /\ end * BlockSize <= d + n /\ end * BlockSize \in Nat
        /\ d + n < end * BlockSize + BlockSize
    <3>1. d + n \in Nat OBVIOUS
    <3> QED BY <3>1, DivisionFacts, MulMonotone
  <2> HIDE DEF start, end
  <2>3. start <= end
    <3>1. d + n \in Nat /\ d <= d + n OBVIOUS
    <3> QED BY <3>1, DivisionMonotone DEF start, end
  <2> QED BY <2>1, <2>2, <2>3
<1>3. end <= Len(table)
  <2> HIDE DEF start, end, table
  <2>1. end * BlockSize <= Len(table) * BlockSize
    <3>1. Len(table) * BlockSize \in Nat BY <1>1, MulMonotone
    <3> QED BY <3>1, <1>2 DEF table
  <2> QED BY <2>1, <1>1, <1>2, MulCancel
<1>4. new \subseteq 1..Len(table) /\ new \subseteq Nat
  <2> DEFINE len == Len(table)
  <2>1. start \in Nat /\ end \in Nat /\ len \in Nat /\ end <= len
    BY <1>1, <1>2, <1>3
  <2> HIDE DEF start, end, len
  <2>2. new \subseteq 1..len /\ new \subseteq Nat BY <2>1
  <2> QED BY <2>2 DEF len
<1>5. prefix \in Seq(Token)
  <2>1. Root \in Seq(Token) BY EmptySeq DEF Root
  <2>2. start # 0 => table[start] \in Block
    BY <1>1, <1>2, <1>3
  <2> QED BY <2>1, <2>2, <1>1
<1> HIDE DEF start, end, prefix, table
<1>6. ASSUME NEW i \in new
      PROVE  /\ H(i) \in Seq(Token) /\ Len(H(i)) \in Nat
             /\ Len(H(i)) = Len(prefix) + (i * BlockSize - start * BlockSize)
             /\ H(i) # Root
  <2> DEFINE lo == start * BlockSize
             hi == i * BlockSize
  <2>1. i \in Nat /\ start < i /\ i <= end
    BY <1>2
  <2>2. lo \in Nat /\ hi \in Nat /\ lo + BlockSize <= hi /\ hi <= Len(toks)
    <3>1. lo + BlockSize <= hi /\ hi \in Nat /\ hi <= end * BlockSize
      BY <2>1, <1>2, MulMonotone
    <3> QED BY <3>1, <1>1, <1>2
  <2> HIDE DEF lo, hi
  <2>3. /\ SubSeq(toks, lo + 1, hi) \in Seq(Token)
        /\ Len(SubSeq(toks, lo + 1, hi)) = hi - lo
    <3>1. \A k \in (lo + 1)..hi : toks[k] \in Token
      BY <2>2, <1>1, LenProperties
    <3>2. /\ SubSeq(toks, lo + 1, hi) \in Seq(Token)
          /\ Len(SubSeq(toks, lo + 1, hi))
               = IF lo + 1 <= hi THEN hi - (lo + 1) + 1 ELSE 0
      BY <3>1, <2>2, SubSeqProperties
    <3>3. lo + 1 <= hi /\ hi - (lo + 1) + 1 = hi - lo
      BY <2>2, PoolAssumption
    <3> QED BY <3>2, <3>3
  <2>4. /\ prefix \o SubSeq(toks, lo + 1, hi) \in Seq(Token)
        /\ Len(prefix \o SubSeq(toks, lo + 1, hi)) = Len(prefix) + (hi - lo)
        /\ Len(prefix) \in Nat
    BY <2>3, <1>5, ConcatProperties, LenProperties
  <2>5. H(i) = prefix \o SubSeq(toks, lo + 1, hi)
    BY DEF ComputeHash, lo, hi
  <2> HIDE DEF H
  <2>6. Len(H(i)) > 0
    BY <2>2, <2>4, <2>5, PoolAssumption
  <2>7. H(i) # Root
    BY <2>6, EmptySeq DEF Root
  <2>8. H(i) \in Seq(Token) BY <2>4, <2>5
  <2>9. Len(H(i)) = Len(prefix) + (hi - lo) BY <2>4, <2>5
  <2>10. Len(H(i)) \in Nat BY <2>8, LenProperties
  <2> QED BY <2>7, <2>8, <2>9, <2>10 DEF lo, hi
<1>7. ASSUME NEW i \in new, NEW j \in new, H(i) = H(j)
      PROVE  i = j
  <2>1. /\ Len(H(i)) = Len(prefix) + (i * BlockSize - start * BlockSize)
        /\ Len(H(j)) = Len(prefix) + (j * BlockSize - start * BlockSize)
    BY <1>6
  <2>2. Len(prefix) \in Nat /\ i \in Nat /\ j \in Nat
    BY <1>4, <1>5, LenProperties
  <2>3. i * BlockSize \in Nat /\ j * BlockSize \in Nat
    BY <2>2, MulMonotone
  <2> HIDE DEF H
  <2> DEFINE x == i * BlockSize
             y == j * BlockSize
             z == start * BlockSize
  <2>4. /\ Len(prefix) + (x - z) = Len(prefix) + (y - z)
        /\ x \in Nat /\ y \in Nat /\ z \in Nat
    BY <1>7, <2>1, <2>3, <1>2
  <2> HIDE DEF x, y, z
  <2>5. x = y BY <2>2, <2>4
  <2> QED BY <2>2, <2>5, MulCancel DEF x, y
<1>8. /\ DOMAIN q = {"ref", "hash", "map", "free", "used"}
      /\ q.ref = p.ref /\ q.free = p.free /\ q.used = p.used
      /\ q.hash = [b \in Block |-> IF \E i \in new : table[i] = b
                                   THEN H(At(b)) ELSE p.hash[b]]
      /\ q.map = [h \in DOMAIN p.map \union {H(i) : i \in new} |->
                    IF \E i \in new : H(i) = h
                    THEN table[Of(h)] ELSE p.map[h]]
  BY DEF Hashed, start, end, prefix
<1> HIDE DEF q, H, new
<1>9. ASSUME NEW i \in new
      PROVE  q.hash[table[i]] = H(i) /\ q.map[H(i)] = table[i]
  <2>1. table[i] \in Block /\ At(table[i]) = i
    <3>1. \A j \in new : table[j] = table[i] => j = i
      BY <1>1, <1>4 DEF Distinct
    <3> QED BY <3>1, <1>1, <1>4
  <2>2. Of(H(i)) = i
    BY <1>7
  <2> HIDE DEF At, Of
  <2> QED BY <2>1, <2>2, <1>8
<1>10. \A b \in Block : (\A i \in new : table[i] # b) => q.hash[b] = p.hash[b]
  BY <1>8
<1>11. \A h \in DOMAIN q.map :
         \/ \E i \in new : h = H(i)
         \/ h \in DOMAIN p.map /\ q.map[h] = p.map[h]
  BY <1>8
<1> HIDE DEF At, Of
<1>12. \A i \in new : p.hash[table[i]] = Root
  <2>1. ASSUME NEW i \in new PROVE i > done[s] \div BlockSize
    BY <1>2 DEF new, start
  <2> QED BY <2>1, <1>1, <1>4 DEF Indexed, table
<1>13. PoolTyped(q, Token)
  <2>1. ASSUME NEW b \in Block PROVE q.hash[b] \in Seq(Token)
    <3>1. CASE \E i \in new : table[i] = b
      BY <3>1, <1>6, <1>9
    <3>2. CASE ~ \E i \in new : table[i] = b
      BY <3>2, <1>1, <1>10
    <3> QED BY <3>1, <3>2
  <2>2. q.hash \in [Block -> Seq(Token)]
    <3>1. q.hash = [b \in Block |-> q.hash[b]] BY <1>8
    <3> QED BY <3>1, <2>1
  <2>3. ASSUME NEW h \in DOMAIN q.map
        PROVE  h \in Seq(Token) /\ q.map[h] \in Block
    <3>1. CASE \E i \in new : h = H(i)
      BY <3>1, <1>1, <1>4, <1>6, <1>9
    <3>2. CASE h \in DOMAIN p.map /\ q.map[h] = p.map[h]
      BY <3>2 DEF PoolTyped
    <3> QED BY <3>1, <3>2, <1>11
  <2> QED BY <2>2, <2>3, <1>1, <1>8 DEF PoolTyped
<1>14. Accounts(q, tab, Seqs)
  BY <1>8 DEF Accounts
<1>15. Indexed(q, tab, done2, Seqs)
  <2>1. ASSUME NEW h \in DOMAIN q.map
        PROVE  q.hash[q.map[h]] = h /\ h # Root
    <3>1. CASE \E i \in new : h = H(i)
      BY <3>1, <1>6, <1>9
    <3>2. CASE h \in DOMAIN p.map /\ q.map[h] = p.map[h]
      <4>1. /\ p.hash[p.map[h]] = h /\ h # Root /\ p.map[h] \in Block
        BY <3>2 DEF Indexed, PoolTyped
      <4>2. \A i \in new : table[i] # p.map[h]
        BY <4>1, <1>12
      <4> QED BY <3>2, <4>1, <4>2, <1>10
    <3> QED BY <3>1, <3>2, <1>11
  <2>2. ASSUME NEW b \in Block, q.hash[b] = Root PROVE q.ref[b] <= 1
    <3>1. p.hash[b] = Root BY <2>2, <1>6, <1>9, <1>10
    <3> QED BY <3>1, <1>8 DEF Indexed
  <2>3. ASSUME NEW r \in Seqs, NEW i \in DOMAIN tab[r],
               i > done2[r] \div BlockSize
        PROVE  q.hash[tab[r][i]] = Root
    <3>1. tab[r] \in Seq(Block) /\ tab[r][i] \in Block /\ DOMAIN tab[r] = 1..Len(tab[r])
      BY <2>3, LenProperties
    <3>2. CASE r = s
      <4>1. i > end /\ i \in 1..Len(table) BY <3>2, <2>3, <1>1 DEF Put, end, table
      <4>2. i > start BY <4>1, <1>2, <1>1
      <4>3. p.hash[table[i]] = Root
        BY <3>2, <4>2, <2>3 DEF Indexed, start, table
      <4>4. \A j \in new : table[j] # table[i]
        <5> SUFFICES ASSUME NEW j \in new PROVE table[j] # table[i]
          OBVIOUS
        <5>1. j \in 1..Len(table) /\ j <= end BY <1>4 DEF new
        <5>2. j # i BY <4>1, <5>1, <1>1, <1>2
        <5> QED BY <4>1, <5>1, <5>2, <1>1 DEF Distinct
      <4> QED BY <3>1, <3>2, <4>3, <4>4, <1>10 DEF table
    <3>3. CASE r # s
      <4>1. done2[r] = done[r] BY <3>3 DEF Put
      <4>2. p.hash[tab[r][i]] = Root BY <4>1, <2>3 DEF Indexed
      <4>3. ASSUME NEW j \in new, table[j] = tab[r][i] PROVE FALSE
        <5>1. tab[r][i] \in Elems(tab[r]) BY <3>1, <2>3 DEF Elems
        <5>2. tab[r][i] \in Elems(tab[s])
          BY <4>3, <1>4 DEF Elems, table
        <5>3. ~ (HolderCount(tab, Seqs, tab[r][i]) <= 1)
          BY <5>1, <5>2, <3>3, TwoHolders
        <5>4. HolderCount(tab, Seqs, tab[r][i]) <= 1
          BY <4>2, <3>1 DEF Indexed, Accounts
        <5> QED BY <5>3, <5>4
      <4> QED BY <4>2, <4>3, <3>1, <1>10
    <3> QED BY <3>2, <3>3
  <2> QED BY <2>1, <2>2, <2>3 DEF Indexed
<1> QED BY <1>13, <1>14, <1>15 DEF q, table

---------------------------------------------------------------------------
(* Queues.                                                                 *)

LEMMA EmptyQueue ==
  ASSUME NEW S
  PROVE  << >> \in Seq(S) /\ Len(<< >>) = 0 /\ Elems(<< >>) = {} /\ Distinct(<< >>)
<1>1. << >> \in Seq(S) /\ Len(<< >>) = 0 /\ DOMAIN << >> = 1..0
  BY EmptySeq, LenProperties
<1>2. 1..0 = {}
  OBVIOUS
<1> QED BY <1>1, <1>2 DEF Elems, Distinct

(* The head of a queue and what is left without it.                        *)
LEMMA HeadTail ==
  ASSUME NEW S, NEW q \in Seq(S), q # << >>, Distinct(q)
  PROVE  /\ Head(q) \in S /\ Head(q) \in Elems(q)
         /\ Tail(q) \in Seq(S) /\ Distinct(Tail(q)) /\ Len(Tail(q)) = Len(q) - 1
         /\ Elems(Tail(q)) = Elems(q) \ {Head(q)}
<1>1. /\ Len(q) \in Nat /\ Len(q) # 0 /\ DOMAIN q = 1..Len(q)
      /\ \A i \in 1..Len(q) : q[i] \in S
  BY LenProperties, EmptySeq
<1>2. /\ Tail(q) \in Seq(S) /\ Len(Tail(q)) = Len(q) - 1 /\ Head(q) = q[1]
      /\ \A i \in 1..Len(Tail(q)) : Tail(q)[i] = q[i + 1]
  BY <1>1, HeadTailProperties
<1>3. DOMAIN Tail(q) = 1..(Len(q) - 1)
  BY <1>2, LenProperties
<1>4. 1 \in 1..Len(q)
  BY <1>1
<1>5. Elems(Tail(q)) = Elems(q) \ {Head(q)}
  <2>1. ASSUME NEW i \in 1..(Len(q) - 1)
        PROVE  Tail(q)[i] \in Elems(q) \ {Head(q)}
    <3>1. i + 1 \in 1..Len(q) /\ i + 1 # 1 /\ Tail(q)[i] = q[i + 1]
      BY <1>1, <1>2
    <3>2. q[i + 1] # q[1] BY <3>1, <1>1, <1>4 DEF Distinct
    <3> QED BY <3>1, <3>2, <1>2 DEF Elems
  <2>2. ASSUME NEW i \in 1..Len(q), q[i] # Head(q) PROVE q[i] \in Elems(Tail(q))
    <3>1. i # 1 BY <2>2, <1>2
    <3>2. i - 1 \in 1..(Len(q) - 1) /\ (i - 1) + 1 = i BY <3>1, <1>1
    <3>3. Tail(q)[i - 1] = q[i] BY <3>2, <1>2
    <3> QED BY <3>2, <3>3, <1>2 DEF Elems
  <2>3. Elems(Tail(q)) = {Tail(q)[i] : i \in 1..(Len(q) - 1)}
    BY <1>2 DEF Elems
  <2>4. Elems(q) = {q[i] : i \in 1..Len(q)}
    BY DEF Elems
  <2> QED BY <2>1, <2>2, <2>3, <2>4
<1>6. Distinct(Tail(q))
  BY <1>1, <1>2, <1>3 DEF Distinct
<1> QED BY <1>1, <1>2, <1>4, <1>5, <1>6 DEF Elems

LEMMA OneElement ==
  ASSUME NEW S, NEW s \in S
  PROVE  /\ <<s>> \in Seq(S) /\ Len(<<s>>) = 1 /\ Elems(<<s>>) = {s}
         /\ Distinct(<<s>>)
<1>1. <<s>> \in Seq(S) /\ Len(<<s>>) = 1 /\ DOMAIN <<s>> = 1..1 /\ <<s>>[1] = s
  OBVIOUS
<1> QED BY <1>1 DEF Elems, Distinct

(* A new member in front.                                                  *)
LEMMA PrependDistinct ==
  ASSUME NEW S, NEW q \in Seq(S), NEW s \in S, Distinct(q), s \notin Elems(q)
  PROVE  /\ <<s>> \o q \in Seq(S) /\ Elems(<<s>> \o q) = Elems(q) \union {s}
         /\ Distinct(<<s>> \o q)
<1> DEFINE one == <<s>>
<1>1. one \in Seq(S) /\ Elems(one) = {s} /\ Distinct(one)
  BY OneElement
<1> HIDE DEF one
<1>2. Elems(one) \cap Elems(q) = {}
  BY <1>1
<1>3. /\ one \o q \in Seq(S) /\ Elems(one \o q) = Elems(one) \union Elems(q)
      /\ Distinct(one \o q)
  BY <1>1, <1>2, ConcatDistinct
<1> QED BY <1>1, <1>3 DEF one

(* Without one of its members a queue is one shorter.                      *)
LEMMA WithoutFacts ==
  ASSUME NEW q \in Seq(SeqIds), Distinct(q), NEW s \in SeqIds
  PROVE  /\ Without(q, s) \in Seq(SeqIds) /\ Distinct(Without(q, s))
         /\ Elems(Without(q, s)) = Elems(q) \ {s}
         /\ Len(Without(q, s)) \in Nat
         /\ s \in Elems(q) => Len(Without(q, s)) = Len(q) - 1
         /\ s \notin Elems(q) => Len(Without(q, s)) = Len(q)
<1> DEFINE r == Keep(q, SeqIds \ {s})
<1>1. Elems(q) \subseteq SeqIds
  BY LenProperties DEF Elems
<1>2. r \in Seq(SeqIds) /\ Distinct(r) /\ Elems(r) = Elems(q) \ {s}
  <2> DEFINE K == SeqIds \ {s}
  <2> HIDE DEF K
  <2>1. /\ Keep(q, K) \in Seq(SeqIds) /\ Distinct(Keep(q, K))
        /\ Elems(Keep(q, K)) = Elems(q) \cap K
    BY KeepFacts
  <2> QED BY <2>1, <1>1 DEF K
<1> HIDE DEF r
<1>3. /\ IsFiniteSet(Elems(q)) /\ Cardinality(Elems(q)) = Len(q)
      /\ Cardinality(Elems(r)) = Len(r) /\ Len(r) \in Nat /\ Len(q) \in Nat
  BY <1>2, DistinctLen, LenProperties
<1>4. s \in Elems(q) => Cardinality(Elems(q) \ {s}) = Cardinality(Elems(q)) - 1
  BY <1>3, FS_RemoveElement
<1>5. s \notin Elems(q) => Elems(q) \ {s} = Elems(q)
  OBVIOUS
<1> QED BY <1>2, <1>3, <1>4, <1>5 DEF r, Without

---------------------------------------------------------------------------
(* The invariant of an engine record e between any two operations of a     *)
(* step, when the requests of A have been added and the sequences of X     *)
(* have been taken off the queues: the victim candidates the loops hold    *)
(* aside.                                                                  *)

EngineFields ==
  {"policy", "incremental", "waiting", "running", "finished", "batch",
   "preempts", "pool", "text", "plen", "maxTokens", "len", "cached", "table"}

(* What is set up with the requests and only grows by emitted tokens.      *)
Setup(e) ==
  /\ DOMAIN e = EngineFields /\ e.incremental \in BOOLEAN /\ e.preempts \in Nat
  /\ e.text \in [SeqIds -> Seq(Nat)]
  /\ e.plen \in [SeqIds -> Nat \ {0}] /\ e.maxTokens \in [SeqIds -> Nat \ {0}]
  /\ e.len \in [SeqIds -> Nat]
  /\ \A s \in SeqIds : /\ Len(e.text[s]) = e.plen[s] + e.maxTokens[s]
                        /\ e.plen[s] <= e.len[s]
                        /\ e.len[s] <= e.plen[s] + e.maxTokens[s]

Memory(e) ==
  /\ e.table \in [SeqIds -> Seq(Block)] /\ e.cached \in [SeqIds -> Nat]
  /\ PoolTyped(e.pool, Nat) /\ Accounts(e.pool, e.table, SeqIds)
  /\ Indexed(e.pool, e.table, e.cached, SeqIds)

Held(e, X) == Elems(e.running) \union X
Queues(e, A, X) ==
  /\ A \subseteq SeqIds /\ X \subseteq SeqIds
  /\ e.waiting \in Seq(SeqIds) /\ Distinct(e.waiting)
  /\ e.running \in Seq(SeqIds) /\ Distinct(e.running)
  /\ Elems(e.waiting) \cap Held(e, X) = {} /\ Elems(e.running) \cap X = {}
  /\ e.finished \subseteq A
  /\ Elems(e.waiting) \union Held(e, X) = A \ e.finished

(* How many tokens the blocks of s have slots for.                         *)
Capacity(e, s) == Len(e.table[s]) * BlockSize

(* A waiting sequence has work for a prefill; without incremental          *)
(* allocation it has blocks for all of it or for none.                     *)
Parked(e, s) ==
  /\ e.len[s] < e.plen[s] + e.maxTokens[s]
  /\ e.cached[s] < e.len[s] /\ e.cached[s] <= Capacity(e, s)
  /\ ~ e.incremental /\ e.table[s] # << >> => e.len[s] <= Capacity(e, s)

(* A running sequence has blocks for all tokens but perhaps the last.      *)
Resident(e, s) ==
  /\ e.len[s] < e.plen[s] + e.maxTokens[s]
  /\ e.cached[s] < e.len[s] /\ e.len[s] - 1 <= Capacity(e, s)
  /\ Len(e.table[s]) > 0

Vacant(e, s) == e.table[s] = << >> /\ e.cached[s] = 0

Placed(e, A, X) ==
  /\ \A s \in Elems(e.waiting) : Parked(e, s)
  /\ \A s \in Held(e, X) : Resident(e, s)
  /\ \A s \in SeqIds : s \notin Elems(e.waiting) /\ s \notin Held(e, X) => Vacant(e, s)
  /\ \A s \in SeqIds : s \notin A => e.len[s] = e.plen[s]

EInv(e, A, X) == Setup(e) /\ Memory(e) /\ Queues(e, A, X) /\ Placed(e, A, X)

(* What no operation of schedule() touches.                                *)
SameBooks(e, d) ==
  /\ d.policy = e.policy /\ d.incremental = e.incremental
  /\ d.finished = e.finished /\ d.text = e.text /\ d.plen = e.plen
  /\ d.maxTokens = e.maxTokens /\ d.len = e.len

(* The blocks of r are as they were.                                       *)
Untouched(e, d, r) == d.table[r] = e.table[r] /\ d.cached[r] = e.cached[r]

LEMMA SeqIdsFinite == IsFiniteSet(SeqIds)
<1>1. IsFiniteSet(1..NumSeqs) BY CoreAssumption, FS_Interval
<1> QED BY <1>1 DEF SeqIds

LEMMA MemoryFacts ==
  ASSUME NEW e, NEW A, NEW X, EInv(e, A, X)
  PROVE  /\ IsFiniteSet(SeqIds) /\ e.table \in [SeqIds -> Seq(Block)]
         /\ DOMAIN e.cached = SeqIds /\ e.cached \in [SeqIds -> Nat]
         /\ PoolTyped(e.pool, Nat) /\ Accounts(e.pool, e.table, SeqIds)
         /\ Indexed(e.pool, e.table, e.cached, SeqIds)
BY SeqIdsFinite DEF EInv, Memory

(* An operation that moves only s keeps the invariant when it keeps the    *)
(* set-up, the memory and the queues, and s is right where it comes to.    *)
LEMMA MoveKeeps ==
  ASSUME NEW e, NEW A, NEW X, EInv(e, A, X),
         NEW d, NEW Y, Setup(d), Memory(d), Queues(d, A, Y), SameBooks(e, d),
         NEW s \in SeqIds,
         \A r \in SeqIds \ {s} :
           /\ Untouched(e, d, r)
           /\ r \in Elems(d.waiting) <=> r \in Elems(e.waiting)
           /\ r \in Held(d, Y) <=> r \in Held(e, X),
         s \in Elems(d.waiting) => Parked(d, s),
         s \in Held(d, Y) => Resident(d, s),
         s \notin Elems(d.waiting) /\ s \notin Held(d, Y) => Vacant(d, s)
  PROVE  EInv(d, A, Y)
<1>1. \A r \in SeqIds \ {s} : /\ Parked(e, r) => Parked(d, r)
                              /\ Resident(e, r) => Resident(d, r)
                              /\ Vacant(e, r) => Vacant(d, r)
  BY DEF SameBooks, Untouched, Parked, Resident, Vacant, Capacity
<1>2. Elems(d.waiting) \subseteq SeqIds /\ Held(d, Y) \subseteq SeqIds
  BY LenProperties DEF Queues, Held, Elems
<1>3. Placed(d, A, Y)
  <2>1. \A r \in Elems(d.waiting) : Parked(d, r)
    BY <1>1, <1>2 DEF EInv, Placed
  <2>2. \A r \in Held(d, Y) : Resident(d, r)
    BY <1>1, <1>2 DEF EInv, Placed
  <2>3. \A r \in SeqIds : r \notin Elems(d.waiting) /\ r \notin Held(d, Y) => Vacant(d, r)
    BY <1>1, <1>2 DEF EInv, Placed
  <2>4. \A r \in SeqIds : r \notin A => d.len[r] = d.plen[r]
    BY DEF EInv, Placed, SameBooks
  <2> QED BY <2>1, <2>2, <2>3, <2>4 DEF Placed
<1> QED BY <1>3 DEF EInv

(* preempt: a running sequence loses its blocks and waits again.           *)
Preempts(e, d, A, X, s) ==
  /\ EInv(d, A, X \ {s}) /\ SameBooks(e, d) /\ d.batch = e.batch
  /\ \A r \in SeqIds \ {s} : Untouched(e, d, r)
  /\ Elems(d.waiting) = Elems(e.waiting) \union {s}
  /\ d.running = Without(e.running, s)

LEMMA PreemptedFacts ==
  ASSUME NEW e, NEW A, NEW X, EInv(e, A, X), NEW s \in Held(e, X),
         NEW prepend \in BOOLEAN
  PROVE  Preempts(e, Preempted(e, s, prepend), A, X, s)
<1> DEFINE d == Preempted(e, s, prepend)
           pool == Deallocated(e.pool, e.table[s])
<1>1. s \in SeqIds
  BY LenProperties DEF EInv, Queues, Held, Elems
<1>2. /\ DOMAIN d = EngineFields /\ SameBooks(e, d) /\ d.batch = e.batch
      /\ d.preempts = e.preempts + 1
      /\ d.pool = pool /\ d.table = Put(e.table, s, << >>)
      /\ d.cached = Put(e.cached, s, 0) /\ d.running = Without(e.running, s)
      /\ d.waiting = IF prepend THEN <<s>> \o e.waiting ELSE Append(e.waiting, s)
  BY DEF EInv, Setup, EngineFields, Preempted, Put, SameBooks
<1> HIDE DEF d
<1>3. Setup(d)
  BY <1>2 DEF EInv, Setup, SameBooks
<1>4. Memory(d)
  <2>1. /\ IsFiniteSet(SeqIds) /\ e.table \in [SeqIds -> Seq(Block)]
        /\ DOMAIN e.cached = SeqIds /\ e.cached \in [SeqIds -> Nat]
        /\ PoolTyped(e.pool, Nat) /\ Accounts(e.pool, e.table, SeqIds)
        /\ Indexed(e.pool, e.table, e.cached, SeqIds)
    BY MemoryFacts
  <2>2. PoolTyped(pool, Nat)
    BY <1>1, <2>1, DeallocatedFacts
  <2>3. Accounts(pool, Put(e.table, s, << >>), SeqIds)
    BY <1>1, <2>1, DeallocatedFacts
  <2>4. Indexed(pool, Put(e.table, s, << >>), Put(e.cached, s, 0), SeqIds)
    BY <1>1, <2>1, DeallocatedFacts
  <2>5. d.table \in [SeqIds -> Seq(Block)] /\ d.cached \in [SeqIds -> Nat]
    <3>1. << >> \in Seq(Block) /\ 0 \in Nat BY EmptyQueue
    <3> QED BY <1>2, <2>1, <3>1 DEF Put
  <2> QED BY <1>2, <2>2, <2>3, <2>4, <2>5 DEF Memory
<1>5. /\ e.waiting \in Seq(SeqIds) /\ Distinct(e.waiting) /\ s \notin Elems(e.waiting)
      /\ e.running \in Seq(SeqIds) /\ Distinct(e.running)
  BY DEF EInv, Queues
<1>6. /\ d.waiting \in Seq(SeqIds) /\ Distinct(d.waiting)
      /\ Elems(d.waiting) = Elems(e.waiting) \union {s}
  <2>1. CASE prepend BY <2>1, <1>1, <1>2, <1>5, PrependDistinct
  <2>2. CASE ~ prepend BY <2>2, <1>1, <1>2, <1>5, AppendDistinct
  <2> QED BY <2>1, <2>2
<1>7. /\ d.running \in Seq(SeqIds) /\ Distinct(d.running)
      /\ Elems(d.running) = Elems(e.running) \ {s}
  BY <1>1, <1>2, <1>5, WithoutFacts
<1>8. Held(d, X \ {s}) = Held(e, X) \ {s}
  BY <1>7 DEF Held
<1>9. Queues(d, A, X \ {s})
  BY <1>1, <1>2, <1>6, <1>7, <1>8 DEF EInv, Queues, SameBooks, Held
<1>10. \A r \in SeqIds \ {s} : Untouched(e, d, r)
  BY <1>2 DEF Untouched, Put, EInv, Memory
<1>11. Parked(d, s)
  <2>1. d.table[s] = << >> /\ d.cached[s] = 0 /\ Capacity(d, s) = 0
    <3>1. d.table[s] = << >> /\ d.cached[s] = 0
      BY <1>1, <1>2 DEF Put, EInv, Memory
    <3>2. 0 * BlockSize = 0 BY PoolAssumption
    <3> QED BY <3>1, <3>2, EmptyQueue DEF Capacity
  <2>2. e.len[s] < e.plen[s] + e.maxTokens[s] /\ e.cached[s] < e.len[s]
    BY DEF EInv, Placed, Resident
  <2>3. 0 < e.len[s]
    BY <1>1, <2>2 DEF EInv, Memory, Setup
  <2> QED BY <1>2, <2>1, <2>2, <2>3 DEF Parked, SameBooks
<1>12. EInv(d, A, X \ {s})
  <2>1. s \notin Held(d, X \ {s}) /\ s \in Elems(d.waiting) BY <1>6, <1>8
  <2> QED BY <1>1, <1>2, <1>3, <1>4, <1>6, <1>8, <1>9, <1>10, <1>11, <2>1, MoveKeeps
<1> QED BY <1>2, <1>6, <1>10, <1>12 DEF d, Preempts

---------------------------------------------------------------------------
(* The orders by which victims are selected and running sequences ranked.  *)

LEMMA Scaled ==
  ASSUME NEW x \in Int, NEW y \in Int, NEW g \in Nat \ {0}
  PROVE  /\ x * g \in Int
         /\ x < y <=> x * g < y * g
         /\ x = y <=> x * g = y * g
<1>1. x < y => x * g < y * g
  OBVIOUS
<1>2. y < x => y * g < x * g
  OBVIOUS
<1>3. x * g \in Int /\ y * g \in Int
  OBVIOUS
<1> QED BY <1>1, <1>2, <1>3

LEMMA Swapped ==
  ASSUME NEW x \in Int, NEW g \in Int, NEW h \in Int
  PROVE  /\ x * g \in Int /\ x * h \in Int
         /\ (x * g) * h = (x * h) * g
OBVIOUS

(* Fractions that are compared crosswise.                                  *)
LEMMA Crosswise ==
  ASSUME NEW f1 \in Int, NEW f2 \in Int, NEW f3 \in Int,
         NEW g1 \in Nat \ {0}, NEW g2 \in Nat \ {0}, NEW g3 \in Nat \ {0}
  PROVE  /\ f1 * g2 = f2 * g1 /\ f2 * g3 = f3 * g2 => f1 * g3 = f3 * g1
         /\ f1 * g2 = f2 * g1 /\ f2 * g3 < f3 * g2 => f1 * g3 < f3 * g1
         /\ f1 * g2 < f2 * g1 /\ f2 * g3 = f3 * g2 => f1 * g3 < f3 * g1
         /\ f1 * g2 < f2 * g1 /\ f2 * g3 < f3 * g2 => f1 * g3 < f3 * g1
<1> DEFINE a == f1 * g2
           b == f2 * g1
           c == f2 * g3
           d == f3 * g2
           u == f1 * g3
           v == f3 * g1
<1>1. a \in Int /\ b \in Int /\ c \in Int /\ d \in Int /\ u \in Int /\ v \in Int
  BY Swapped
<1>2. a * g3 = u * g2 /\ b * g3 = c * g1 /\ d * g1 = v * g2
  BY Swapped
<1>3. /\ a < b <=> a * g3 < b * g3
      /\ a = b <=> a * g3 = b * g3
      /\ c < d <=> c * g1 < d * g1
      /\ c = d <=> c * g1 = d * g1
      /\ u < v <=> u * g2 < v * g2
      /\ u = v <=> u * g2 = v * g2
  <2> HIDE DEF a, b, c, d, u, v
  <2> QED BY <1>1, Scaled
<1>4. /\ a * g3 \in Int /\ b * g3 \in Int /\ d * g1 \in Int
  <2> HIDE DEF a, b, c, d, u, v
  <2> QED BY <1>1, Scaled
<1> HIDE DEF a, b, c, d, u, v
<1> DEFINE p == a * g3
           q == b * g3
           r == d * g1
<1>5. /\ p \in Int /\ q \in Int /\ r \in Int
      /\ a < b <=> p < q
      /\ a = b <=> p = q
      /\ c < d <=> q < r
      /\ c = d <=> q = r
      /\ u < v <=> p < r
      /\ u = v <=> p = r
  BY <1>2, <1>3, <1>4
<1> HIDE DEF p, q, r
<1>6. /\ a = b /\ c = d => u = v
      /\ a = b /\ c < d => u < v
      /\ a < b /\ c = d => u < v
      /\ a < b /\ c < d => u < v
  BY <1>5
<1> QED BY <1>6 DEF a, b, c, d, u, v

(* Precedes is the lexicographic order.                                    *)
LEMMA FiveKeys ==
  ASSUME NEW a1, NEW a2, NEW a3, NEW a4, NEW a5,
         NEW b1, NEW b2, NEW b3, NEW b4, NEW b5
  PROVE  Precedes(<<a1, a2, a3, a4, a5>>, <<b1, b2, b3, b4, b5>>) <=>
           \/ a1 < b1
           \/ a1 = b1 /\ a2 < b2
           \/ a1 = b1 /\ a2 = b2 /\ a3 < b3
           \/ a1 = b1 /\ a2 = b2 /\ a3 = b3 /\ a4 < b4
           \/ a1 = b1 /\ a2 = b2 /\ a3 = b3 /\ a4 = b4 /\ a5 < b5
<1> DEFINE x == <<a1, a2, a3, a4, a5>>
           y == <<b1, b2, b3, b4, b5>>
<1>1. DOMAIN x = 1..5 /\ x[1] = a1 /\ x[2] = a2 /\ x[3] = a3 /\ x[4] = a4 /\ x[5] = a5
  OBVIOUS
<1>2. y[1] = b1 /\ y[2] = b2 /\ y[3] = b3 /\ y[4] = b4 /\ y[5] = b5
  OBVIOUS
<1> HIDE DEF x, y
<1>3. /\ 1..5 = {1, 2, 3, 4, 5} /\ 1..(1 - 1) = {} /\ 1..(2 - 1) = {1}
      /\ 1..(3 - 1) = {1, 2} /\ 1..(4 - 1) = {1, 2, 3} /\ 1..(5 - 1) = {1, 2, 3, 4}
  OBVIOUS
<1>4. Precedes(x, y) <=>
        \/ x[1] < y[1]
        \/ x[1] = y[1] /\ x[2] < y[2]
        \/ x[1] = y[1] /\ x[2] = y[2] /\ x[3] < y[3]
        \/ x[1] = y[1] /\ x[2] = y[2] /\ x[3] = y[3] /\ x[4] < y[4]
        \/ x[1] = y[1] /\ x[2] = y[2] /\ x[3] = y[3] /\ x[4] = y[4] /\ x[5] < y[5]
  BY <1>1, <1>3 DEF Precedes
<1> QED BY <1>1, <1>2, <1>4 DEF x, y

(* A strict total order on S, as a set of pairs.                           *)
Orders(R, S) ==
  /\ \A x, y \in S : x # y => <<x, y>> \in R \/ <<y, x>> \in R
  /\ \A x, y, z \in S : <<x, y>> \in R /\ <<y, z>> \in R => <<x, z>> \in R

RankKey(A, F, G, C, D, x, y) == <<A[x], F[x] * G[y], C[x], D[x], x>>
Ranking(A, F, G, C, D, S) ==
  {w \in S \X S : Precedes(RankKey(A, F, G, C, D, w[1], w[2]),
                           RankKey(A, F, G, C, D, w[2], w[1]))}

LEMMA RankingOrders ==
  ASSUME NEW S \in SUBSET Int, NEW A \in [S -> Int], NEW F \in [S -> Int],
         NEW G \in [S -> Nat \ {0}], NEW C \in [S -> Int], NEW D \in [S -> Int]
  PROVE  Orders(Ranking(A, F, G, C, D, S), S)
<1> DEFINE R == Ranking(A, F, G, C, D, S)
           P(x, y) == F[x] * G[y]
<1>1. \A x, y \in S : P(x, y) \in Int
  BY Swapped
<1>2. \A x, y \in S : <<x, y>> \in R <=>
        \/ A[x] < A[y]
        \/ A[x] = A[y] /\ P(x, y) < P(y, x)
        \/ A[x] = A[y] /\ P(x, y) = P(y, x) /\ C[x] < C[y]
        \/ A[x] = A[y] /\ P(x, y) = P(y, x) /\ C[x] = C[y] /\ D[x] < D[y]
        \/ A[x] = A[y] /\ P(x, y) = P(y, x) /\ C[x] = C[y] /\ D[x] = D[y] /\ x < y
  <2> SUFFICES ASSUME NEW x \in S, NEW y \in S
               PROVE  <<x, y>> \in R <=>
        \/ A[x] < A[y]
        \/ A[x] = A[y] /\ P(x, y) < P(y, x)
        \/ A[x] = A[y] /\ P(x, y) = P(y, x) /\ C[x] < C[y]
        \/ A[x] = A[y] /\ P(x, y) = P(y, x) /\ C[x] = C[y] /\ D[x] < D[y]
        \/ A[x] = A[y] /\ P(x, y) = P(y, x) /\ C[x] = C[y] /\ D[x] = D[y] /\ x < y
    OBVIOUS
  <2>1. <<x, y>> \in R <=> Precedes(<<A[x], P(x, y), C[x], D[x], x>>,
                                    <<A[y], P(y, x), C[y], D[y], y>>)
    BY DEF Ranking, RankKey
  <2> HIDE DEF R, P
  <2> QED BY <2>1, FiveKeys
<1>3. \A x, y, z \in S :
        /\ P(x, y) = P(y, x) /\ P(y, z) = P(z, y) => P(x, z) = P(z, x)
        /\ P(x, y) = P(y, x) /\ P(y, z) < P(z, y) => P(x, z) < P(z, x)
        /\ P(x, y) < P(y, x) /\ P(y, z) = P(z, y) => P(x, z) < P(z, x)
        /\ P(x, y) < P(y, x) /\ P(y, z) < P(z, y) => P(x, z) < P(z, x)
  <2> SUFFICES ASSUME NEW x \in S, NEW y \in S, NEW z \in S
               PROVE
        /\ P(x, y) = P(y, x) /\ P(y, z) = P(z, y) => P(x, z) = P(z, x)
        /\ P(x, y) = P(y, x) /\ P(y, z) < P(z, y) => P(x, z) < P(z, x)
        /\ P(x, y) < P(y, x) /\ P(y, z) = P(z, y) => P(x, z) < P(z, x)
        /\ P(x, y) < P(y, x) /\ P(y, z) < P(z, y) => P(x, z) < P(z, x)
    OBVIOUS
  <2>1. /\ F[x] \in Int /\ F[y] \in Int /\ F[z] \in Int
        /\ G[x] \in Nat \ {0} /\ G[y] \in Nat \ {0} /\ G[z] \in Nat \ {0}
    OBVIOUS
  <2> QED BY <2>1, Crosswise
<1> HIDE DEF R, P
<1>4. ASSUME NEW x \in S, NEW y \in S, x # y PROVE <<x, y>> \in R \/ <<y, x>> \in R
  <2>1. x \in Int /\ y \in Int /\ A[x] \in Int /\ A[y] \in Int /\ C[x] \in Int
        /\ C[y] \in Int /\ D[x] \in Int /\ D[y] \in Int
        /\ P(x, y) \in Int /\ P(y, x) \in Int
    BY <1>1
  <2> QED BY <2>1, <1>2, <1>4
<1>5. ASSUME NEW x \in S, NEW y \in S, NEW z \in S,
             <<x, y>> \in R, <<y, z>> \in R
      PROVE  <<x, z>> \in R
  <2>1. /\ x \in Int /\ y \in Int /\ z \in Int
        /\ A[x] \in Int /\ A[y] \in Int /\ A[z] \in Int
        /\ C[x] \in Int /\ C[y] \in Int /\ C[z] \in Int
        /\ D[x] \in Int /\ D[y] \in Int /\ D[z] \in Int
        /\ P(x, y) \in Int /\ P(y, x) \in Int /\ P(y, z) \in Int
        /\ P(z, y) \in Int /\ P(x, z) \in Int /\ P(z, x) \in Int
    BY <1>1
  <2>2. \/ A[x] < A[y]
        \/ A[x] = A[y] /\ P(x, y) < P(y, x)
        \/ A[x] = A[y] /\ P(x, y) = P(y, x) /\ C[x] < C[y]
        \/ A[x] = A[y] /\ P(x, y) = P(y, x) /\ C[x] = C[y] /\ D[x] < D[y]
        \/ A[x] = A[y] /\ P(x, y) = P(y, x) /\ C[x] = C[y] /\ D[x] = D[y] /\ x < y
    BY <1>2, <1>5
  <2>3. \/ A[y] < A[z]
        \/ A[y] = A[z] /\ P(y, z) < P(z, y)
        \/ A[y] = A[z] /\ P(y, z) = P(z, y) /\ C[y] < C[z]
        \/ A[y] = A[z] /\ P(y, z) = P(z, y) /\ C[y] = C[z] /\ D[y] < D[z]
        \/ A[y] = A[z] /\ P(y, z) = P(z, y) /\ C[y] = C[z] /\ D[y] = D[z] /\ y < z
    BY <1>2, <1>5
  <2>4. /\ P(x, y) = P(y, x) /\ P(y, z) = P(z, y) => P(x, z) = P(z, x)
        /\ P(x, y) = P(y, x) /\ P(y, z) < P(z, y) => P(x, z) < P(z, x)
        /\ P(x, y) < P(y, x) /\ P(y, z) = P(z, y) => P(x, z) < P(z, x)
        /\ P(x, y) < P(y, x) /\ P(y, z) < P(z, y) => P(x, z) < P(z, x)
    BY <1>3
  <2>5. \/ A[x] < A[z]
        \/ A[x] = A[z] /\ P(x, z) < P(z, x)
        \/ A[x] = A[z] /\ P(x, z) = P(z, x) /\ C[x] < C[z]
        \/ A[x] = A[z] /\ P(x, z) = P(z, x) /\ C[x] = C[z] /\ D[x] < D[z]
        \/ A[x] = A[z] /\ P(x, z) = P(z, x) /\ C[x] = C[z] /\ D[x] = D[z] /\ x < z
    BY <2>1, <2>2, <2>3, <2>4
  <2> QED BY <2>5, <1>2
<1>6. Orders(R, S)
  BY <1>4, <1>5 DEF Orders
<1> QED BY <1>6 DEF R

(* Every nonempty finite set has a least element of such an order.         *)
LEMMA LeastExists ==
  ASSUME NEW S, NEW R, Orders(R, S), NEW T \in SUBSET S, IsFiniteSet(T), T # {}
  PROVE  \E x \in T : \A y \in T \ {x} : <<x, y>> \in R
<1> DEFINE Least(U) == \E x \in U : \A y \in U \ {x} : <<x, y>> \in R
           N == {n \in Nat : \A U \in SUBSET S :
                   IsFiniteSet(U) /\ Cardinality(U) = n + 1 => Least(U)}
<1>1. 0 \in N
  <2> SUFFICES ASSUME NEW U \in SUBSET S, IsFiniteSet(U), Cardinality(U) = 0 + 1
               PROVE  Least(U)
    OBVIOUS
  <2>1. Cardinality(U) = 1 OBVIOUS
  <2>2. \E x : U = {x}
    <3> HIDE DEF N
    <3> QED BY <2>1, FS_Singleton
  <2> QED BY <2>2
<1>2. ASSUME NEW n \in N PROVE n + 1 \in N
  <2> SUFFICES ASSUME NEW U \in SUBSET S, IsFiniteSet(U),
                      Cardinality(U) = (n + 1) + 1
               PROVE  Least(U)
    OBVIOUS
  <2>1. n \in Nat OBVIOUS
  <2>2. U # {} BY <2>1, FS_EmptySet
  <2>3. PICK z \in U : TRUE BY <2>2
  <2>4. IsFiniteSet(U \ {z}) /\ Cardinality(U \ {z}) = n + 1
    BY <2>1, <2>3, FS_RemoveElement
  <2>5. Least(U \ {z}) BY <2>4
  <2>6. PICK x \in U \ {z} : \A y \in (U \ {z}) \ {x} : <<x, y>> \in R
    BY <2>5
  <2>7. CASE <<x, z>> \in R
    <3>1. \A y \in U \ {x} : <<x, y>> \in R BY <2>6, <2>7
    <3> QED BY <3>1
  <2>8. CASE <<x, z>> \notin R
    <3>1. <<z, x>> \in R BY <2>3, <2>6, <2>8 DEF Orders
    <3>2. \A y \in (U \ {z}) \ {x} : <<z, y>> \in R
      BY <2>3, <2>6, <3>1 DEF Orders
    <3>3. \A y \in U \ {z} : <<z, y>> \in R BY <3>1, <3>2
    <3> QED BY <2>3, <3>3
  <2> QED BY <2>7, <2>8
<1>3. N = Nat
  <2> HIDE DEF Least
  <2>1. N \in SUBSET Nat OBVIOUS
  <2> HIDE DEF N
  <2> QED BY <1>1, <1>2, <2>1, SetInduction
<1>4. Cardinality(T) \in Nat /\ Cardinality(T) # 0
  BY FS_CardinalityType, FS_EmptySet
<1>5. Cardinality(T) - 1 \in N /\ Cardinality(T) = (Cardinality(T) - 1) + 1
  BY <1>3, <1>4
<1>6. Least(T)
  <2> HIDE DEF Least
  <2> QED BY <1>5
<1> QED BY <1>6

(* And its elements can be listed in that order.                           *)
LEMMA SortedExists ==
  ASSUME NEW S, NEW R, Orders(R, S), NEW T \in SUBSET S, IsFiniteSet(T)
  PROVE  \E r \in [1..Cardinality(T) -> T] :
            /\ \A x \in T : \E i \in 1..Cardinality(T) : r[i] = x
            /\ \A i, j \in 1..Cardinality(T) : i < j => <<r[i], r[j]>> \in R
<1> DEFINE Lists(r, U, n) ==
             /\ r \in [1..n -> U]
             /\ \A x \in U : \E i \in 1..n : r[i] = x
             /\ \A i, j \in 1..n : i < j => <<r[i], r[j]>> \in R
           N == {n \in Nat : \A U \in SUBSET S :
                   IsFiniteSet(U) /\ Cardinality(U) = n => \E r : Lists(r, U, n)}
<1>1. 0 \in N
  <2> SUFFICES ASSUME NEW U \in SUBSET S, IsFiniteSet(U), Cardinality(U) = 0
               PROVE  \E r : Lists(r, U, 0)
    OBVIOUS
  <2>1. U = {} BY FS_EmptySet
  <2>2. 1..0 = {} OBVIOUS
  <2> DEFINE r == [i \in 1..0 |-> i]
  <2>3. r \in [1..0 -> U] BY <2>2
  <2>4. Lists(r, U, 0)
    <3> HIDE DEF r
    <3> QED BY <2>1, <2>2, <2>3
  <2> QED BY <2>4
<1>2. ASSUME NEW n \in N PROVE n + 1 \in N
  <2> SUFFICES ASSUME NEW U \in SUBSET S, IsFiniteSet(U),
                      Cardinality(U) = n + 1
               PROVE  \E r : Lists(r, U, n + 1)
    OBVIOUS
  <2>1. n \in Nat OBVIOUS
  <2>2. U # {} BY <2>1, FS_EmptySet
  <2>3. PICK x \in U : \A y \in U \ {x} : <<x, y>> \in R
    BY <2>2, LeastExists
  <2>4. IsFiniteSet(U \ {x}) /\ Cardinality(U \ {x}) = n
    <3> HIDE DEF N, Lists
    <3>1. x \in U /\ Cardinality(U) = n + 1 BY <2>3
    <3>2. /\ IsFiniteSet(U \ {x})
          /\ Cardinality(U \ {x}) = Cardinality(U) - 1
      BY <3>1, FS_RemoveElement
    <3> QED BY <3>1, <3>2, <2>1
  <2>5. PICK q : Lists(q, U \ {x}, n)
    <3> HIDE DEF Lists
    <3> QED BY <2>4
  <2> DEFINE r == [i \in 1..(n + 1) |-> IF i = 1 THEN x ELSE q[i - 1]]
  <2>6. /\ r[1] = x /\ 1 \in 1..(n + 1)
        /\ \A i \in 1..(n + 1) : i # 1 => i - 1 \in 1..n /\ r[i] = q[i - 1]
        /\ \A i \in 1..n : i + 1 \in 1..(n + 1) /\ r[i + 1] = q[i]
        /\ \A i \in 1..n : q[i] \in U \ {x}
    BY <2>1, <2>5
  <2>7. r \in [1..(n + 1) -> U]
    BY <2>3, <2>6
  <2> HIDE DEF r
  <2>8. \A y \in U : \E i \in 1..(n + 1) : r[i] = y
    <3> SUFFICES ASSUME NEW y \in U, y # x PROVE \E i \in 1..(n + 1) : r[i] = y
      BY <2>6
    <3>1. PICK i \in 1..n : q[i] = y BY <2>5
    <3> QED BY <3>1, <2>6
  <2>9. ASSUME NEW i \in 1..(n + 1), NEW j \in 1..(n + 1), i < j
        PROVE  <<r[i], r[j]>> \in R
    <3>1. j # 1 /\ r[j] = q[j - 1] /\ j - 1 \in 1..n BY <2>1, <2>6, <2>9
    <3>2. CASE i = 1 BY <3>1, <3>2, <2>3, <2>6
    <3>3. CASE i # 1
      <4>1. r[i] = q[i - 1] /\ i - 1 \in 1..n /\ i - 1 < j - 1
        BY <3>3, <2>1, <2>6, <2>9
      <4> QED BY <4>1, <3>1, <2>5
    <3> QED BY <3>2, <3>3
  <2>10. Lists(r, U, n + 1) BY <2>7, <2>8, <2>9
  <2> QED BY <2>10
<1>3. N = Nat
  <2> HIDE DEF Lists
  <2>1. N \in SUBSET Nat OBVIOUS
  <2> HIDE DEF N
  <2> QED BY <1>1, <1>2, <2>1, SetInduction
<1>4. Cardinality(T) \in Nat
  BY FS_CardinalityType
<1>5. \E r : Lists(r, T, Cardinality(T))
  <2> HIDE DEF Lists
  <2> QED BY <1>3, <1>4
<1> QED BY <1>5

(* The figures of a resident sequence are numbers.                         *)
LEMMA CostFacts ==
  ASSUME NEW e, NEW A, NEW X, EInv(e, A, X), NEW s \in Held(e, X)
  PROVE  /\ s \in SeqIds
         /\ Releasable(e, s) \in Nat /\ EstimatedRecompute(e, s) \in Nat
<1>1. s \in SeqIds
  BY LenProperties DEF EInv, Queues, Held, Elems
<1>2. e.table[s] \in Seq(Block) /\ Len(e.table[s]) \in Nat /\ Len(e.table[s]) > 0
      /\ e.len[s] \in Nat
  BY <1>1, LenProperties DEF EInv, Memory, Setup, Placed, Resident
<1>3. Releasable(e, s) \in Nat
  <2> DEFINE B == {b \in Elems(e.table[s]) : e.pool.ref[b] = 1}
  <2>1. Distinct(e.table[s]) BY <1>1 DEF EInv, Memory, Accounts
  <2>2. IsFiniteSet(Elems(e.table[s])) BY <1>2, <2>1, DistinctLen
  <2>3. IsFiniteSet(B) BY <2>2, FS_Subset
  <2>4. Cardinality(B) \in Nat BY <2>3, FS_CardinalityType
  <2> QED BY <2>4 DEF Releasable
<1>4. SharedPrefixTokens(e, s) \in Int
  <2> DEFINE front == Len(e.table[s]) - 1
             shared == {k \in 0..front :
                          \A i \in 1..k : e.pool.ref[e.table[s][i]] > 1}
             k == CHOOSE k \in shared : \A j \in shared : j <= k
  <2>1. front \in Nat BY <1>2
  <2>2. shared \in SUBSET (0..front) OBVIOUS
  <2>3. 0 \in shared
    <3>1. 0 \in 0..front /\ 1..0 = {} BY <2>1
    <3> QED BY <3>1
  <2> HIDE DEF shared, front
  <2>4. \A j \in shared : j \in Int /\ front - j \in Nat BY <2>1, <2>2
  <2>5. \E x \in shared : \A j \in shared : j <= x
    <3> DEFINE gaps == {front - j : j \in shared}
    <3>1. gaps \in SUBSET Nat /\ gaps # {} BY <2>3, <2>4
    <3>2. PICK g \in gaps : \A h \in gaps : g <= h
      <4> HIDE DEF gaps
      <4> QED BY <3>1, LeastNat
    <3>3. PICK x \in shared : g = front - x BY <3>2
    <3>4. ASSUME NEW j \in shared PROVE j <= x
      <4>1. g <= front - j BY <3>2
      <4> QED BY <4>1, <2>1, <2>4, <3>3
    <3> QED BY <3>4
  <2>6. k \in shared BY <2>5
  <2>7. k \in Int
    <3> HIDE DEF k
    <3> QED BY <2>6, <2>4
  <2>8. BlockSize * k \in Int
    <3> HIDE DEF k
    <3> QED BY <2>7, PoolAssumption
  <2> QED BY <2>8 DEF SharedPrefixTokens, front, shared
<1>5. EstimatedRecompute(e, s) \in Nat
  BY <1>2, <1>4 DEF EstimatedRecompute, LargerOf
<1> QED BY <1>1, <1>3, <1>5
(* The victim of a preemption is one of the running sequences.             *)
LEMMA VictimFacts ==
  ASSUME NEW e, NEW A, NEW X, EInv(e, A, X), e.running # << >>
  PROVE  SelectVictim(e, e.running) \in Elems(e.running)
<1> DEFINE T == Elems(e.running)
           Z == [s \in T |-> IF Releasable(e, s) = 0 THEN 1 ELSE 0]
           F == [s \in T |-> EstimatedRecompute(e, s)]
           G == [s \in T |-> LargerOf(Releasable(e, s), 1)]
           D == [s \in T |-> 0 - Releasable(e, s)]
           R == Ranking(Z, F, G, F, D, T)
<1>1. /\ e.running \in Seq(SeqIds) /\ Distinct(e.running)
      /\ Len(e.running) \in Nat /\ Len(e.running) # 0
      /\ \A i \in 1..Len(e.running) : e.running[i] \in SeqIds
  BY LenProperties, EmptySeq DEF EInv, Queues
<1>2. T \in SUBSET Int /\ T # {} /\ IsFiniteSet(T)
  <2>1. T \subseteq SeqIds /\ e.running[1] \in T BY <1>1 DEF Elems
  <2>2. SeqIds \subseteq Int BY DEF SeqIds
  <2> QED BY <1>1, <2>1, <2>2, DistinctLen
<1>3. \A s \in T : Releasable(e, s) \in Nat /\ EstimatedRecompute(e, s) \in Nat
  BY CostFacts DEF Held
<1>4. /\ Z \in [T -> Int] /\ F \in [T -> Int] /\ G \in [T -> Nat \ {0}]
      /\ D \in [T -> Int]
  <2> HIDE DEF T
  <2> QED BY <1>3 DEF LargerOf
<1>5. \A s, t \in T : <<s, t>> \in R <=> Cheaper(Cost(e, s), Cost(e, t))
  <2> SUFFICES ASSUME NEW s \in T, NEW t \in T
               PROVE  <<s, t>> \in R <=> Cheaper(Cost(e, s), Cost(e, t))
    OBVIOUS
  <2>1. /\ VictimKey(Cost(e, s), Cost(e, t)) = RankKey(Z, F, G, F, D, s, t)
        /\ VictimKey(Cost(e, t), Cost(e, s)) = RankKey(Z, F, G, F, D, t, s)
    BY DEF VictimKey, Cost, RankKey
  <2>2. <<s, t>> \in T \X T /\ <<s, t>>[1] = s /\ <<s, t>>[2] = t
    OBVIOUS
  <2> HIDE DEF T, Z, F, G, D
  <2> QED BY <2>1, <2>2 DEF Ranking, Cheaper
<1>6. \E s \in T : \A t \in T \ {s} : Cheaper(Cost(e, s), Cost(e, t))
  <2> HIDE DEF T, Z, F, G, D
  <2>1. Orders(R, T) BY <1>2, <1>4, RankingOrders
  <2> HIDE DEF R
  <2>2. PICK s \in T : \A t \in T \ {s} : <<s, t>> \in R
    BY <1>2, <2>1, LeastExists
  <2> QED BY <2>2, <1>5
<1>7. e.running[Len(e.running)] \in T
  BY <1>1 DEF Elems
<1> QED BY <1>6, <1>7 DEF SelectVictim
---------------------------------------------------------------------------
(* The loops.  Each is a function of the number of turns taken; a lemma    *)
(* says what its definition chooses exists, and the next what every turn   *)
(* keeps.                                                                  *)

(* _free_kv_for_waiting_head.                                              *)
FreeRun(e, head, k, g) ==
  g = [i \in 0..k |-> IF i = 0 THEN e ELSE FreeTurn(g[i - 1], head)]

LEMMA FreeTurns ==
  ASSUME NEW e, NEW head, Len(e.running) \in Nat
  PROVE  \E g : /\ g[0] = e /\ FreeKvFor(e, head) = g[Len(e.running)]
               /\ \A i \in 1..Len(e.running) : g[i] = FreeTurn(g[i - 1], head)
<1> DEFINE T == {k \in Nat : \E g : FreeRun(e, head, k, g)}
<1>1. 0 \in T
  <2> DEFINE g == [i \in 0..0 |-> e]
  <2>1. FreeRun(e, head, 0, g) BY DEF FreeRun
  <2> QED BY <2>1
<1>2. ASSUME NEW k \in T PROVE k + 1 \in T
  <2>1. k \in Nat OBVIOUS
  <2>2. PICK g : FreeRun(e, head, k, g) OBVIOUS
  <2>3. /\ \A i \in 0..k : g[i] = IF i = 0 THEN e ELSE FreeTurn(g[i - 1], head)
        /\ k + 1 \in 0..(k + 1) /\ k + 1 # 0 /\ (k + 1) - 1 = k
        /\ \A i \in 0..(k + 1) : i # k + 1 => i \in 0..k
        /\ \A i \in 0..(k + 1) : i # 0 => i - 1 \in 0..k /\ i - 1 \in 0..(k + 1)
    BY <2>1, <2>2 DEF FreeRun
  <2> DEFINE last == FreeTurn(g[(k + 1) - 1], head)
             h == [i \in 0..(k + 1) |-> IF i = k + 1 THEN last ELSE g[i]]
  <2>4. \A i \in 0..k : h[i] = g[i] BY <2>1
  <2>5. h[k + 1] = last BY <2>3
  <2>6. h = [i \in 0..(k + 1) |-> h[i]] OBVIOUS
  <2> HIDE DEF h
  <2>7. \A i \in 0..(k + 1) : h[i] = IF i = 0 THEN e ELSE FreeTurn(h[i - 1], head)
    <3> SUFFICES ASSUME NEW i \in 0..(k + 1)
                 PROVE  h[i] = IF i = 0 THEN e ELSE FreeTurn(h[i - 1], head)
      OBVIOUS
    <3>1. CASE i = k + 1
      <4>1. h[i - 1] = g[i - 1] BY <3>1, <2>3, <2>4
      <4> QED BY <4>1, <3>1, <2>3, <2>5
    <3>2. CASE i # k + 1
      <4>1. h[i] = g[i] /\ (i # 0 => h[i - 1] = g[i - 1]) BY <3>2, <2>3, <2>4
      <4> QED BY <4>1, <3>2, <2>3
    <3> QED BY <3>1, <3>2
  <2>8. FreeRun(e, head, k + 1, h) BY <2>6, <2>7 DEF FreeRun
  <2> QED BY <2>1, <2>8
<1>3. T = Nat
  <2>1. T \in SUBSET Nat OBVIOUS
  <2> HIDE DEF T
  <2> QED BY <1>1, <1>2, <2>1, SetInduction
<1> DEFINE f == CHOOSE g : FreeRun(e, head, Len(e.running), g)
<1>4. FreeRun(e, head, Len(e.running), f)
  <2>1. Len(e.running) \in T BY <1>3
  <2>2. \E g : FreeRun(e, head, Len(e.running), g) BY <2>1
  <2> QED BY <2>2
<1>5. FreeKvFor(e, head) = f[Len(e.running)]
  BY DEF FreeKvFor, FreeRun
<1> HIDE DEF f
<1>6. /\ f[0] = e
      /\ \A i \in 1..Len(e.running) : f[i] = FreeTurn(f[i - 1], head)
  <2>1. 0 \in 0..Len(e.running) /\ 1..Len(e.running) \subseteq 0..Len(e.running) /\ \A i \in 1..Len(e.running) : i # 0
    OBVIOUS
  <2>2. \A i \in 0..Len(e.running) : f[i] = IF i = 0 THEN e ELSE FreeTurn(f[i - 1], head)
    BY <1>4 DEF FreeRun
  <2> QED BY <2>1, <2>2
<1> QED BY <1>5, <1>6
(* The preemptions before a sequence can append a token.                   *)
RoomRun(e, s, k, g) ==
  g = [i \in 0..k |-> IF i = 0 THEN e ELSE RoomTurn(g[i - 1], s)]

LEMMA RoomTurns ==
  ASSUME NEW e, NEW s, (Len(e.running) + 1) \in Nat
  PROVE  \E g : /\ g[0] = e /\ MakeRoom(e, s) = g[Len(e.running) + 1]
               /\ \A i \in 1..(Len(e.running) + 1) : g[i] = RoomTurn(g[i - 1], s)
<1> DEFINE T == {k \in Nat : \E g : RoomRun(e, s, k, g)}
<1>1. 0 \in T
  <2> DEFINE g == [i \in 0..0 |-> e]
  <2>1. RoomRun(e, s, 0, g) BY DEF RoomRun
  <2> QED BY <2>1
<1>2. ASSUME NEW k \in T PROVE k + 1 \in T
  <2>1. k \in Nat OBVIOUS
  <2>2. PICK g : RoomRun(e, s, k, g) OBVIOUS
  <2>3. /\ \A i \in 0..k : g[i] = IF i = 0 THEN e ELSE RoomTurn(g[i - 1], s)
        /\ k + 1 \in 0..(k + 1) /\ k + 1 # 0 /\ (k + 1) - 1 = k
        /\ \A i \in 0..(k + 1) : i # k + 1 => i \in 0..k
        /\ \A i \in 0..(k + 1) : i # 0 => i - 1 \in 0..k /\ i - 1 \in 0..(k + 1)
    BY <2>1, <2>2 DEF RoomRun
  <2> DEFINE last == RoomTurn(g[(k + 1) - 1], s)
             h == [i \in 0..(k + 1) |-> IF i = k + 1 THEN last ELSE g[i]]
  <2>4. \A i \in 0..k : h[i] = g[i] BY <2>1
  <2>5. h[k + 1] = last BY <2>3
  <2>6. h = [i \in 0..(k + 1) |-> h[i]] OBVIOUS
  <2> HIDE DEF h
  <2>7. \A i \in 0..(k + 1) : h[i] = IF i = 0 THEN e ELSE RoomTurn(h[i - 1], s)
    <3> SUFFICES ASSUME NEW i \in 0..(k + 1)
                 PROVE  h[i] = IF i = 0 THEN e ELSE RoomTurn(h[i - 1], s)
      OBVIOUS
    <3>1. CASE i = k + 1
      <4>1. h[i - 1] = g[i - 1] BY <3>1, <2>3, <2>4
      <4> QED BY <4>1, <3>1, <2>3, <2>5
    <3>2. CASE i # k + 1
      <4>1. h[i] = g[i] /\ (i # 0 => h[i - 1] = g[i - 1]) BY <3>2, <2>3, <2>4
      <4> QED BY <4>1, <3>2, <2>3
    <3> QED BY <3>1, <3>2
  <2>8. RoomRun(e, s, k + 1, h) BY <2>6, <2>7 DEF RoomRun
  <2> QED BY <2>1, <2>8
<1>3. T = Nat
  <2>1. T \in SUBSET Nat OBVIOUS
  <2> HIDE DEF T
  <2> QED BY <1>1, <1>2, <2>1, SetInduction
<1> DEFINE f == CHOOSE g : RoomRun(e, s, (Len(e.running) + 1), g)
<1>4. RoomRun(e, s, (Len(e.running) + 1), f)
  <2>1. (Len(e.running) + 1) \in T BY <1>3
  <2>2. \E g : RoomRun(e, s, (Len(e.running) + 1), g) BY <2>1
  <2> QED BY <2>2
<1>5. MakeRoom(e, s) = f[(Len(e.running) + 1)]
  BY DEF MakeRoom, RoomRun
<1> HIDE DEF f
<1>6. /\ f[0] = e
      /\ \A i \in 1..(Len(e.running) + 1) : f[i] = RoomTurn(f[i - 1], s)
  <2>1. 0 \in 0..(Len(e.running) + 1) /\ 1..(Len(e.running) + 1) \subseteq 0..(Len(e.running) + 1) /\ \A i \in 1..(Len(e.running) + 1) : i # 0
    OBVIOUS
  <2>2. \A i \in 0..(Len(e.running) + 1) : f[i] = IF i = 0 THEN e ELSE RoomTurn(f[i - 1], s)
    BY <1>4 DEF RoomRun
  <2> QED BY <2>1, <2>2
<1> QED BY <1>5, <1>6

(* _schedule_decode.                                                        *)
DecodeRun(e, size, k, g) ==
  g = [i \in 0..k |-> IF i = 0 THEN [st |-> e, chosen |-> << >>] ELSE DecodeTurn(g[i - 1], size)]

LEMMA DecodeTurns ==
  ASSUME NEW e, NEW size, Len(e.running) \in Nat
  PROVE  \E g : /\ g[0] = [st |-> e, chosen |-> << >>] /\ DecodeLoop(e, size) = g[Len(e.running)]
               /\ \A i \in 1..Len(e.running) : g[i] = DecodeTurn(g[i - 1], size)
<1> DEFINE T == {k \in Nat : \E g : DecodeRun(e, size, k, g)}
<1>1. 0 \in T
  <2> DEFINE g == [i \in 0..0 |-> [st |-> e, chosen |-> << >>]]
  <2>1. DecodeRun(e, size, 0, g) BY DEF DecodeRun
  <2> QED BY <2>1
<1>2. ASSUME NEW k \in T PROVE k + 1 \in T
  <2>1. k \in Nat OBVIOUS
  <2>2. PICK g : DecodeRun(e, size, k, g) OBVIOUS
  <2>3. /\ \A i \in 0..k : g[i] = IF i = 0 THEN [st |-> e, chosen |-> << >>] ELSE DecodeTurn(g[i - 1], size)
        /\ k + 1 \in 0..(k + 1) /\ k + 1 # 0 /\ (k + 1) - 1 = k
        /\ \A i \in 0..(k + 1) : i # k + 1 => i \in 0..k
        /\ \A i \in 0..(k + 1) : i # 0 => i - 1 \in 0..k /\ i - 1 \in 0..(k + 1)
    BY <2>1, <2>2 DEF DecodeRun
  <2> DEFINE last == DecodeTurn(g[(k + 1) - 1], size)
             h == [i \in 0..(k + 1) |-> IF i = k + 1 THEN last ELSE g[i]]
  <2>4. \A i \in 0..k : h[i] = g[i] BY <2>1
  <2>5. h[k + 1] = last BY <2>3
  <2>6. h = [i \in 0..(k + 1) |-> h[i]] OBVIOUS
  <2> HIDE DEF h
  <2>7. \A i \in 0..(k + 1) : h[i] = IF i = 0 THEN [st |-> e, chosen |-> << >>] ELSE DecodeTurn(h[i - 1], size)
    <3> SUFFICES ASSUME NEW i \in 0..(k + 1)
                 PROVE  h[i] = IF i = 0 THEN [st |-> e, chosen |-> << >>] ELSE DecodeTurn(h[i - 1], size)
      OBVIOUS
    <3>1. CASE i = k + 1
      <4>1. h[i - 1] = g[i - 1] BY <3>1, <2>3, <2>4
      <4> QED BY <4>1, <3>1, <2>3, <2>5
    <3>2. CASE i # k + 1
      <4>1. h[i] = g[i] /\ (i # 0 => h[i - 1] = g[i - 1]) BY <3>2, <2>3, <2>4
      <4> QED BY <4>1, <3>2, <2>3
    <3> QED BY <3>1, <3>2
  <2>8. DecodeRun(e, size, k + 1, h) BY <2>6, <2>7 DEF DecodeRun
  <2> QED BY <2>1, <2>8
<1>3. T = Nat
  <2>1. T \in SUBSET Nat OBVIOUS
  <2> HIDE DEF T
  <2> QED BY <1>1, <1>2, <2>1, SetInduction
<1> DEFINE f == CHOOSE g : DecodeRun(e, size, Len(e.running), g)
<1>4. DecodeRun(e, size, Len(e.running), f)
  <2>1. Len(e.running) \in T BY <1>3
  <2>2. \E g : DecodeRun(e, size, Len(e.running), g) BY <2>1
  <2> QED BY <2>2
<1>5. DecodeLoop(e, size) = f[Len(e.running)]
  BY DEF DecodeLoop, DecodeRun
<1> HIDE DEF f
<1>6. /\ f[0] = [st |-> e, chosen |-> << >>]
      /\ \A i \in 1..Len(e.running) : f[i] = DecodeTurn(f[i - 1], size)
  <2>1. 0 \in 0..Len(e.running) /\ 1..Len(e.running) \subseteq 0..Len(e.running) /\ \A i \in 1..Len(e.running) : i # 0
    OBVIOUS
  <2>2. \A i \in 0..Len(e.running) : f[i] = IF i = 0 THEN [st |-> e, chosen |-> << >>] ELSE DecodeTurn(f[i - 1], size)
    BY <1>4 DEF DecodeRun
  <2> QED BY <2>1, <2>2
<1> QED BY <1>5, <1>6

(* _schedule_prefill.                                                       *)
PrefillRun(e, budget, k, g) ==
  g = [i \in 0..k |-> IF i = 0 THEN [st |-> e, count |-> 0, remaining |-> budget] ELSE PrefillOn(g[i - 1])]

LEMMA PrefillTurns ==
  ASSUME NEW e, NEW budget, MaxNumSeqs \in Nat
  PROVE  \E g : /\ g[0] = [st |-> e, count |-> 0, remaining |-> budget] /\ PrefillLoop(e, budget) = g[MaxNumSeqs]
               /\ \A i \in 1..MaxNumSeqs : g[i] = PrefillOn(g[i - 1])
<1> DEFINE T == {k \in Nat : \E g : PrefillRun(e, budget, k, g)}
<1>1. 0 \in T
  <2> DEFINE g == [i \in 0..0 |-> [st |-> e, count |-> 0, remaining |-> budget]]
  <2>1. PrefillRun(e, budget, 0, g) BY DEF PrefillRun
  <2> QED BY <2>1
<1>2. ASSUME NEW k \in T PROVE k + 1 \in T
  <2>1. k \in Nat OBVIOUS
  <2>2. PICK g : PrefillRun(e, budget, k, g) OBVIOUS
  <2>3. /\ \A i \in 0..k : g[i] = IF i = 0 THEN [st |-> e, count |-> 0, remaining |-> budget] ELSE PrefillOn(g[i - 1])
        /\ k + 1 \in 0..(k + 1) /\ k + 1 # 0 /\ (k + 1) - 1 = k
        /\ \A i \in 0..(k + 1) : i # k + 1 => i \in 0..k
        /\ \A i \in 0..(k + 1) : i # 0 => i - 1 \in 0..k /\ i - 1 \in 0..(k + 1)
    BY <2>1, <2>2 DEF PrefillRun
  <2> DEFINE last == PrefillOn(g[(k + 1) - 1])
             h == [i \in 0..(k + 1) |-> IF i = k + 1 THEN last ELSE g[i]]
  <2>4. \A i \in 0..k : h[i] = g[i] BY <2>1
  <2>5. h[k + 1] = last BY <2>3
  <2>6. h = [i \in 0..(k + 1) |-> h[i]] OBVIOUS
  <2> HIDE DEF h
  <2>7. \A i \in 0..(k + 1) : h[i] = IF i = 0 THEN [st |-> e, count |-> 0, remaining |-> budget] ELSE PrefillOn(h[i - 1])
    <3> SUFFICES ASSUME NEW i \in 0..(k + 1)
                 PROVE  h[i] = IF i = 0 THEN [st |-> e, count |-> 0, remaining |-> budget] ELSE PrefillOn(h[i - 1])
      OBVIOUS
    <3>1. CASE i = k + 1
      <4>1. h[i - 1] = g[i - 1] BY <3>1, <2>3, <2>4
      <4> QED BY <4>1, <3>1, <2>3, <2>5
    <3>2. CASE i # k + 1
      <4>1. h[i] = g[i] /\ (i # 0 => h[i - 1] = g[i - 1]) BY <3>2, <2>3, <2>4
      <4> QED BY <4>1, <3>2, <2>3
    <3> QED BY <3>1, <3>2
  <2>8. PrefillRun(e, budget, k + 1, h) BY <2>6, <2>7 DEF PrefillRun
  <2> QED BY <2>1, <2>8
<1>3. T = Nat
  <2>1. T \in SUBSET Nat OBVIOUS
  <2> HIDE DEF T
  <2> QED BY <1>1, <1>2, <2>1, SetInduction
<1> DEFINE f == CHOOSE g : PrefillRun(e, budget, MaxNumSeqs, g)
<1>4. PrefillRun(e, budget, MaxNumSeqs, f)
  <2>1. MaxNumSeqs \in T BY <1>3
  <2>2. \E g : PrefillRun(e, budget, MaxNumSeqs, g) BY <2>1
  <2> QED BY <2>2
<1>5. PrefillLoop(e, budget) = f[MaxNumSeqs]
  BY DEF PrefillLoop, PrefillRun
<1> HIDE DEF f
<1>6. /\ f[0] = [st |-> e, count |-> 0, remaining |-> budget]
      /\ \A i \in 1..MaxNumSeqs : f[i] = PrefillOn(f[i - 1])
  <2>1. 0 \in 0..MaxNumSeqs /\ 1..MaxNumSeqs \subseteq 0..MaxNumSeqs /\ \A i \in 1..MaxNumSeqs : i # 0
    OBVIOUS
  <2>2. \A i \in 0..MaxNumSeqs : f[i] = IF i = 0 THEN [st |-> e, count |-> 0, remaining |-> budget] ELSE PrefillOn(f[i - 1])
    BY <1>4 DEF PrefillRun
  <2> QED BY <2>1, <2>2
<1> QED BY <1>5, <1>6

(* postprocess, item by item.                                               *)
ItemsRun(e, eos, k, g) ==
  g = [i \in 0..k |-> IF i = 0 THEN e ELSE ItemDone(g[i - 1], e.batch[i], eos)]

LEMMA ItemsTurns ==
  ASSUME NEW e, NEW eos, Len(e.batch) \in Nat
  PROVE  \E g : /\ g[0] = e /\ AllDone(e, eos) = g[Len(e.batch)]
               /\ \A i \in 1..Len(e.batch) : g[i] = ItemDone(g[i - 1], e.batch[i], eos)
<1> DEFINE T == {k \in Nat : \E g : ItemsRun(e, eos, k, g)}
<1>1. 0 \in T
  <2> DEFINE g == [i \in 0..0 |-> e]
  <2>1. ItemsRun(e, eos, 0, g) BY DEF ItemsRun
  <2> QED BY <2>1
<1>2. ASSUME NEW k \in T PROVE k + 1 \in T
  <2>1. k \in Nat OBVIOUS
  <2>2. PICK g : ItemsRun(e, eos, k, g) OBVIOUS
  <2>3. /\ \A i \in 0..k : g[i] = IF i = 0 THEN e ELSE ItemDone(g[i - 1], e.batch[i], eos)
        /\ k + 1 \in 0..(k + 1) /\ k + 1 # 0 /\ (k + 1) - 1 = k
        /\ \A i \in 0..(k + 1) : i # k + 1 => i \in 0..k
        /\ \A i \in 0..(k + 1) : i # 0 => i - 1 \in 0..k /\ i - 1 \in 0..(k + 1)
    BY <2>1, <2>2 DEF ItemsRun
  <2> DEFINE last == ItemDone(g[(k + 1) - 1], e.batch[(k + 1)], eos)
             h == [i \in 0..(k + 1) |-> IF i = k + 1 THEN last ELSE g[i]]
  <2>4. \A i \in 0..k : h[i] = g[i] BY <2>1
  <2>5. h[k + 1] = last BY <2>3
  <2>6. h = [i \in 0..(k + 1) |-> h[i]] OBVIOUS
  <2> HIDE DEF h
  <2>7. \A i \in 0..(k + 1) : h[i] = IF i = 0 THEN e ELSE ItemDone(h[i - 1], e.batch[i], eos)
    <3> SUFFICES ASSUME NEW i \in 0..(k + 1)
                 PROVE  h[i] = IF i = 0 THEN e ELSE ItemDone(h[i - 1], e.batch[i], eos)
      OBVIOUS
    <3>1. CASE i = k + 1
      <4>1. h[i - 1] = g[i - 1] BY <3>1, <2>3, <2>4
      <4> QED BY <4>1, <3>1, <2>3, <2>5
    <3>2. CASE i # k + 1
      <4>1. h[i] = g[i] /\ (i # 0 => h[i - 1] = g[i - 1]) BY <3>2, <2>3, <2>4
      <4> QED BY <4>1, <3>2, <2>3
    <3> QED BY <3>1, <3>2
  <2>8. ItemsRun(e, eos, k + 1, h) BY <2>6, <2>7 DEF ItemsRun
  <2> QED BY <2>1, <2>8
<1>3. T = Nat
  <2>1. T \in SUBSET Nat OBVIOUS
  <2> HIDE DEF T
  <2> QED BY <1>1, <1>2, <2>1, SetInduction
<1> DEFINE f == CHOOSE g : ItemsRun(e, eos, Len(e.batch), g)
<1>4. ItemsRun(e, eos, Len(e.batch), f)
  <2>1. Len(e.batch) \in T BY <1>3
  <2>2. \E g : ItemsRun(e, eos, Len(e.batch), g) BY <2>1
  <2> QED BY <2>2
<1>5. AllDone(e, eos) = f[Len(e.batch)]
  BY DEF AllDone, ItemsRun
<1> HIDE DEF f
<1>6. /\ f[0] = e
      /\ \A i \in 1..Len(e.batch) : f[i] = ItemDone(f[i - 1], e.batch[i], eos)
  <2>1. 0 \in 0..Len(e.batch) /\ 1..Len(e.batch) \subseteq 0..Len(e.batch) /\ \A i \in 1..Len(e.batch) : i # 0
    OBVIOUS
  <2>2. \A i \in 0..Len(e.batch) : f[i] = IF i = 0 THEN e ELSE ItemDone(f[i - 1], e.batch[i], eos)
    BY <1>4 DEF ItemsRun
  <2> QED BY <2>1, <2>2
<1> QED BY <1>5, <1>6

(* The tokens of a batch.                                                   *)
SumRun(batch, k, g) ==
  g = [i \in 0..k |-> IF i = 0 THEN 0 ELSE g[i - 1] + batch[i].n]

LEMMA SumTurns ==
  ASSUME NEW batch, Len(batch) \in Nat
  PROVE  \E g : /\ g[0] = 0 /\ TokensOf(batch) = g[Len(batch)]
               /\ \A i \in 1..Len(batch) : g[i] = g[i - 1] + batch[i].n
<1> DEFINE T == {k \in Nat : \E g : SumRun(batch, k, g)}
<1>1. 0 \in T
  <2> DEFINE g == [i \in 0..0 |-> 0]
  <2>1. SumRun(batch, 0, g) BY DEF SumRun
  <2> QED BY <2>1
<1>2. ASSUME NEW k \in T PROVE k + 1 \in T
  <2>1. k \in Nat OBVIOUS
  <2>2. PICK g : SumRun(batch, k, g) OBVIOUS
  <2>3. /\ \A i \in 0..k : g[i] = IF i = 0 THEN 0 ELSE g[i - 1] + batch[i].n
        /\ k + 1 \in 0..(k + 1) /\ k + 1 # 0 /\ (k + 1) - 1 = k
        /\ \A i \in 0..(k + 1) : i # k + 1 => i \in 0..k
        /\ \A i \in 0..(k + 1) : i # 0 => i - 1 \in 0..k /\ i - 1 \in 0..(k + 1)
    BY <2>1, <2>2 DEF SumRun
  <2> DEFINE last == g[(k + 1) - 1] + batch[(k + 1)].n
             h == [i \in 0..(k + 1) |-> IF i = k + 1 THEN last ELSE g[i]]
  <2>4. \A i \in 0..k : h[i] = g[i] BY <2>1
  <2>5. h[k + 1] = last BY <2>3
  <2>6. h = [i \in 0..(k + 1) |-> h[i]] OBVIOUS
  <2> HIDE DEF h
  <2>7. \A i \in 0..(k + 1) : h[i] = IF i = 0 THEN 0 ELSE h[i - 1] + batch[i].n
    <3> SUFFICES ASSUME NEW i \in 0..(k + 1)
                 PROVE  h[i] = IF i = 0 THEN 0 ELSE h[i - 1] + batch[i].n
      OBVIOUS
    <3>1. CASE i = k + 1
      <4>1. h[i - 1] = g[i - 1] BY <3>1, <2>3, <2>4
      <4> QED BY <4>1, <3>1, <2>3, <2>5
    <3>2. CASE i # k + 1
      <4>1. h[i] = g[i] /\ (i # 0 => h[i - 1] = g[i - 1]) BY <3>2, <2>3, <2>4
      <4> QED BY <4>1, <3>2, <2>3
    <3> QED BY <3>1, <3>2
  <2>8. SumRun(batch, k + 1, h) BY <2>6, <2>7 DEF SumRun
  <2> QED BY <2>1, <2>8
<1>3. T = Nat
  <2>1. T \in SUBSET Nat OBVIOUS
  <2> HIDE DEF T
  <2> QED BY <1>1, <1>2, <2>1, SetInduction
<1> DEFINE f == CHOOSE g : SumRun(batch, Len(batch), g)
<1>4. SumRun(batch, Len(batch), f)
  <2>1. Len(batch) \in T BY <1>3
  <2>2. \E g : SumRun(batch, Len(batch), g) BY <2>1
  <2> QED BY <2>2
<1>5. TokensOf(batch) = f[Len(batch)]
  BY DEF TokensOf, SumRun
<1> HIDE DEF f
<1>6. /\ f[0] = 0
      /\ \A i \in 1..Len(batch) : f[i] = f[i - 1] + batch[i].n
  <2>1. 0 \in 0..Len(batch) /\ 1..Len(batch) \subseteq 0..Len(batch) /\ \A i \in 1..Len(batch) : i # 0
    OBVIOUS
  <2>2. \A i \in 0..Len(batch) : f[i] = IF i = 0 THEN 0 ELSE f[i - 1] + batch[i].n
    BY <1>4 DEF SumRun
  <2> QED BY <2>1, <2>2
<1> QED BY <1>5, <1>6
---------------------------------------------------------------------------
(* What the operations of schedule() keep.                                 *)

Ready(e, A) == EInv(e, A, {}) /\ e.batch = << >>

(* _free_kv_for_waiting_head preempts running sequences only.              *)
LEMMA FreeFacts ==
  ASSUME NEW e, NEW A, EInv(e, A, {})
  PROVE  LET d == FreeKvForWaitingHead(e)
         IN  EInv(d, A, {}) /\ SameBooks(e, d) /\ d.batch = e.batch
<1> DEFINE Fine(d) == EInv(d, A, {}) /\ SameBooks(e, d) /\ d.batch = e.batch
<1>1. Fine(e)
  BY DEF SameBooks
<1>2. ASSUME NEW d, Fine(d), NEW head PROVE Fine(FreeTurn(d, head))
  <2>1. CASE FreeTurn(d, head) = d BY <2>1, <1>2
  <2>2. CASE FreeTurn(d, head) # d
    <3>1. d.running # << >>
          /\ FreeTurn(d, head) = Preempted(d, SelectVictim(d, d.running), FALSE)
      BY <2>2 DEF FreeTurn
    <3> DEFINE v == SelectVictim(d, d.running)
    <3>2. v \in Held(d, {}) BY <3>1, <1>2, VictimFacts DEF Held
    <3> HIDE DEF v
    <3> DEFINE p == Preempted(d, v, FALSE)
    <3>3. EInv(p, A, {} \ {v}) /\ SameBooks(d, p) /\ p.batch = d.batch
      <4>1. FALSE \in BOOLEAN /\ EInv(d, A, {}) BY <1>2
      <4> HIDE DEF Fine
      <4>2. Preempts(d, p, A, {}, v) BY <3>2, <4>1, PreemptedFacts
      <4> QED BY <4>2 DEF Preempts
    <3>4. {} \ {v} = {} OBVIOUS
    <3> HIDE DEF p
    <3>5. Fine(p) BY <3>3, <3>4, <1>2 DEF SameBooks
    <3> QED BY <3>1, <3>5 DEF v, p
  <2> QED BY <2>1, <2>2
<1>3. ASSUME NEW head PROVE Fine(FreeKvFor(e, head))
  <2>1. Len(e.running) \in Nat BY LenProperties DEF EInv, Queues
  <2>2. PICK g : /\ g[0] = e /\ FreeKvFor(e, head) = g[Len(e.running)]
                 /\ \A i \in 1..Len(e.running) : g[i] = FreeTurn(g[i - 1], head)
    BY <2>1, FreeTurns
  <2> DEFINE T == {i \in Nat : i <= Len(e.running) => Fine(g[i])}
  <2>3. 0 \in T BY <1>1, <2>2
  <2>4. ASSUME NEW i \in T PROVE i + 1 \in T
    <3> HIDE DEF Fine
    <3>1. CASE i + 1 <= Len(e.running)
      <4>1. i \in Nat /\ i <= Len(e.running) BY <3>1, <2>1
      <4>2. Fine(g[i]) BY <4>1
      <4>3. i + 1 \in 1..Len(e.running) /\ (i + 1) - 1 = i BY <3>1, <4>1, <2>1
      <4>4. g[i + 1] = FreeTurn(g[i], head) BY <4>3, <2>2
      <4>5. Fine(FreeTurn(g[i], head)) BY <4>2, <1>2
      <4> QED BY <4>4, <4>5, <4>1
    <3>2. CASE ~ (i + 1 <= Len(e.running))
      BY <3>2
    <3> QED BY <3>1, <3>2
  <2>5. T = Nat
    <3>1. T \in SUBSET Nat OBVIOUS
    <3> HIDE DEF T
    <3> QED BY <2>3, <2>4, <3>1, SetInduction
  <2>6. Fine(g[Len(e.running)])
    <3> HIDE DEF Fine
    <3> QED BY <2>1, <2>5
  <2> QED BY <2>2, <2>6
<1>4. Fine(FreeKvForWaitingHead(e))
  <2> HIDE DEF Fine
  <2> QED BY <1>1, <1>3 DEF FreeKvForWaitingHead
<1> QED BY <1>4

(* The text of a sequence that has been set up.                            *)
LEMMA TokensFacts ==
  ASSUME NEW e, Setup(e), NEW s \in SeqIds
  PROVE  /\ Toks(e, s) \in Seq(Nat) /\ Len(Toks(e, s)) = e.len[s]
         /\ e.len[s] \in Nat /\ e.len[s] > 0
<1>1. /\ e.text[s] \in Seq(Nat) /\ e.len[s] \in Nat /\ e.plen[s] \in Nat \ {0}
      /\ e.maxTokens[s] \in Nat \ {0}
      /\ Len(e.text[s]) = e.plen[s] + e.maxTokens[s]
      /\ e.plen[s] <= e.len[s] /\ e.len[s] <= e.plen[s] + e.maxTokens[s]
  BY DEF Setup
<1> DEFINE q == e.text[s]
           m == e.len[s]
<1>2. q \in Seq(Nat) /\ m \in Nat /\ m > 0 /\ m <= Len(q)
  BY <1>1
<1> HIDE DEF q, m
<1>3. SubSeq(q, 1, m) \in Seq(Nat) /\ Len(SubSeq(q, 1, m)) = m
  <2>1. \A i \in 1..m : i \in 1..Len(q) BY <1>2, LenProperties
  <2>2. 1 \in Int /\ m \in Int /\ (IF 1 <= m THEN m - 1 + 1 ELSE 0) = m BY <1>2
  <2> QED BY <1>2, <2>1, <2>2, SubSeqProperties
<1> QED BY <1>1, <1>2, <1>3 DEF Toks, q, m

(* The queues as sets of identifiers.                                      *)
LEMMA QueueFacts ==
  ASSUME NEW e, NEW A, NEW X, EInv(e, A, X)
  PROVE  /\ e.waiting \in Seq(SeqIds) /\ Distinct(e.waiting)
         /\ e.running \in Seq(SeqIds) /\ Distinct(e.running)
         /\ Elems(e.waiting) \subseteq SeqIds /\ Elems(e.running) \subseteq SeqIds
         /\ X \subseteq SeqIds /\ Held(e, X) \subseteq SeqIds
         /\ Elems(e.waiting) \cap Held(e, X) = {} /\ Elems(e.running) \cap X = {}
         /\ Len(e.running) \in Nat /\ Len(e.waiting) \in Nat
         /\ \A s \in Elems(e.waiting) \union Held(e, X) : s \in A
<1>1. /\ e.waiting \in Seq(SeqIds) /\ Distinct(e.waiting)
      /\ e.running \in Seq(SeqIds) /\ Distinct(e.running) /\ X \subseteq SeqIds
      /\ Elems(e.waiting) \cap Held(e, X) = {} /\ Elems(e.running) \cap X = {}
      /\ Elems(e.waiting) \union Held(e, X) = A \ e.finished
  BY DEF EInv, Queues
<1>2. /\ Elems(e.waiting) \subseteq SeqIds /\ Elems(e.running) \subseteq SeqIds
      /\ Len(e.running) \in Nat /\ Len(e.waiting) \in Nat
  BY <1>1, LenProperties DEF Elems
<1> QED BY <1>1, <1>2 DEF Held
(* materialize and may_append: k blocks more for a sequence.               *)
Grows(e, d, A, X, s, k) ==
  /\ EInv(d, A, X) /\ SameBooks(e, d) /\ d.batch = e.batch
  /\ d.waiting = e.waiting /\ d.running = e.running
  /\ d.cached = e.cached /\ d.preempts = e.preempts
  /\ Len(d.table[s]) = Len(e.table[s]) + k
  /\ \A r \in SeqIds \ {s} : Untouched(e, d, r)

LEMMA GrowFacts ==
  ASSUME NEW e, NEW A, NEW X, EInv(e, A, X), NEW s \in SeqIds,
         s \in Held(e, X) \/ (s \in Elems(e.waiting) /\ e.incremental),
         NEW k \in 0..Len(e.pool.free)
  PROVE  Grows(e, Installed(e, s, Extended(e.pool, e.table[s], k)), A, X, s, k)
<1> DEFINE new == Extended(e.pool, e.table[s], k)
           d == Installed(e, s, new)
<1>1. /\ DOMAIN d = EngineFields /\ SameBooks(e, d) /\ d.batch = e.batch
      /\ d.preempts = e.preempts /\ d.waiting = e.waiting /\ d.running = e.running
      /\ d.pool = new.pool /\ d.table = Put(e.table, s, new.table)
      /\ d.cached = e.cached
  <2> HIDE DEF new
  <2> QED BY DEF EInv, Setup, EngineFields, Installed, Put, SameBooks
<1> HIDE DEF d
<1>2. /\ PoolTyped(new.pool, Nat)
      /\ new.table \in Seq(Block) /\ Len(new.table) = Len(e.table[s]) + k
      /\ Accounts(new.pool, Put(e.table, s, new.table), SeqIds)
      /\ Indexed(new.pool, Put(e.table, s, new.table), e.cached, SeqIds)
  BY MemoryFacts, ExtendedFacts
<1> HIDE DEF new
<1>3. Setup(d) BY <1>1 DEF EInv, Setup, SameBooks
<1>4. Memory(d)
  <2>1. d.table \in [SeqIds -> Seq(Block)] /\ d.cached \in [SeqIds -> Nat]
    BY <1>1, <1>2, MemoryFacts DEF Put
  <2> QED BY <2>1, <1>1, <1>2 DEF Memory
<1>5. Held(d, X) = Held(e, X) BY <1>1 DEF Held
<1>6. Queues(d, A, X) BY <1>1, <1>5 DEF EInv, Queues, SameBooks
<1>7. \A r \in SeqIds \ {s} : Untouched(e, d, r)
  BY <1>1 DEF Untouched, Put, EInv, Memory
<1>8. Len(d.table[s]) = Len(e.table[s]) + k /\ d.table[s] = new.table
  BY <1>1, <1>2, MemoryFacts DEF Put
<1>9. Capacity(e, s) <= Capacity(d, s) /\ Capacity(e, s) \in Nat /\ Capacity(d, s) \in Nat
  <2>1. Len(e.table[s]) \in Nat /\ k \in Nat BY MemoryFacts, LenProperties
  <2>2. Len(e.table[s]) <= Len(e.table[s]) + k /\ Len(e.table[s]) + k \in Nat BY <2>1
  <2> QED BY <2>1, <2>2, <1>8, MulMonotone DEF Capacity
<1>10. e.len[s] \in Nat /\ e.cached[s] \in Nat
  BY DEF EInv, Setup, Memory
<1>11. s \in Elems(d.waiting) => Parked(d, s)
  <2> SUFFICES ASSUME s \in Elems(e.waiting) PROVE Parked(d, s)
    BY <1>1
  <2>1. Parked(e, s) /\ e.incremental
    BY QueueFacts DEF EInv, Placed
  <2> QED BY <2>1, <1>1, <1>9, <1>10 DEF Parked, SameBooks
<1>12. s \in Held(d, X) => Resident(d, s)
  <2> SUFFICES ASSUME s \in Held(e, X) PROVE Resident(d, s)
    BY <1>5
  <2>1. Resident(e, s) BY DEF EInv, Placed
  <2>2. Len(e.table[s]) \in Nat /\ k \in Nat BY MemoryFacts, LenProperties
  <2> QED BY <2>1, <2>2, <1>1, <1>8, <1>9, <1>10 DEF Resident, SameBooks
<1>13. EInv(d, A, X)
  BY <1>1, <1>3, <1>4, <1>5, <1>6, <1>7, <1>11, <1>12, MoveKeeps
<1>14. Grows(e, d, A, X, s, k) BY <1>1, <1>7, <1>8, <1>13 DEF Grows
<1> QED BY <1>14 DEF d, new

(* allocate: the first blocks of a waiting sequence, c of them cached.     *)
Admits(e, d, A, X, s, m, c) ==
  /\ EInv(d, A, X) /\ SameBooks(e, d) /\ d.batch = e.batch
  /\ d.waiting = e.waiting /\ d.running = e.running
  /\ d.preempts = e.preempts /\ Len(d.table[s]) = BlocksFor(m)
  /\ d.cached[s] = c * BlockSize /\ m <= Capacity(d, s)
  /\ m >= CachedBlocks(e.pool, Toks(e, s)) * BlockSize =>
       c = CachedBlocks(e.pool, Toks(e, s))
  /\ \A r \in SeqIds \ {s} : Untouched(e, d, r)

LEMMA AdmitFacts ==
  ASSUME NEW e, NEW A, NEW X, EInv(e, A, X), NEW s \in Elems(e.waiting),
         e.table[s] = << >>, NEW m \in Nat, m <= e.len[s],
         e.incremental \/ m = e.len[s],
         CanAllocate(e.pool, Toks(e, s), m) # -1
  PROVE  LET c == CanAllocate(e.pool, Toks(e, s), m)
             d == [Installed(e, s, Allocated(e.pool, Toks(e, s), c, m))
                     EXCEPT !.cached[s] = c * BlockSize]
         IN  Admits(e, d, A, X, s, m, c)
<1> DEFINE toks == Toks(e, s)
           c == CanAllocate(e.pool, toks, m)
           new == Allocated(e.pool, toks, c, m)
           d == [Installed(e, s, new) EXCEPT !.cached[s] = c * BlockSize]
<1>1. s \in SeqIds BY QueueFacts
<1>2. /\ DOMAIN d = EngineFields /\ SameBooks(e, d) /\ d.batch = e.batch
      /\ d.preempts = e.preempts /\ d.waiting = e.waiting /\ d.running = e.running
      /\ d.pool = new.pool /\ d.table = Put(e.table, s, new.table)
      /\ d.cached = Put(e.cached, s, c * BlockSize)
  <2> HIDE DEF new, c
  <2> QED BY DEF EInv, Setup, EngineFields, Installed, Put, SameBooks
<1> HIDE DEF d
<1>3. toks \in Seq(Nat) /\ Len(toks) = e.len[s] /\ e.len[s] \in Nat /\ Len(toks) > 0
  BY <1>1, TokensFacts DEF EInv
<1>4. HasNoBlocks(e.table, s)
  BY EmptyQueue DEF HasNoBlocks
<1> HIDE DEF toks
<1>5. /\ InCache(e.pool, toks, c) /\ c * BlockSize < Len(toks)
      /\ c <= BlocksFor(m)
      /\ m >= CachedBlocks(e.pool, toks) * BlockSize => c = CachedBlocks(e.pool, toks)
      /\ BlocksFor(m) - c <= Len(ShareCached(e.pool, Cached(e.pool, toks, c)).free)
  <2>1. CanAllocate(e.pool, toks, m) # -1 BY DEF toks
  <2>2. /\ PoolTyped(e.pool, Nat)
        /\ \A h \in DOMAIN e.pool.map : e.pool.hash[e.pool.map[h]] = h /\ h # Root
        /\ Distinct(e.pool.free) /\ Elems(e.pool.free) = Block \ e.pool.used
    BY MemoryFacts DEF Accounts, Indexed
  <2> QED BY <2>1, <2>2, <1>3, CanAllocateFacts
<1>6. c \in Nat BY <1>5 DEF InCache
<1> HIDE DEF c
<1>7. /\ PoolTyped(new.pool, Nat)
      /\ new.table \in Seq(Block) /\ Len(new.table) = BlocksFor(m)
      /\ Accounts(new.pool, Put(e.table, s, new.table), SeqIds)
      /\ Indexed(new.pool, Put(e.table, s, new.table), Put(e.cached, s, c * BlockSize), SeqIds)
  BY <1>1, <1>3, <1>4, <1>5, MemoryFacts, AllocatedFacts
<1> HIDE DEF new
<1>8. c * BlockSize \in Nat BY <1>6, MulMonotone
<1>9. Setup(d) BY <1>2 DEF EInv, Setup, SameBooks
<1>10. Memory(d)
  <2>1. d.table \in [SeqIds -> Seq(Block)] /\ d.cached \in [SeqIds -> Nat]
    <3> DEFINE start == c * BlockSize
    <3>1. start \in Nat /\ d.cached = Put(e.cached, s, start) BY <1>2, <1>8
    <3>2. /\ d.table = Put(e.table, s, new.table) /\ new.table \in Seq(Block)
          /\ e.table \in [SeqIds -> Seq(Block)] /\ e.cached \in [SeqIds -> Nat]
      BY <1>2, <1>7, MemoryFacts
    <3> HIDE DEF start
    <3>3. d.table \in [SeqIds -> Seq(Block)] BY <3>2 DEF Put
    <3>4. d.cached \in [SeqIds -> Nat] BY <3>1, <3>2 DEF Put
    <3> QED BY <3>3, <3>4
  <2> QED BY <2>1, <1>2, <1>7 DEF Memory
<1>11. Held(d, X) = Held(e, X) BY <1>2 DEF Held
<1>12. Queues(d, A, X) BY <1>2, <1>11 DEF EInv, Queues, SameBooks
<1>13. \A r \in SeqIds \ {s} : Untouched(e, d, r)
  BY <1>2 DEF Untouched, Put, EInv, Memory
<1>14. d.table[s] = new.table /\ d.cached[s] = c * BlockSize
  BY <1>1, <1>2, MemoryFacts DEF Put
<1>15. /\ m <= Capacity(d, s) /\ Capacity(d, s) \in Nat
       /\ c * BlockSize <= Capacity(d, s)
  <2>1. BlocksFor(m) \in Nat /\ m <= BlocksFor(m) * BlockSize BY BlocksForFacts
  <2>2. c * BlockSize <= BlocksFor(m) * BlockSize BY <1>5, <1>6, <2>1, MulMonotone
  <2> QED BY <2>1, <2>2, <1>7, <1>14, MulMonotone DEF Capacity
<1>16. Parked(d, s)
  <2>1. Parked(e, s) BY DEF EInv, Placed
  <2> QED BY <2>1, <1>2, <1>3, <1>5, <1>14, <1>15 DEF Parked, SameBooks
<1>17. s \notin Held(d, X) /\ s \in Elems(d.waiting)
  BY <1>2, <1>11, QueueFacts
<1>18. EInv(d, A, X)
  BY <1>1, <1>2, <1>9, <1>10, <1>11, <1>12, <1>13, <1>16, <1>17, MoveKeeps
<1>19. m >= CachedBlocks(e.pool, toks) * BlockSize => c = CachedBlocks(e.pool, toks)
  BY <1>5
<1>20. Admits(e, d, A, X, s, m, c)
  BY <1>2, <1>7, <1>13, <1>14, <1>15, <1>18, <1>19 DEF Admits, toks
<1> QED BY <1>20 DEF d, new, c, toks
---------------------------------------------------------------------------
(* The batch.                                                              *)

Item == [seq : SeqIds, phase : {"prefill", "decode"}, n : Nat]

(* An item has the blocks its tokens are written to, and its sequence is   *)
(* where postprocess() expects it.                                         *)
ItemOK(e, X, item) ==
  /\ item \in Item /\ item.n > 0
  /\ item.phase = "prefill" =>
       /\ e.cached[item.seq] + item.n <= e.len[item.seq]
       /\ e.cached[item.seq] + item.n <= Capacity(e, item.seq)
       /\ e.cached[item.seq] + item.n = e.len[item.seq] => item.seq \in Held(e, X)
       /\ e.cached[item.seq] + item.n < e.len[item.seq] => item.seq \in Elems(e.waiting)
  /\ item.phase = "decode" =>
       /\ item.n = 1 /\ item.seq \in Held(e, X)
       /\ e.len[item.seq] <= Capacity(e, item.seq)

BatchOK(e, X) ==
  /\ e.batch \in Seq(Item)
  /\ \A k \in 1..Len(e.batch) : ItemOK(e, X, e.batch[k])
  /\ \A j, k \in 1..Len(e.batch) : e.batch[j].seq = e.batch[k].seq => j = k

LEMMA ItemKept ==
  ASSUME NEW e, NEW X, NEW item, ItemOK(e, X, item),
         NEW d, NEW Y, SameBooks(e, d), Untouched(e, d, item.seq),
         item.seq \in Elems(e.waiting) => item.seq \in Elems(d.waiting),
         item.seq \in Held(e, X) => item.seq \in Held(d, Y)
  PROVE  ItemOK(d, Y, item)
<1>1. /\ d.cached[item.seq] = e.cached[item.seq] /\ d.len[item.seq] = e.len[item.seq]
      /\ Capacity(d, item.seq) = Capacity(e, item.seq)
  BY DEF SameBooks, Untouched, Capacity
<1> QED BY <1>1 DEF ItemOK

LEMMA SelectedFacts ==
  ASSUME NEW e, e.batch \in Seq(Item)
  PROVE  /\ Len(e.batch) \in Nat /\ DOMAIN e.batch = 1..Len(e.batch)
         /\ \A k \in 1..Len(e.batch) : e.batch[k] \in Item
                                       /\ e.batch[k].seq \in Selected(e)
         /\ \A s \in Selected(e) : \E k \in 1..Len(e.batch) : e.batch[k].seq = s
BY LenProperties DEF Selected

(* A new item at the end.                                                  *)
LEMMA BatchGrows ==
  ASSUME NEW e, NEW X, BatchOK(e, X), NEW item,
         NEW d, NEW Y, d.batch = Append(e.batch, item), SameBooks(e, d),
         ItemOK(d, Y, item), item.seq \notin Selected(e),
         \A r \in SeqIds \ {item.seq} :
           /\ Untouched(e, d, r)
           /\ r \in Elems(e.waiting) => r \in Elems(d.waiting)
           /\ r \in Held(e, X) => r \in Held(d, Y)
  PROVE  BatchOK(d, Y) /\ Selected(d) = Selected(e) \union {item.seq}
<1>1. /\ e.batch \in Seq(Item) /\ item \in Item
  BY DEF BatchOK, ItemOK
<1>2. /\ Len(e.batch) \in Nat
      /\ \A k \in 1..Len(e.batch) : e.batch[k] \in Item /\ e.batch[k].seq \in Selected(e)
      /\ \A s \in Selected(e) : \E k \in 1..Len(e.batch) : e.batch[k].seq = s
  BY <1>1, SelectedFacts
<1>3. /\ d.batch \in Seq(Item) /\ Len(d.batch) = Len(e.batch) + 1
      /\ d.batch[Len(e.batch) + 1] = item
      /\ \A k \in 1..Len(e.batch) : d.batch[k] = e.batch[k]
      /\ DOMAIN d.batch = 1..(Len(e.batch) + 1)
  BY <1>1, AppendProperties, LenProperties
<1>4. \A k \in 1..(Len(e.batch) + 1) : k \in 1..Len(e.batch) \/ k = Len(e.batch) + 1
  BY <1>2
<1>5. ASSUME NEW k \in 1..Len(e.batch) PROVE ItemOK(d, Y, e.batch[k])
  <2>1. ItemOK(e, X, e.batch[k]) BY DEF BatchOK
  <2>2. e.batch[k].seq \in SeqIds \ {item.seq} BY <1>2 DEF Item
  <2> QED BY <2>1, <2>2, ItemKept
<1>6. \A k \in 1..(Len(e.batch) + 1) : ItemOK(d, Y, d.batch[k])
  BY <1>3, <1>4, <1>5
<1>7. ASSUME NEW j \in 1..(Len(e.batch) + 1), NEW k \in 1..(Len(e.batch) + 1),
             d.batch[j].seq = d.batch[k].seq
      PROVE  j = k
  <2>1. \A i \in 1..Len(e.batch) : d.batch[i].seq # item.seq BY <1>2, <1>3
  <2>2. CASE j \in 1..Len(e.batch) /\ k \in 1..Len(e.batch)
    BY <2>2, <1>3, <1>7 DEF BatchOK
  <2> QED BY <2>1, <2>2, <1>3, <1>4, <1>7
<1>8. Selected(d) = Selected(e) \union {item.seq}
  <2>1. Selected(d) = {d.batch[k].seq : k \in 1..(Len(e.batch) + 1)}
    BY <1>3 DEF Selected
  <2>2. Len(e.batch) + 1 \in 1..(Len(e.batch) + 1)
        /\ 1..Len(e.batch) \subseteq 1..(Len(e.batch) + 1)
    BY <1>2
  <2> QED BY <2>1, <2>2, <1>2, <1>3, <1>4
<1> QED BY <1>3, <1>6, <1>7, <1>8 DEF BatchOK

(* The chunk of the waiting head joins the batch, and the last chunk moves *)
(* the sequence to the running queue.                                      *)
Joins(e, d, A, s, k) ==
  /\ EInv(d, A, {}) /\ SameBooks(e, d) /\ k \in Nat
  /\ d.preempts = e.preempts /\ d.table = e.table
  /\ d.batch = Append(e.batch, [seq |-> s, phase |-> "prefill", n |-> k])
  /\ ItemOK(d, {}, [seq |-> s, phase |-> "prefill", n |-> k])
  /\ \A r \in SeqIds \ {s} : /\ Untouched(e, d, r)
                             /\ r \in Elems(d.waiting) <=> r \in Elems(e.waiting)
                             /\ r \in Elems(d.running) <=> r \in Elems(e.running)
  /\ Elems(d.waiting) \subseteq Elems(e.waiting)
  /\ s \in Elems(d.waiting) => e.cached[s] + k < e.len[s]

LEMMA QueuedFacts ==
  ASSUME NEW e, NEW A, EInv(e, A, {}), e.waiting # << >>,
         NEW s, s = Head(e.waiting),
         NEW k \in Nat, k > 0, e.cached[s] + k <= e.len[s],
         e.cached[s] + k <= Capacity(e, s)
  PROVE  Joins(e, Queued(e, s, k), A, s, k)
<1> DEFINE d == Queued(e, s, k)
           item == [seq |-> s, phase |-> "prefill", n |-> k]
           full == e.cached[s] + k = e.len[s]
<1>1. /\ DOMAIN d = EngineFields /\ SameBooks(e, d) /\ d.batch = Append(e.batch, item)
      /\ d.preempts = e.preempts /\ d.pool = e.pool /\ d.table = e.table
      /\ d.cached = e.cached
      /\ d.waiting = IF full THEN Tail(e.waiting) ELSE e.waiting
      /\ d.running = IF full THEN Append(e.running, s) ELSE e.running
  <2> HIDE DEF item, full
  <2>1. d = [e EXCEPT !.batch = Append(@, item),
                      !.waiting = IF full THEN Tail(@) ELSE @,
                      !.running = IF full THEN Append(@, s) ELSE @]
    BY DEF Queued, item, full
  <2> QED BY <2>1 DEF EInv, Setup, EngineFields, SameBooks
<1> HIDE DEF d
<1>2. /\ e.waiting \in Seq(SeqIds) /\ Distinct(e.waiting)
      /\ e.running \in Seq(SeqIds) /\ Distinct(e.running)
      /\ s \in SeqIds /\ s \in Elems(e.waiting) /\ s \notin Elems(e.running)
      /\ s \notin Held(e, {})
  <2>1. /\ e.waiting \in Seq(SeqIds) /\ Distinct(e.waiting)
        /\ e.running \in Seq(SeqIds) /\ Distinct(e.running)
        /\ Elems(e.waiting) \cap Held(e, {}) = {}
    BY QueueFacts
  <2>2. s \in SeqIds /\ s \in Elems(e.waiting) BY <2>1, HeadTail
  <2> QED BY <2>1, <2>2 DEF Held
<1>3. /\ d.waiting \in Seq(SeqIds) /\ Distinct(d.waiting)
      /\ Elems(d.waiting) = IF full THEN Elems(e.waiting) \ {s} ELSE Elems(e.waiting)
  <2>1. CASE full
    <3> DEFINE w == e.waiting
    <3>1. d.waiting = Tail(w) /\ w # << >> /\ s = Head(w) BY <1>1, <2>1
    <3>2. w \in Seq(SeqIds) /\ Distinct(w) BY <1>2
    <3> HIDE DEF w
    <3>3. /\ Tail(w) \in Seq(SeqIds) /\ Distinct(Tail(w))
          /\ Elems(Tail(w)) = Elems(w) \ {s}
      BY <3>1, <3>2, HeadTail
    <3> QED BY <2>1, <3>1, <3>3 DEF w
  <2>2. CASE ~ full BY <1>1, <1>2, <2>2
  <2> QED BY <2>1, <2>2
<1>4. /\ d.running \in Seq(SeqIds) /\ Distinct(d.running)
      /\ Elems(d.running) = IF full THEN Elems(e.running) \union {s} ELSE Elems(e.running)
  <2>1. CASE full
    <3>1. /\ Append(e.running, s) \in Seq(SeqIds) /\ Distinct(Append(e.running, s))
          /\ Elems(Append(e.running, s)) = Elems(e.running) \union {s}
      BY <1>2, AppendDistinct
    <3> QED BY <1>1, <2>1, <3>1
  <2>2. CASE ~ full BY <1>1, <1>2, <2>2
  <2> QED BY <2>1, <2>2
<1>5. Held(d, {}) = Elems(d.running) /\ Held(e, {}) = Elems(e.running)
  BY DEF Held
<1>6. Setup(d) /\ Memory(d)
  BY <1>1 DEF EInv, Setup, Memory, SameBooks
<1>7. Queues(d, A, {})
  BY <1>1, <1>2, <1>3, <1>4, <1>5 DEF EInv, Queues, SameBooks
<1>8. \A r \in SeqIds \ {s} :
        /\ Untouched(e, d, r)
        /\ r \in Elems(d.waiting) <=> r \in Elems(e.waiting)
        /\ r \in Elems(d.running) <=> r \in Elems(e.running)
  BY <1>1, <1>3, <1>4 DEF Untouched
<1>9. Parked(e, s) /\ e.len[s] \in Nat /\ e.cached[s] \in Nat
  BY <1>2 DEF EInv, Placed, Setup, Memory
<1>10. Capacity(d, s) = Capacity(e, s) /\ Capacity(e, s) \in Nat
       /\ Len(e.table[s]) \in Nat
  <2>1. Len(e.table[s]) \in Nat BY <1>2, MemoryFacts, LenProperties
  <2> QED BY <2>1, <1>1, MulMonotone DEF Capacity
<1>11. full => Resident(d, s)
  <2> SUFFICES ASSUME full PROVE Resident(d, s)
    OBVIOUS
  <2>1. Len(e.table[s]) > 0
    <3>1. Len(e.table[s]) # 0
      <4>1. 0 * BlockSize = 0 BY PoolAssumption
      <4> QED BY <4>1, <1>9, <1>10 DEF Capacity
    <3> QED BY <3>1, <1>10
  <2> QED BY <2>1, <1>1, <1>9, <1>10 DEF Resident, Parked, SameBooks
<1>12. ~ full => Parked(d, s)
  BY <1>1, <1>9, <1>10 DEF Parked, SameBooks
<1>13. EInv(d, A, {})
  BY <1>1, <1>2, <1>3, <1>4, <1>5, <1>6, <1>7, <1>8, <1>11, <1>12, MoveKeeps
<1>14. ItemOK(d, {}, item)
  <2>1. item \in Item /\ item.seq = s /\ item.n = k /\ item.phase = "prefill"
    BY <1>2 DEF Item
  <2>2. /\ d.cached[s] = e.cached[s] /\ d.len[s] = e.len[s]
        /\ full => s \in Held(d, {})
        /\ ~ full => s \in Elems(d.waiting)
    BY <1>1, <1>2, <1>3, <1>4, <1>5 DEF SameBooks
  <2> HIDE DEF item
  <2> QED BY <2>1, <2>2, <1>9, <1>10 DEF ItemOK
<1> HIDE DEF full
<1>15. /\ Elems(d.waiting) \subseteq Elems(e.waiting)
       /\ s \in Elems(d.waiting) => e.cached[s] + k < e.len[s]
  BY <1>3, <1>9 DEF full
<1>16. Joins(e, d, A, s, k)
  BY <1>1, <1>8, <1>13, <1>14, <1>15 DEF Joins
<1> QED BY <1>16 DEF d
(* Nobody is preempted, and s gets no block that its tokens do not need.   *)
Slim(e, d, s) ==
  /\ d.preempts = e.preempts
  /\ Len(e.table[s]) <= BlocksFor(e.len[s]) => Len(d.table[s]) <= BlocksFor(e.len[s])

(* The free deque does not hold the blocks that s still needs.             *)
Lacks(e, s) == Len(e.table[s]) + Len(e.pool.free) < BlocksFor(e.len[s])

(* One turn of the prefill loop: nothing, or a chunk of the head, which    *)
(* leaves the head waiting only when it takes all the tokens that are left.*)
(* The first turn is idle only for lack of blocks.                         *)
TurnJoins(e, d, A, s, k) ==
  /\ EInv(d, A, {}) /\ SameBooks(e, d) /\ Slim(e, d, s)
  /\ d.batch = Append(e.batch, [seq |-> s, phase |-> "prefill", n |-> k])
  /\ ItemOK(d, {}, [seq |-> s, phase |-> "prefill", n |-> k])
  /\ \A r \in SeqIds \ {s} :
       /\ Untouched(e, d, r)
       /\ r \in Elems(d.waiting) <=> r \in Elems(e.waiting)
       /\ r \in Elems(d.running) <=> r \in Elems(e.running)
  /\ Elems(d.waiting) \subseteq Elems(e.waiting)

LEMMA JoinsAfter ==
  ASSUME NEW e, NEW m, NEW d, NEW A, NEW s, NEW k, Joins(m, d, A, s, k),
         SameBooks(e, m), m.batch = e.batch, m.waiting = e.waiting,
         m.running = e.running, Slim(e, m, s),
         \A r \in SeqIds \ {s} : Untouched(e, m, r)
  PROVE  /\ TurnJoins(e, d, A, s, k)
         /\ s \in Elems(d.waiting) => m.cached[s] + k < e.len[s]
<1>1. SameBooks(e, d) BY DEF Joins, SameBooks
<1>2. \A r \in SeqIds \ {s} : Untouched(e, d, r) BY DEF Joins, Untouched
<1>3. m.len = e.len BY DEF SameBooks
<1>4. TurnJoins(e, d, A, s, k) BY <1>1, <1>2 DEF Joins, TurnJoins, Slim
<1>5. s \in Elems(d.waiting) => m.cached[s] + k < e.len[s] BY <1>3 DEF Joins
<1> QED BY <1>4, <1>5

TurnOK(e, d, A, s, remaining, count) ==
  \/ d = e /\ (count > 0 \/ Lacks(e, s))
  \/ \E k \in 1..remaining : /\ TurnJoins(e, d, A, s, k)
                             /\ s \in Elems(d.waiting) => k = remaining

LEMMA TurnFacts ==
  ASSUME NEW e, NEW A, EInv(e, A, {}), e.waiting # << >>,
         NEW s, s = Head(e.waiting), NEW remaining \in Nat \ {0}, NEW count
  PROVE  TurnOK(e, NextHead(e, s, remaining, count), A, s, remaining, count)
<1> DEFINE left == e.len[s] - Done(e, s)
           k == Chunk(left, remaining)
           d == NextHead(e, s, remaining, count)
<1> SUFFICES \/ d = e /\ (count > 0 \/ Lacks(e, s))
             \/ \E j \in 1..remaining : /\ TurnJoins(e, d, A, s, j)
                                        /\ s \in Elems(d.waiting) => j = remaining
  BY DEF TurnOK
<1>1. s \in SeqIds /\ s \in Elems(e.waiting)
  BY QueueFacts, HeadTail
<1>2. /\ Parked(e, s) /\ Setup(e) /\ e.len[s] \in Nat /\ e.cached[s] \in Nat
      /\ Len(e.table[s]) \in Nat
  <2>1. Len(e.table[s]) \in Nat BY <1>1, MemoryFacts, LenProperties
  <2> QED BY <2>1, <1>1 DEF EInv, Placed, Setup, Memory
<1>3. CASE e.table[s] # << >>
  <2>1. Done(e, s) = e.cached[s] BY <1>3 DEF Done
  <2>2. left \in Nat /\ left > 0 BY <2>1, <1>2 DEF Parked
  <2>3. k \in 1..remaining /\ k <= left /\ (k < left => k = remaining)
    <3> HIDE DEF left
    <3> QED BY <2>2 DEF Chunk, SmallerOf
  <2>4. e.cached[s] + k <= e.len[s] /\ (e.cached[s] + k < e.len[s] => k = remaining)
    <3> HIDE DEF k
    <3> QED BY <2>1, <2>3, <1>2
  <2>5. (d = e /\ count > 0) \/ d = NextChunk(e, s, k)
    BY <1>3 DEF NextHead, PrefillTurn
  <2> HIDE DEF k, d
  <2>6. CASE ~ e.incremental
    <3>1. NextChunk(e, s, k) = Queued(e, s, k) BY <2>6 DEF NextChunk
    <3>2. Capacity(e, s) \in Nat BY <1>2, MulMonotone DEF Capacity
    <3>3. e.cached[s] + k <= Capacity(e, s) BY <1>2, <1>3, <2>3, <2>4, <2>6, <3>2 DEF Parked
    <3> DEFINE q == Queued(e, s, k)
    <3>4. Joins(e, q, A, s, k) BY <1>1, <2>3, <2>4, <3>3, QueuedFacts
    <3> HIDE DEF q
    <3>5. /\ SameBooks(e, e) /\ \A r \in SeqIds \ {s} : Untouched(e, e, r)
          /\ Slim(e, e, s)
      BY DEF SameBooks, Untouched, Slim
    <3>6. /\ TurnJoins(e, q, A, s, k)
          /\ s \in Elems(q.waiting) => e.cached[s] + k < e.len[s]
      BY <3>4, <3>5, JoinsAfter
    <3> QED BY <2>3, <2>4, <2>5, <3>1, <3>6 DEF q, d
  <2>7. CASE e.incremental /\ ~ CanMaterialize(e.pool, e.table[s], e.cached[s] + k)
    <3>1. NextChunk(e, s, k) = e BY <2>7 DEF NextChunk
    <3>2. Lacks(e, s)
      <4> DEFINE goal == e.cached[s] + k
                 b == BlocksFor(goal)
                 all == BlocksFor(e.len[s])
                 t == Len(e.table[s])
                 f == Len(e.pool.free)
      <4>1. goal \in Nat /\ goal <= e.len[s] BY <1>2, <2>3, <2>4
      <4>2. f \in Nat /\ t \in Nat
        BY <1>2, MemoryFacts, LenProperties DEF PoolTyped
      <4>3. ~ (b - t <= f) BY <2>7 DEF CanMaterialize
      <4> HIDE DEF goal
      <4>4. b \in Nat /\ all \in Nat /\ b <= all
        BY <1>2, <4>1, BlocksForFacts, BlocksForMonotone
      <4> HIDE DEF b, all, t, f
      <4>5. t + f < all BY <4>2, <4>3, <4>4
      <4> QED BY <4>5 DEF Lacks, t, f, all
    <3> QED BY <3>1, <3>2, <2>5 DEF d
  <2>8. CASE e.incremental /\ CanMaterialize(e.pool, e.table[s], e.cached[s] + k)
    <3> DEFINE x == Missing(e.table[s], e.cached[s] + k)
               m == Installed(e, s, Extended(e.pool, e.table[s], x))
               q == Queued(m, s, k)
               goal == e.cached[s] + k
    <3>1. NextChunk(e, s, k) = q BY <2>8 DEF NextChunk
    <3>2. goal \in Nat /\ BlocksFor(goal) \in Nat /\ goal <= BlocksFor(goal) * BlockSize
      <4>1. goal \in Nat BY <1>2, <2>3
      <4> HIDE DEF goal
      <4> QED BY <4>1, BlocksForFacts
    <3>3. Len(e.pool.free) \in Nat BY MemoryFacts, LenProperties DEF PoolTyped
    <3>4. /\ x \in 0..Len(e.pool.free) /\ BlocksFor(goal) <= Len(e.table[s]) + x
          /\ Len(e.table[s]) + x \in {Len(e.table[s]), BlocksFor(goal)}
      <4>1. BlocksFor(goal) - Len(e.table[s]) <= Len(e.pool.free)
        BY <2>8 DEF CanMaterialize
      <4>2. x = IF BlocksFor(goal) > Len(e.table[s])
                THEN BlocksFor(goal) - Len(e.table[s]) ELSE 0
        BY DEF Missing
      <4> DEFINE b == BlocksFor(goal)
                 t == Len(e.table[s])
                 f == Len(e.pool.free)
      <4>3. b \in Nat /\ t \in Nat /\ f \in Nat BY <1>2, <3>2, <3>3
      <4> HIDE DEF x, goal, b, t, f
      <4>4. b - t <= f /\ x = (IF b > t THEN b - t ELSE 0) BY <4>1, <4>2 DEF b, t, f
      <4>5. x \in 0..f /\ b <= t + x /\ t + x \in {t, b} BY <4>3, <4>4
      <4> QED BY <4>5 DEF b, t, f
    <3> HIDE DEF x
    <3>5. /\ EInv(m, A, {}) /\ SameBooks(e, m) /\ m.batch = e.batch
          /\ m.waiting = e.waiting /\ m.running = e.running /\ m.cached = e.cached
          /\ m.preempts = e.preempts
          /\ Len(m.table[s]) = Len(e.table[s]) + x
          /\ \A r \in SeqIds \ {s} : Untouched(e, m, r)
      <4>1. x \in 0..Len(e.pool.free) BY <3>4
      <4>2. s \in Elems(e.waiting) /\ e.incremental BY <1>1, <2>8
      <4>3. Grows(e, m, A, {}, s, x) BY <1>1, <4>1, <4>2, GrowFacts
      <4> HIDE DEF m
      <4> QED BY <4>3 DEF Grows
    <3> HIDE DEF m
    <3>11. Slim(e, m, s)
      <4>1. goal <= e.len[s] BY <2>4
      <4> HIDE DEF goal
      <4>2. BlocksFor(goal) <= BlocksFor(e.len[s])
        BY <1>2, <3>2, <4>1, BlocksForMonotone
      <4> QED BY <3>4, <3>5, <4>2 DEF Slim
    <3>6. m.cached[s] + k <= m.len[s] BY <3>5, <2>4 DEF SameBooks
    <3>7. m.cached[s] + k <= Capacity(m, s)
      <4>1. Len(e.table[s]) + x \in Nat BY <1>2, <3>4
      <4>2. BlocksFor(goal) * BlockSize <= (Len(e.table[s]) + x) * BlockSize
            /\ (Len(e.table[s]) + x) * BlockSize \in Nat
            /\ BlocksFor(goal) * BlockSize \in Nat
        <5> DEFINE y == Len(e.table[s]) + x
        <5>1. y \in Nat /\ BlocksFor(goal) <= y BY <4>1, <3>4
        <5> HIDE DEF y, goal
        <5>2. BlocksFor(goal) * BlockSize <= y * BlockSize
              /\ y * BlockSize \in Nat /\ BlocksFor(goal) * BlockSize \in Nat
          BY <5>1, <3>2, MulMonotone
        <5> QED BY <5>2 DEF y
      <4> QED BY <4>2, <3>2, <3>5 DEF Capacity
    <3>8. Joins(m, q, A, s, k) BY <1>1, <2>3, <3>5, <3>6, <3>7, QueuedFacts
    <3> HIDE DEF q
    <3>9. /\ TurnJoins(e, q, A, s, k)
          /\ s \in Elems(q.waiting) => m.cached[s] + k < e.len[s]
      BY <3>5, <3>8, <3>11, JoinsAfter
    <3>10. s \in Elems(q.waiting) => k = remaining BY <2>4, <3>5, <3>9
    <3> QED BY <2>3, <2>5, <3>1, <3>9, <3>10 DEF d
  <2> QED BY <2>6, <2>7, <2>8 DEF d
<1>4. CASE e.table[s] = << >>
  <2> DEFINE m == FirstTarget(e, s, k)
             c == CanAllocate(e.pool, Toks(e, s), m)
  <2>1. \/ d = e /\ (count > 0 \/ c = -1)
        \/ d = FirstChunk(e, s, k, c) /\ c # -1
    BY <1>4 DEF NextHead, PrefillTurn, FirstChunk
  <2>2. /\ Toks(e, s) \in Seq(Nat) /\ Len(Toks(e, s)) = e.len[s] /\ Len(Toks(e, s)) > 0
    BY <1>1, <1>2, TokensFacts
  <2>3. Done(e, s) = CachedBlocks(e.pool, Toks(e, s)) * BlockSize
    BY <1>4 DEF Done
  <2>4. Done(e, s) \in Nat /\ Done(e, s) < e.len[s]
    <3> DEFINE b == CachedBlocks(e.pool, Toks(e, s))
               all == BlocksFor(Len(Toks(e, s)))
    <3>1. b \in 0..(all - 1) BY <2>2, CachedBlocksFacts
    <3>2. all \in Nat /\ all * BlockSize < Len(Toks(e, s)) + BlockSize
      BY <2>2, <1>2, BlocksForFacts
    <3> HIDE DEF b, all
    <3>3. b \in Nat /\ b < all BY <3>1, <3>2
    <3>4. b * BlockSize + BlockSize <= all * BlockSize /\ b * BlockSize \in Nat
          /\ all * BlockSize \in Nat
      BY <3>2, <3>3, MulMonotone
    <3> QED BY <3>2, <3>4, <2>2, <2>3, <1>2, PoolAssumption DEF b
  <2>5. left \in Nat /\ left > 0 BY <2>4, <1>2
  <2>6. k \in 1..remaining /\ k <= left /\ (k < left => k = remaining)
    <3> HIDE DEF left
    <3> QED BY <2>5 DEF Chunk, SmallerOf
  <2>7. Done(e, s) + k <= e.len[s] /\ (Done(e, s) + k < e.len[s] => k = remaining)
    <3> HIDE DEF k
    <3> QED BY <2>4, <2>6, <1>2
  <2> HIDE DEF k
  <2>8. /\ m \in Nat /\ m <= e.len[s] /\ (e.incremental \/ m = e.len[s])
        /\ Done(e, s) + k <= m
    BY <1>2, <2>4, <2>6, <2>7 DEF FirstTarget
  <2> HIDE DEF m
  <2>18. PoolTyped(e.pool, Nat) BY MemoryFacts
  <2>19. c = -1 => Lacks(e, s)
    <3> SUFFICES ASSUME c = -1 PROVE Lacks(e, s)
      OBVIOUS
    <3>1. m \in Nat /\ m <= e.len[s] BY <2>8
    <3>2. CanAllocate(e.pool, Toks(e, s), m) = -1 OBVIOUS
    <3>3. Len(e.pool.free) < BlocksFor(m) BY <2>2, <2>18, <3>1, <3>2, CannotAllocate
    <3>4. /\ BlocksFor(m) \in Nat /\ BlocksFor(e.len[s]) \in Nat
          /\ BlocksFor(m) <= BlocksFor(e.len[s])
      BY <1>2, <3>1, BlocksForFacts, BlocksForMonotone
    <3>5. Len(e.table[s]) = 0 /\ Len(e.pool.free) \in Nat
      BY <1>4, <2>18, EmptyQueue, LenProperties DEF PoolTyped
    <3> QED BY <3>3, <3>4, <3>5 DEF Lacks
  <2> SUFFICES ASSUME d = FirstChunk(e, s, k, c), c # -1
               PROVE  \E j \in 1..remaining :
                        /\ TurnJoins(e, d, A, s, j)
                        /\ s \in Elems(d.waiting) => j = remaining
    BY <2>1, <2>19
  <2>9. Done(e, s) <= m BY <2>4, <2>6, <2>8
  <2> DEFINE w == [Installed(e, s, Allocated(e.pool, Toks(e, s), c, m))
                     EXCEPT !.cached[s] = c * BlockSize]
             q == Queued(w, s, k)
  <2>10. d = q BY DEF FirstChunk, m
  <2>11. /\ EInv(w, A, {}) /\ SameBooks(e, w) /\ w.batch = e.batch
         /\ w.waiting = e.waiting /\ w.running = e.running
         /\ w.preempts = e.preempts /\ Len(w.table[s]) = BlocksFor(m)
         /\ w.cached[s] = c * BlockSize /\ m <= Capacity(w, s)
         /\ m >= CachedBlocks(e.pool, Toks(e, s)) * BlockSize => c = CachedBlocks(e.pool, Toks(e, s))
         /\ \A r \in SeqIds \ {s} : Untouched(e, w, r)
    <3>1. CanAllocate(e.pool, Toks(e, s), m) # -1 OBVIOUS
    <3>2. m \in Nat /\ m <= e.len[s] /\ (e.incremental \/ m = e.len[s]) BY <2>8
    <3>3. Admits(e, w, A, {}, s, m, c) BY <1>1, <1>4, <3>1, <3>2, AdmitFacts
    <3> HIDE DEF w, c
    <3> QED BY <3>3 DEF Admits
  <2> HIDE DEF w, c
  <2>20. Slim(e, w, s)
    <3>1. BlocksFor(m) <= BlocksFor(e.len[s]) BY <1>2, <2>8, BlocksForMonotone
    <3> QED BY <2>11, <3>1 DEF Slim
  <2>12. w.cached[s] = Done(e, s) BY <2>3, <2>9, <2>11
  <2>13. w.cached[s] + k <= w.len[s] BY <2>7, <2>11, <2>12 DEF SameBooks
  <2>14. w.cached[s] + k <= Capacity(w, s)
    <3>1. Len(w.table[s]) \in Nat BY <1>1, <2>11, MemoryFacts, LenProperties
    <3>2. Capacity(w, s) \in Nat BY <3>1, MulMonotone DEF Capacity
    <3> QED BY <3>2, <2>4, <2>6, <2>8, <2>11, <2>12
  <2>15. Joins(w, q, A, s, k) BY <1>1, <2>6, <2>11, <2>13, <2>14, QueuedFacts
  <2> HIDE DEF q
  <2>16. /\ TurnJoins(e, q, A, s, k)
         /\ s \in Elems(q.waiting) => w.cached[s] + k < e.len[s]
    BY <2>11, <2>15, <2>20, JoinsAfter
  <2>17. s \in Elems(q.waiting) => k = remaining BY <2>7, <2>12, <2>16
  <2> HIDE DEF d
  <2> QED BY <2>6, <2>10, <2>16, <2>17
<1> QED BY <1>3, <1>4
---------------------------------------------------------------------------
(* What a batch costs.                                                     *)

PhaseCount(batch, phase) ==
  Cardinality({k \in DOMAIN batch : batch[k].phase = phase})

LEMMA PhaseCountFacts ==
  ASSUME NEW b \in Seq(Item), NEW phase
  PROVE  /\ IsFiniteSet({k \in DOMAIN b : b[k].phase = phase})
         /\ PhaseCount(b, phase) \in Nat
         /\ PhaseCount(b, phase) = 0 => \A k \in 1..Len(b) : b[k].phase # phase
<1> DEFINE P == {k \in DOMAIN b : b[k].phase = phase}
<1>1. DOMAIN b = 1..Len(b) /\ Len(b) \in Nat BY LenProperties
<1>2. IsFiniteSet(1..Len(b)) BY <1>1, FS_Interval
<1>3. P \in SUBSET (1..Len(b)) BY <1>1
<1>4. \A k \in 1..Len(b) : b[k].phase = phase => k \in P BY <1>1
<1>5. PhaseCount(b, phase) = Cardinality(P) BY DEF PhaseCount
<1> HIDE DEF P
<1>6. IsFiniteSet(P) BY <1>2, <1>3, FS_Subset
<1>7. Cardinality(P) \in Nat BY <1>6, FS_CardinalityType
<1>8. Cardinality(P) = 0 => P = {} BY <1>6, FS_EmptySet
<1> QED BY <1>4, <1>5, <1>6, <1>7, <1>8 DEF P

LEMMA CountAppend ==
  ASSUME NEW b \in Seq(Item), NEW x \in Item, NEW phase
  PROVE  PhaseCount(Append(b, x), phase) =
           PhaseCount(b, phase) + (IF x.phase = phase THEN 1 ELSE 0)
<1> DEFINE P == {k \in DOMAIN b : b[k].phase = phase}
           c == Append(b, x)
           Q == {k \in DOMAIN c : c[k].phase = phase}
           new == Len(b) + 1
<1>1. /\ DOMAIN b = 1..Len(b) /\ Len(b) \in Nat /\ DOMAIN c = 1..new /\ c[new] = x
      /\ \A k \in 1..Len(b) : c[k] = b[k]
  BY AppendProperties, LenProperties
<1>2. IsFiniteSet(P) /\ PhaseCount(b, phase) = Cardinality(P)
      /\ PhaseCount(b, phase) \in Nat
  BY PhaseCountFacts DEF PhaseCount
<1>3. new \notin P BY <1>1
<1>4. Q = IF x.phase = phase THEN P \union {new} ELSE P
  <2>1. \A k \in 1..new : k \in 1..Len(b) \/ k = new BY <1>1
  <2>2. new \in 1..new /\ 1..Len(b) \subseteq 1..new BY <1>1
  <2> HIDE DEF c, new
  <2>3. CASE x.phase = phase BY <1>1, <2>1, <2>2, <2>3
  <2>4. CASE x.phase # phase BY <1>1, <2>1, <2>2, <2>4
  <2> QED BY <2>3, <2>4
<1>5. PhaseCount(c, phase) = Cardinality(Q) BY DEF PhaseCount
<1> HIDE DEF P, Q, c, new
<1>6. Cardinality(P \union {new}) = Cardinality(P) + 1 BY <1>2, <1>3, FS_AddElement
<1> QED BY <1>2, <1>4, <1>5, <1>6 DEF c

(* The tokens of two batches in a row.                                     *)
LEMMA ConcatTokens ==
  ASSUME NEW a \in Seq(Item), NEW b \in Seq(Item)
  PROVE  /\ TokensOf(a) \in Nat /\ TokensOf(b) \in Nat
         /\ TokensOf(a \o b) = TokensOf(a) + TokensOf(b)
<1> DEFINE c == a \o b
           m == Len(a)
           n == Len(b)
<1>1. /\ m \in Nat /\ n \in Nat /\ Len(c) = m + n
      /\ \A i \in 1..m : a[i] \in Item /\ c[i] = a[i]
      /\ \A i \in 1..n : b[i] \in Item /\ c[m + i] = b[i]
  <2>1. /\ m \in Nat /\ n \in Nat
        /\ \A i \in 1..m : a[i] \in Item
        /\ \A i \in 1..n : b[i] \in Item
    BY LenProperties
  <2>2. /\ Len(c) = m + n
        /\ \A i \in 1..(m + n) : c[i] = IF i <= m THEN a[i] ELSE b[i - m]
    BY ConcatProperties
  <2> HIDE DEF c, m, n
  <2>3. ASSUME NEW i \in 1..m PROVE c[i] = a[i] BY <2>1, <2>2
  <2>4. ASSUME NEW i \in 1..n PROVE c[m + i] = b[i]
    <3>1. m + i \in 1..(m + n) /\ ~ (m + i <= m) /\ (m + i) - m = i BY <2>1
    <3> QED BY <3>1, <2>2
  <2> QED BY <2>1, <2>2, <2>3, <2>4
<1> HIDE DEF c, m, n
<1>2. PICK f : /\ f[0] = 0 /\ TokensOf(a) = f[m]
               /\ \A i \in 1..m : f[i] = f[i - 1] + a[i].n
  BY <1>1, SumTurns DEF m
<1>3. PICK g : /\ g[0] = 0 /\ TokensOf(b) = g[n]
               /\ \A i \in 1..n : g[i] = g[i - 1] + b[i].n
  BY <1>1, SumTurns DEF n
<1>4. PICK h : /\ h[0] = 0 /\ TokensOf(c) = h[m + n]
               /\ \A i \in 1..(m + n) : h[i] = h[i - 1] + c[i].n
  <2>1. Len(c) \in Nat /\ Len(c) = m + n BY <1>1
  <2>2. PICK h : /\ h[0] = 0 /\ TokensOf(c) = h[Len(c)]
                 /\ \A i \in 1..Len(c) : h[i] = h[i - 1] + c[i].n
    BY <2>1, SumTurns
  <2>3. TokensOf(c) = h[m + n] BY <2>1, <2>2
  <2>4. \A i \in 1..(m + n) : h[i] = h[i - 1] + c[i].n BY <2>1, <2>2
  <2> QED BY <2>2, <2>3, <2>4
<1>5. ASSUME NEW i \in Nat, i <= m PROVE f[i] \in Nat /\ h[i] = f[i]
  <2> DEFINE T == {k \in Nat : k <= m => f[k] \in Nat /\ h[k] = f[k]}
  <2>1. 0 \in T BY <1>2, <1>4
  <2>2. ASSUME NEW k \in T PROVE k + 1 \in T
    <3> SUFFICES ASSUME k + 1 <= m PROVE f[k + 1] \in Nat /\ h[k + 1] = f[k + 1]
      OBVIOUS
    <3>1. k \in Nat /\ k <= m /\ k + 1 \in 1..m /\ k + 1 \in 1..(m + n) /\ (k + 1) - 1 = k
      BY <1>1
    <3>2. f[k] \in Nat /\ h[k] = f[k] BY <3>1
    <3>3. c[k + 1] = a[k + 1] /\ a[k + 1].n \in Nat BY <3>1, <1>1 DEF Item
    <3>4. f[k + 1] = f[k] + a[k + 1].n /\ h[k + 1] = h[k] + c[k + 1].n
      BY <3>1, <1>2, <1>4
    <3> QED BY <3>2, <3>3, <3>4
  <2>3. T \in SUBSET Nat OBVIOUS
  <2> HIDE DEF T
  <2>4. T = Nat BY <2>1, <2>2, <2>3, SetInduction
  <2> QED BY <2>4, <1>5 DEF T
<1>6. ASSUME NEW i \in Nat, i <= n PROVE g[i] \in Nat /\ h[m + i] = f[m] + g[i]
  <2> DEFINE T == {k \in Nat : k <= n => g[k] \in Nat /\ h[m + k] = f[m] + g[k]}
  <2>1. 0 \in T
    <3>1. m + 0 = m /\ m <= m BY <1>1
    <3>2. h[m] = f[m] /\ f[m] \in Nat BY <3>1, <1>1, <1>5
    <3> QED BY <3>1, <3>2, <1>3
  <2>2. ASSUME NEW k \in T PROVE k + 1 \in T
    <3> SUFFICES ASSUME k + 1 <= n
                 PROVE  g[k + 1] \in Nat /\ h[m + (k + 1)] = f[m] + g[k + 1]
      OBVIOUS
    <3>1. k \in Nat /\ k <= n /\ k + 1 \in 1..n /\ m + (k + 1) \in 1..(m + n)
          /\ (k + 1) - 1 = k /\ (m + (k + 1)) - 1 = m + k
      BY <1>1
    <3>2. g[k] \in Nat /\ h[m + k] = f[m] + g[k] BY <3>1
    <3>3. c[m + (k + 1)] = b[k + 1] /\ b[k + 1].n \in Nat BY <3>1, <1>1 DEF Item
    <3>4. /\ g[k + 1] = g[k] + b[k + 1].n
          /\ h[m + (k + 1)] = h[m + k] + c[m + (k + 1)].n
      BY <3>1, <1>3, <1>4
    <3>5. f[m] \in Nat BY <1>1, <1>5
    <3> QED BY <3>2, <3>3, <3>4, <3>5
  <2>3. T \in SUBSET Nat OBVIOUS
  <2> HIDE DEF T
  <2>4. T = Nat BY <2>1, <2>2, <2>3, SetInduction
  <2> QED BY <2>4, <1>6 DEF T
<1>7. /\ f[m] \in Nat /\ g[n] \in Nat /\ h[m + n] = f[m] + g[n]
  BY <1>1, <1>5, <1>6
<1> QED BY <1>2, <1>3, <1>4, <1>7 DEF c

LEMMA AppendTokens ==
  ASSUME NEW b \in Seq(Item), NEW x \in Item
  PROVE  TokensOf(b) \in Nat /\ TokensOf(Append(b, x)) = TokensOf(b) + x.n
<1> DEFINE one == <<x>>
<1>1. one \in Seq(Item) /\ Len(one) = 1 /\ one[1] = x
  OBVIOUS
<1>2. Append(b, x) = b \o one
  <2>1. /\ Append(b, x) \in Seq(Item) /\ Len(Append(b, x)) = Len(b) + 1 /\ Len(b) \in Nat
        /\ Append(b, x)[Len(b) + 1] = x
        /\ \A i \in 1..Len(b) : Append(b, x)[i] = b[i]
    BY AppendProperties, LenProperties
  <2> HIDE DEF one
  <2>2. /\ b \o one \in Seq(Item) /\ Len(b \o one) = Len(b) + 1
        /\ \A i \in 1..(Len(b) + 1) : (b \o one)[i] = IF i <= Len(b) THEN b[i] ELSE one[i - Len(b)]
    BY <1>1, ConcatProperties
  <2>3. ASSUME NEW i \in 1..(Len(b) + 1) PROVE Append(b, x)[i] = (b \o one)[i]
    <3>1. CASE i \in 1..Len(b) BY <3>1, <2>1, <2>2
    <3>2. CASE i = Len(b) + 1
      <4>1. ~ (i <= Len(b)) /\ i - Len(b) = 1 BY <3>2, <2>1
      <4> QED BY <4>1, <3>2, <2>1, <2>2, <1>1
    <3>3. i \in 1..Len(b) \/ i = Len(b) + 1
      <4>1. Len(b) \in Nat BY <2>1
      <4> QED BY <4>1
    <3> QED BY <3>1, <3>2, <3>3
  <2> QED BY <2>1, <2>2, <2>3, SeqEqual
<1>3. TokensOf(one) = x.n
  <2> HIDE DEF one
  <2>1. Len(one) \in Nat BY <1>1
  <2>2. PICK g : /\ g[0] = 0 /\ TokensOf(one) = g[Len(one)]
                 /\ \A i \in 1..Len(one) : g[i] = g[i - 1] + one[i].n
    BY <2>1, SumTurns
  <2>3. 1 \in 1..Len(one) /\ 1 - 1 = 0 BY <1>1
  <2>4. g[1] = g[0] + one[1].n BY <2>2, <2>3
  <2>5. x.n \in Nat BY DEF Item
  <2> QED BY <1>1, <2>2, <2>4, <2>5
<1> QED BY <1>1, <1>2, <1>3, ConcatTokens
---------------------------------------------------------------------------
(* _schedule_prefill keeps the engine sound, stays within its budget and   *)
(* adds at most max_num_seqs items.                                        *)
Prefills(e, d, A, budget, count) ==
  /\ EInv(d, A, {}) /\ SameBooks(e, d) /\ BatchOK(d, {})
  /\ Elems(d.waiting) \subseteq Elems(e.waiting)
  /\ TokensOf(d.batch) <= TokensOf(e.batch) + budget
  /\ PhaseCount(d.batch, "decode") = PhaseCount(e.batch, "decode")
  /\ PhaseCount(d.batch, "prefill") <= PhaseCount(e.batch, "prefill") + count

Filling(e, l, A, budget, count) ==
  /\ Prefills(e, l.st, A, budget, count)
  /\ l.remaining \in Nat
  /\ TokensOf(l.st.batch) + l.remaining = TokensOf(e.batch) + budget
  /\ l.remaining > 0 => Selected(l.st) \cap Elems(l.st.waiting) = {}

LEMMA PrefillOnFacts ==
  ASSUME NEW e, e.batch \in Seq(Item), NEW A, NEW budget \in Nat, NEW count \in Nat,
         NEW l, Filling(e, l, A, budget, count)
  PROVE  Filling(e, PrefillOn(l), A, budget, count + 1)
<1> DEFINE a == l.st
           s == Head(a.waiting)
           d == NextHead(a, s, l.remaining, l.count)
<1>1. /\ EInv(a, A, {}) /\ SameBooks(e, a) /\ BatchOK(a, {})
      /\ Elems(a.waiting) \subseteq Elems(e.waiting)
      /\ TokensOf(a.batch) <= TokensOf(e.batch) + budget
      /\ PhaseCount(a.batch, "decode") = PhaseCount(e.batch, "decode")
      /\ PhaseCount(a.batch, "prefill") <= PhaseCount(e.batch, "prefill") + count
      /\ l.remaining \in Nat
      /\ TokensOf(a.batch) + l.remaining = TokensOf(e.batch) + budget
      /\ l.remaining > 0 => Selected(a) \cap Elems(a.waiting) = {}
  BY DEF Filling, Prefills
<1>2. /\ a.batch \in Seq(Item) /\ Len(a.batch) \in Nat
      /\ TokensOf(a.batch) \in Nat /\ TokensOf(e.batch) \in Nat
      /\ PhaseCount(a.batch, "prefill") \in Nat /\ PhaseCount(e.batch, "prefill") \in Nat
      /\ PhaseCount(a.batch, "decode") \in Nat
  BY <1>1, ConcatTokens, PhaseCountFacts, LenProperties DEF BatchOK
<1>3. Filling(e, l, A, budget, count + 1)
  <2>1. PhaseCount(a.batch, "prefill") <= PhaseCount(e.batch, "prefill") + (count + 1)
    BY <1>1, <1>2
  <2> QED BY <1>1, <2>1 DEF Filling, Prefills
<1>4. CASE a.waiting = << >> \/ l.remaining = 0
  BY <1>3, <1>4 DEF PrefillOn
<1>5. CASE a.waiting # << >> /\ l.remaining # 0
  <2>1. PrefillOn(l) = PrefillStep(l, d) BY <1>5 DEF PrefillOn
  <2>2. l.remaining \in Nat \ {0} BY <1>1, <1>5
  <2>3. CASE d = a
    <3>1. PrefillStep(l, d) = l BY <2>3 DEF PrefillStep
    <3> QED BY <2>1, <3>1, <1>3
  <2>4. CASE d # a
    <3>1. PICK k \in 1..l.remaining :
             /\ TurnJoins(a, d, A, s, k)
             /\ s \in Elems(d.waiting) => k = l.remaining
      <4>1. TurnOK(a, d, A, s, l.remaining, l.count) BY <1>1, <1>5, <2>2, TurnFacts
      <4> QED BY <4>1, <2>4 DEF TurnOK
    <3> DEFINE item == [seq |-> s, phase |-> "prefill", n |-> k]
    <3>2. s \in SeqIds /\ s \in Elems(a.waiting) /\ Distinct(a.waiting)
      BY <1>1, <1>5, QueueFacts, HeadTail
    <3>3. item \in Item /\ item.seq = s /\ item.n = k /\ item.phase = "prefill"
          /\ k \in Nat /\ k <= l.remaining
      BY <1>1, <3>1, <3>2 DEF Item
    <3> HIDE DEF d
    <3>4. /\ EInv(d, A, {}) /\ SameBooks(a, d) /\ d.batch = Append(a.batch, item)
          /\ ItemOK(d, {}, item)
          /\ \A r \in SeqIds \ {s} : /\ Untouched(a, d, r)
                                     /\ r \in Elems(d.waiting) <=> r \in Elems(a.waiting)
                                     /\ r \in Elems(d.running) <=> r \in Elems(a.running)
          /\ Elems(d.waiting) \subseteq Elems(a.waiting)
      BY <3>1 DEF TurnJoins
    <3> HIDE DEF item
    <3>5. /\ Len(d.batch) = Len(a.batch) + 1 /\ d.batch[Len(d.batch)] = item
      BY <1>2, <3>3, <3>4, AppendProperties
    <3>6. PrefillStep(l, d) = [st |-> d, count |-> l.count + 1, remaining |-> l.remaining - k]
      <4>1. Len(d.batch) # Len(a.batch) BY <3>5, <1>2
      <4> QED BY <4>1, <3>3, <3>5 DEF PrefillStep, Joined
    <3> DEFINE m == PrefillStep(l, d)
    <3>7. m.st = d /\ m.remaining = l.remaining - k BY <3>6
    <3> HIDE DEF m
    <3>8. SameBooks(e, d) BY <1>1, <3>4 DEF SameBooks
    <3>9. s \notin Selected(a)
      <4>1. l.remaining > 0 BY <2>2
      <4> QED BY <4>1, <1>1, <3>2
    <3>10. BatchOK(d, {}) /\ Selected(d) = Selected(a) \union {s}
      <4>1. \A r \in SeqIds \ {item.seq} :
              /\ Untouched(a, d, r)
              /\ r \in Elems(a.waiting) => r \in Elems(d.waiting)
              /\ r \in Held(a, {}) => r \in Held(d, {})
        BY <3>3, <3>4 DEF Held
      <4>2. item.seq \notin Selected(a) BY <3>3, <3>9
      <4>3. BatchOK(d, {}) /\ Selected(d) = Selected(a) \union {item.seq}
        BY <1>1, <3>4, <4>1, <4>2, BatchGrows
      <4> QED BY <4>3, <3>3
    <3>11. TokensOf(d.batch) = TokensOf(a.batch) + k
      BY <1>2, <3>3, <3>4, AppendTokens
    <3>12. /\ PhaseCount(d.batch, "prefill") = PhaseCount(a.batch, "prefill") + 1
           /\ PhaseCount(d.batch, "decode") = PhaseCount(a.batch, "decode")
      <4>1. PhaseCount(d.batch, "prefill") = PhaseCount(a.batch, "prefill") + 1
        BY <1>2, <3>3, <3>4, CountAppend
      <4>2. PhaseCount(d.batch, "decode") = PhaseCount(a.batch, "decode") + 0
        BY <1>2, <3>3, <3>4, CountAppend
      <4> QED BY <4>1, <4>2, <1>2
    <3>13. l.remaining - k > 0 => Selected(d) \cap Elems(d.waiting) = {}
      <4> SUFFICES ASSUME l.remaining - k > 0 PROVE Selected(d) \cap Elems(d.waiting) = {}
        OBVIOUS
      <4>1. k # l.remaining /\ l.remaining > 0 BY <3>3, <1>1
      <4>2. s \notin Elems(d.waiting) BY <4>1, <3>1 DEF d
      <4> QED BY <4>1, <4>2, <1>1, <3>4, <3>10
    <3>14. l.remaining - k \in Nat
           /\ TokensOf(d.batch) + (l.remaining - k) = TokensOf(e.batch) + budget
           /\ TokensOf(d.batch) <= TokensOf(e.batch) + budget
      BY <1>1, <1>2, <3>3, <3>11
    <3>15. PhaseCount(d.batch, "prefill") <= PhaseCount(e.batch, "prefill") + (count + 1)
      BY <1>1, <1>2, <3>12
    <3>16. Prefills(e, d, A, budget, count + 1)
      BY <1>1, <3>4, <3>8, <3>10, <3>12, <3>14, <3>15 DEF Prefills
    <3>17. Filling(e, m, A, budget, count + 1)
      BY <3>7, <3>13, <3>14, <3>16 DEF Filling
    <3> QED BY <2>1, <3>17 DEF m, d
  <2> QED BY <2>3, <2>4
<1> QED BY <1>4, <1>5

LEMMA PrefillFacts ==
  ASSUME NEW e, NEW A, EInv(e, A, {}), BatchOK(e, {}), NEW budget \in Nat,
         Selected(e) \cap Elems(e.waiting) = {}
  PROVE  Prefills(e, SchedulePrefill(e, budget), A, budget, MaxNumSeqs)
<1>1. MaxNumSeqs \in Nat BY CoreAssumption
<1>2. PICK g : /\ g[0] = [st |-> e, count |-> 0, remaining |-> budget]
               /\ PrefillLoop(e, budget) = g[MaxNumSeqs]
               /\ \A i \in 1..MaxNumSeqs : g[i] = PrefillOn(g[i - 1])
  BY <1>1, PrefillTurns
<1>3. e.batch \in Seq(Item) BY DEF BatchOK
<1>4. TokensOf(e.batch) \in Nat /\ PhaseCount(e.batch, "prefill") \in Nat
  BY <1>3, ConcatTokens, PhaseCountFacts
<1> DEFINE T == {i \in Nat : i <= MaxNumSeqs => Filling(e, g[i], A, budget, i)}
<1>5. 0 \in T
  <2>1. g[0].st = e /\ g[0].remaining = budget BY <1>2
  <2>2. SameBooks(e, e) BY DEF SameBooks
  <2>3. Prefills(e, e, A, budget, 0) BY <1>4, <2>2 DEF Prefills
  <2>4. Filling(e, g[0], A, budget, 0) BY <1>4, <2>1, <2>3 DEF Filling
  <2> QED BY <2>4
<1>6. ASSUME NEW i \in T PROVE i + 1 \in T
  <2> SUFFICES ASSUME i + 1 <= MaxNumSeqs PROVE Filling(e, g[i + 1], A, budget, i + 1)
    OBVIOUS
  <2>1. i \in Nat /\ i <= MaxNumSeqs /\ i + 1 \in 1..MaxNumSeqs /\ (i + 1) - 1 = i
    BY <1>1
  <2>2. Filling(e, g[i], A, budget, i) BY <2>1
  <2>3. g[i + 1] = PrefillOn(g[i]) BY <1>2, <2>1
  <2> QED BY <1>3, <2>1, <2>2, <2>3, PrefillOnFacts
<1>7. T = Nat
  <2>1. T \in SUBSET Nat OBVIOUS
  <2> HIDE DEF T
  <2> QED BY <1>5, <1>6, <2>1, SetInduction
<1>8. Filling(e, g[MaxNumSeqs], A, budget, MaxNumSeqs)
  BY <1>1, <1>7
<1> QED BY <1>2, <1>8 DEF SchedulePrefill, Filling
---------------------------------------------------------------------------
(* _schedule_decode: preemptions until sequence s, taken off the queue,    *)
(* has its block or waits again itself.  Only running sequences and s are  *)
(* touched.                                                                *)
RoomDone(r, s) == CanAppend(r.pool, r.len[s]) \/ s \in Elems(r.waiting)

Rooming(e, r, A, Y, s) ==
  /\ EInv(r, A, IF s \in Elems(r.waiting) THEN Y ELSE Y \union {s})
  /\ SameBooks(e, r) /\ r.batch = e.batch
  /\ Elems(e.waiting) \subseteq Elems(r.waiting)
  /\ Elems(r.running) \subseteq Elems(e.running)
  /\ \A t \in SeqIds : t \notin Elems(e.running) /\ t # s => Untouched(e, r, t)

LEMMA RoomTurnFacts ==
  ASSUME NEW e, NEW A, NEW Y, NEW s, s \notin Y, NEW r, Rooming(e, r, A, Y, s)
  PROVE  LET p == RoomTurn(r, s)
         IN  /\ Rooming(e, p, A, Y, s)
             /\ RoomDone(r, s) => p = r
             /\ ~ RoomDone(r, s) => RoomDone(p, s) \/ Len(p.running) = Len(r.running) - 1
<1>1. CASE RoomDone(r, s)
  <2>1. RoomTurn(r, s) = r BY <1>1 DEF RoomTurn, RoomDone
  <2> QED BY <1>1, <2>1
<1>2. CASE ~ RoomDone(r, s)
  <2> DEFINE v == IF r.running = << >> THEN s ELSE SelectVictim(r, r.running)
             front == r.policy = "prefill_first"
             p == Preempted(r, v, front)
             X == Y \union {s}
  <2>1. RoomTurn(r, s) = p BY <1>2 DEF RoomTurn, RoomDone
  <2>2. s \notin Elems(r.waiting) /\ EInv(r, A, X)
    BY <1>2 DEF RoomDone, Rooming
  <2>3. /\ r.running \in Seq(SeqIds) /\ Distinct(r.running)
        /\ Elems(r.running) \subseteq SeqIds /\ X \subseteq SeqIds
        /\ Elems(r.running) \cap X = {} /\ Elems(r.waiting) \cap Held(r, X) = {}
        /\ Len(r.running) \in Nat
    BY <2>2, QueueFacts
  <2>4. /\ v \in Held(r, X) /\ v \in SeqIds
        /\ v = s \/ v \in Elems(r.running)
        /\ r.running # << >> => v \in Elems(r.running)
    <3>1. CASE r.running = << >>
      BY <3>1, <2>3 DEF Held
    <3>2. CASE r.running # << >>
      <4>1. v \in Elems(r.running) BY <3>2, <2>2, VictimFacts
      <4> HIDE DEF v
      <4> QED BY <4>1, <2>3 DEF Held
    <3> QED BY <3>1, <3>2
  <2>5. front \in BOOLEAN OBVIOUS
  <2> HIDE DEF v, front, X
  <2>6. /\ EInv(p, A, X \ {v}) /\ SameBooks(r, p) /\ p.batch = r.batch
        /\ \A t \in SeqIds \ {v} : Untouched(r, p, t)
        /\ Elems(p.waiting) = Elems(r.waiting) \union {v}
        /\ p.running = Without(r.running, v)
    <3>1. Preempts(r, p, A, X, v) BY <2>2, <2>4, <2>5, PreemptedFacts
    <3> QED BY <3>1 DEF Preempts
  <2> HIDE DEF p
  <2>7. /\ Elems(p.running) = Elems(r.running) \ {v}
        /\ v \in Elems(r.running) => Len(p.running) = Len(r.running) - 1
    BY <2>3, <2>4, <2>6, WithoutFacts
  <2>8. SameBooks(e, p) /\ p.batch = e.batch
    BY <2>6 DEF Rooming, SameBooks
  <2>9. \A t \in SeqIds : t \notin Elems(e.running) /\ t # s => Untouched(e, p, t)
    BY <2>4, <2>6 DEF Rooming, Untouched
  <2>10. EInv(p, A, IF s \in Elems(p.waiting) THEN Y ELSE Y \union {s})
    <3>1. CASE v = s
      <4>1. X \ {v} = Y BY <3>1 DEF X
      <4> QED BY <4>1, <3>1, <2>6
    <3>2. CASE v # s
      <4>1. v \notin X BY <3>2, <2>3, <2>4
      <4>2. X \ {v} = X BY <4>1
      <4>3. s \notin Elems(p.waiting) BY <3>2, <2>2, <2>6
      <4> QED BY <4>2, <4>3, <2>6 DEF X
    <3> QED BY <3>1, <3>2
  <2>11. Rooming(e, p, A, Y, s)
    BY <2>6, <2>7, <2>8, <2>9, <2>10 DEF Rooming
  <2>12. RoomDone(p, s) \/ Len(p.running) = Len(r.running) - 1
    <3>1. CASE v = s BY <3>1, <2>6 DEF RoomDone
    <3>2. CASE v # s BY <3>2, <2>4, <2>7
    <3> QED BY <3>1, <3>2
  <2> QED BY <1>2, <2>1, <2>11, <2>12
<1> QED BY <1>1, <1>2

LEMMA RoomFacts ==
  ASSUME NEW e, NEW A, NEW Y, NEW s, s \notin Y, EInv(e, A, Y \union {s})
  PROVE  Rooming(e, MakeRoom(e, s), A, Y, s) /\ RoomDone(MakeRoom(e, s), s)
<1> DEFINE len == Len(e.running)
<1>1. len \in Nat /\ len + 1 \in Nat /\ s \notin Elems(e.waiting)
  <2>1. s \in Held(e, Y \union {s}) BY DEF Held
  <2> QED BY <2>1, QueueFacts
<1>2. PICK g : /\ g[0] = e /\ MakeRoom(e, s) = g[len + 1]
               /\ \A i \in 1..(len + 1) : g[i] = RoomTurn(g[i - 1], s)
  BY <1>1, RoomTurns
<1> DEFINE Fine(i) == /\ Rooming(e, g[i], A, Y, s)
                      /\ RoomDone(g[i], s) \/ (Len(g[i].running) \in Nat
                                               /\ Len(g[i].running) + i <= len)
           T == {i \in Nat : i <= len + 1 => Fine(i)}
<1>3. 0 \in T
  <2>1. Rooming(e, e, A, Y, s) BY <1>1 DEF Rooming, SameBooks, Untouched
  <2>2. Len(e.running) + 0 <= len BY <1>1
  <2> QED BY <1>1, <1>2, <2>1, <2>2
<1>4. ASSUME NEW i \in T PROVE i + 1 \in T
  <2> HIDE DEF Fine
  <2> SUFFICES ASSUME i + 1 <= len + 1 PROVE Fine(i + 1)
    OBVIOUS
  <2>1. i \in Nat /\ i <= len + 1 /\ i + 1 \in 1..(len + 1) /\ (i + 1) - 1 = i
    BY <1>1
  <2>2. Fine(i) BY <2>1
  <2> USE DEF Fine
  <2> DEFINE r == g[i]
             p == RoomTurn(r, s)
  <2>3. g[i + 1] = p BY <1>2, <2>1
  <2>4. Rooming(e, r, A, Y, s) BY <2>2
  <2>5. Len(r.running) \in Nat
    <3>1. \E X : EInv(r, A, X) BY <2>4 DEF Rooming
    <3> QED BY <3>1, QueueFacts
  <2>6. RoomDone(r, s) \/ Len(r.running) + i <= len BY <2>2
  <2> HIDE DEF r
  <2>7. /\ Rooming(e, p, A, Y, s)
        /\ RoomDone(r, s) => p = r
        /\ ~ RoomDone(r, s) => RoomDone(p, s) \/ Len(p.running) = Len(r.running) - 1
    BY <2>4, RoomTurnFacts
  <2>8. Len(p.running) \in Nat
    <3>1. \E X : EInv(p, A, X) BY <2>7 DEF Rooming
    <3> QED BY <3>1, QueueFacts
  <2> HIDE DEF p
  <2>9. RoomDone(p, s) \/ Len(p.running) + (i + 1) <= len
    <3> DEFINE a == Len(r.running)
               b == Len(p.running)
    <3>1. a \in Nat /\ b \in Nat /\ i \in Nat /\ len \in Nat
      BY <1>1, <2>1, <2>5, <2>8
    <3>2. RoomDone(p, s) \/ (a + i <= len /\ b = a - 1) BY <2>6, <2>7
    <3> HIDE DEF a, b, len, T, Fine
    <3>3. RoomDone(p, s) \/ b + (i + 1) <= len BY <3>1, <3>2
    <3> QED BY <3>3 DEF a, b
  <2> QED BY <2>3, <2>7, <2>8, <2>9
<1>5. T = Nat
  <2>1. T \in SUBSET Nat OBVIOUS
  <2> HIDE DEF T
  <2> QED BY <1>3, <1>4, <2>1, SetInduction
<1>6. Fine(len + 1)
  <2> HIDE DEF Fine
  <2>1. len + 1 \in T BY <1>1, <1>5
  <2> QED BY <1>1, <2>1
<1>7. ~ (Len(g[len + 1].running) \in Nat /\ Len(g[len + 1].running) + (len + 1) <= len)
  <2> DEFINE a == Len(g[len + 1].running)
  <2> HIDE DEF a, len
  <2>1. ~ (a \in Nat /\ a + (len + 1) <= len) BY <1>1
  <2> QED BY <2>1 DEF a
<1> QED BY <1>2, <1>6, <1>7
(* may_append gives a sequence that needs a block the slot of its last     *)
(* token.                                                                  *)
LEMMA SlotFacts ==
  ASSUME NEW len \in Nat, NEW held \in Nat, len > 0, len - 1 <= held * BlockSize
  PROVE  len <= (held + AppendNeeds(len)) * BlockSize
<1> DEFINE k == AppendNeeds(len)
           q == len \div BlockSize
           qb == q * BlockSize
           hb == held * BlockSize
<1>1. k = IF len % BlockSize = 1 THEN 1 ELSE 0
  BY DEF AppendNeeds
<1>2. /\ q \in Nat /\ qb \in Nat /\ len < qb + BlockSize /\ qb <= len
      /\ len % BlockSize = len - qb
  <2>1. /\ q \in Nat /\ qb <= len /\ len < qb + BlockSize
        /\ len % BlockSize = len - qb
    BY DivisionFacts
  <2> HIDE DEF q
  <2>2. qb \in Nat BY <2>1, MulMonotone
  <2> QED BY <2>1, <2>2
<1>3. len - 1 <= hb OBVIOUS
<1> HIDE DEF k, q
<1>4. /\ hb \in Nat /\ (held + 1) * BlockSize = hb + BlockSize
      /\ q < held => qb + BlockSize <= hb
      /\ held < q => hb + BlockSize <= qb
      /\ q = held => qb = hb
  BY <1>2, MulMonotone
<1>5. BlockSize \in Nat /\ BlockSize > 1 BY PoolAssumption
<1> HIDE DEF qb, hb
<1>6. CASE k = 1
  <2>1. (held + k) * BlockSize = hb + BlockSize BY <1>4, <1>6
  <2>2. len <= hb + BlockSize BY <1>3, <1>4, <1>5
  <2> QED BY <2>1, <2>2 DEF k
<1>7. CASE k # 1
  <2>1. k = 0 /\ len - qb # 1 BY <1>1, <1>2, <1>7
  <2>2. q < held \/ held < q \/ q = held BY <1>2
  <2>3. len <= hb BY <1>2, <1>3, <1>4, <1>5, <2>1, <2>2
  <2>4. held + k = held BY <2>1
  <2> QED BY <2>3, <2>4 DEF k, hb
<1> QED BY <1>6, <1>7

LEMMA AppendFacts ==
  ASSUME NEW e, NEW A, NEW X, EInv(e, A, X), NEW s, s \in Held(e, X),
         CanAppend(e.pool, e.len[s])
  PROVE  /\ Grows(e, Grown(e, s), A, X, s, AppendNeeds(e.len[s]))
         /\ e.len[s] <= Capacity(Grown(e, s), s)
<1> DEFINE held == Len(e.table[s])
           len == e.len[s]
           k == AppendNeeds(len)
           d == Grown(e, s)
<1>1. s \in SeqIds BY QueueFacts
<1>2. len \in Nat /\ held \in Nat /\ len > 0 /\ len - 1 <= held * BlockSize
  <2>1. Resident(e, s) BY DEF EInv, Placed
  <2>2. held \in Nat BY <1>1, MemoryFacts, LenProperties
  <2>3. len > 0 /\ len \in Nat BY <1>1, TokensFacts DEF EInv
  <2> QED BY <2>1, <2>2, <2>3 DEF Resident, Capacity
<1>3. k \in {0, 1} /\ Len(e.pool.free) >= k
  BY DEF AppendNeeds, CanAppend
<1>4. k \in 0..Len(e.pool.free)
  <2>1. Len(e.pool.free) \in Nat BY MemoryFacts, LenProperties DEF PoolTyped
  <2> HIDE DEF k
  <2> QED BY <2>1, <1>3
<1>5. d = Installed(e, s, Extended(e.pool, e.table[s], k))
  BY DEF Grown
<1>6. len <= (held + k) * BlockSize
  <2>1. len - 1 <= held * BlockSize /\ len > 0 BY <1>2
  <2> HIDE DEF len, held
  <2> QED BY <1>2, <2>1, SlotFacts DEF k
<1> HIDE DEF d, k
<1>7. Grows(e, d, A, X, s, k)
  <2>1. s \in Held(e, X) \/ (s \in Elems(e.waiting) /\ e.incremental) OBVIOUS
  <2> QED BY <1>1, <1>4, <1>5, <2>1, GrowFacts
<1>8. len <= Capacity(d, s)
  <2>1. Len(d.table[s]) = held + k BY <1>7 DEF Grows
  <2> QED BY <1>6, <2>1 DEF Capacity
<1> QED BY <1>7, <1>8 DEF d, k
(* The decode loop holds the sequences it has chosen aside, each with the  *)
(* slot of its next token; X was held aside before.                        *)
Choosing(e, l, A, X, size) ==
  /\ EInv(l.st, A, X \union Elems(l.chosen)) /\ SameBooks(e, l.st)
  /\ l.st.batch = e.batch
  /\ l.chosen \in Seq(SeqIds) /\ Distinct(l.chosen) /\ Len(l.chosen) <= size
  /\ Elems(l.chosen) \subseteq Elems(e.running)
  /\ \A t \in Elems(l.chosen) : e.len[t] <= Capacity(l.st, t)
  /\ Elems(e.waiting) \subseteq Elems(l.st.waiting)
  /\ Elems(l.st.running) \subseteq Elems(e.running)
  /\ \A t \in SeqIds : t \notin Elems(e.running) => Untouched(e, l.st, t)

(* The head of the running queue is held aside.                            *)
LEMMA TakenFacts ==
  ASSUME NEW a, NEW A, NEW Y, EInv(a, A, Y), a.running # << >>,
         NEW s, s = Head(a.running),
         NEW b, b = [a EXCEPT !.running = Tail(@)]
  PROVE  /\ EInv(b, A, Y \union {s}) /\ SameBooks(a, b) /\ b.batch = a.batch
         /\ b.waiting = a.waiting /\ b.table = a.table /\ b.cached = a.cached
         /\ Elems(b.running) = Elems(a.running) \ {s}
         /\ s \in Elems(a.running) /\ s \in SeqIds
<1>1. /\ DOMAIN b = EngineFields /\ SameBooks(a, b) /\ b.batch = a.batch
      /\ b.preempts = a.preempts /\ b.pool = a.pool
      /\ b.waiting = a.waiting /\ b.table = a.table /\ b.cached = a.cached
      /\ b.running = Tail(a.running)
  BY DEF EInv, Setup, EngineFields, SameBooks
<1>2. /\ a.running \in Seq(SeqIds) /\ Distinct(a.running)
      /\ Elems(a.running) \cap Y = {} /\ Elems(a.running) \subseteq SeqIds
  BY QueueFacts
<1>3. /\ b.running \in Seq(SeqIds) /\ Distinct(b.running)
      /\ Elems(b.running) = Elems(a.running) \ {s}
      /\ s \in Elems(a.running) /\ s \in SeqIds
  <2> DEFINE q == a.running
  <2>1. q \in Seq(SeqIds) /\ Distinct(q) /\ q # << >> BY <1>2
  <2>2. b.running = Tail(q) /\ s = Head(q) BY <1>1
  <2> HIDE DEF q
  <2>3. /\ Head(q) \in SeqIds /\ Head(q) \in Elems(q)
        /\ Tail(q) \in Seq(SeqIds) /\ Distinct(Tail(q))
        /\ Elems(Tail(q)) = Elems(q) \ {Head(q)}
    BY <2>1, HeadTail
  <2>4. Elems(q) = Elems(a.running) BY DEF q
  <2> QED BY <2>2, <2>3, <2>4
<1>4. Held(b, Y \union {s}) = Held(a, Y)
  BY <1>3 DEF Held
<1>5. Queues(b, A, Y \union {s})
  BY <1>1, <1>2, <1>3, <1>4 DEF EInv, Queues, SameBooks
<1>6. Setup(b) /\ Memory(b)
  BY <1>1 DEF EInv, Setup, Memory, SameBooks
<1>7. Placed(b, A, Y \union {s})
  BY <1>1, <1>4 DEF EInv, Placed, Parked, Resident, Vacant, Capacity, SameBooks
<1> QED BY <1>1, <1>3, <1>5, <1>6, <1>7 DEF EInv

LEMMA DecodeTurnFacts ==
  ASSUME NEW e, NEW A, NEW X, EInv(e, A, X), NEW size \in Nat,
         NEW l, Choosing(e, l, A, X, size)
  PROVE  Choosing(e, DecodeTurn(l, size), A, X, size)
<1> DEFINE a == l.st
           s == Head(a.running)
           b == [a EXCEPT !.running = Tail(@)]
           Y == X \union Elems(l.chosen)
<1>1. CASE a.running = << >> \/ Len(l.chosen) >= size
  BY <1>1 DEF DecodeTurn
<1>2. CASE ~ (a.running = << >> \/ Len(l.chosen) >= size)
  <2> DEFINE r == MakeRoom(b, s)
  <2>1. DecodeTurn(l, size) = Decided(l, r, s) BY <1>2 DEF DecodeTurn
  <2>2. /\ EInv(a, A, Y) /\ SameBooks(e, a) /\ a.batch = e.batch
        /\ l.chosen \in Seq(SeqIds) /\ Distinct(l.chosen)
        /\ Elems(l.chosen) \subseteq Elems(e.running)
        /\ \A t \in Elems(l.chosen) : e.len[t] <= Capacity(a, t)
        /\ Elems(e.waiting) \subseteq Elems(a.waiting)
        /\ Elems(a.running) \subseteq Elems(e.running)
        /\ \A t \in SeqIds : t \notin Elems(e.running) => Untouched(e, a, t)
    BY DEF Choosing
  <2>3. Len(l.chosen) \in Nat /\ Len(l.chosen) + 1 <= size
    <3>1. Len(l.chosen) \in Nat BY <2>2, LenProperties
    <3> QED BY <3>1, <1>2
  <2> HIDE DEF a, Y
  <2>4. /\ EInv(b, A, Y \union {s}) /\ SameBooks(a, b) /\ b.batch = a.batch
        /\ b.waiting = a.waiting /\ b.table = a.table /\ b.cached = a.cached
        /\ Elems(b.running) = Elems(a.running) \ {s}
        /\ s \in Elems(a.running) /\ s \in SeqIds
    BY <1>2, <2>2, TakenFacts
  <2> HIDE DEF b, s
  <2>5. s \notin Y /\ Elems(a.running) \cap Y = {} /\ Y \subseteq SeqIds
    BY <2>2, <2>4, QueueFacts
  <2>6. Rooming(b, r, A, Y, s) /\ RoomDone(r, s)
    BY <2>4, <2>5, RoomFacts
  <2> HIDE DEF r
  <2>7. /\ SameBooks(e, r) /\ r.batch = e.batch
        /\ Elems(e.waiting) \subseteq Elems(r.waiting)
        /\ Elems(r.running) \subseteq Elems(e.running)
        /\ \A t \in SeqIds : t \notin Elems(a.running) => Untouched(a, r, t)
        /\ EInv(r, A, IF s \in Elems(r.waiting) THEN Y ELSE Y \union {s})
    <3>1. SameBooks(e, r) BY <2>2, <2>4, <2>6 DEF Rooming, SameBooks
    <3>2. \A t \in SeqIds : t \notin Elems(a.running) => Untouched(a, r, t)
      <4>1. \A t \in SeqIds : t \notin Elems(a.running) => t \notin Elems(b.running) /\ t # s
        BY <2>4
      <4>2. \A t \in SeqIds : t \notin Elems(a.running) => Untouched(b, r, t)
        BY <4>1, <2>6 DEF Rooming
      <4> QED BY <4>2, <2>4 DEF Untouched
    <3> QED BY <3>1, <3>2, <2>2, <2>4, <2>6 DEF Rooming
  <2>8. \A t \in SeqIds : t \notin Elems(e.running) => Untouched(e, r, t)
    BY <2>2, <2>7 DEF Untouched
  <2>9. \A t \in Elems(l.chosen) : e.len[t] <= Capacity(r, t)
    <3>1. \A t \in Elems(l.chosen) : t \in SeqIds /\ t \notin Elems(a.running)
      BY <2>5 DEF Y
    <3> QED BY <3>1, <2>2, <2>7 DEF Untouched, Capacity
  <2>10. CASE s \in Elems(r.waiting)
    <3> DEFINE m == [st |-> r, chosen |-> l.chosen]
    <3>1. Decided(l, r, s) = m BY <2>10 DEF Decided
    <3>2. m.st = r /\ m.chosen = l.chosen OBVIOUS
    <3> HIDE DEF m
    <3>3. Len(l.chosen) <= size BY DEF Choosing
    <3>4. EInv(r, A, X \union Elems(l.chosen)) BY <2>7, <2>10 DEF Y
    <3>5. Choosing(e, m, A, X, size)
      BY <2>2, <2>7, <2>8, <2>9, <3>2, <3>3, <3>4 DEF Choosing
    <3> QED BY <2>1, <3>1, <3>5
  <2>11. CASE s \notin Elems(r.waiting)
    <3> DEFINE d == Grown(r, s)
               c == Append(l.chosen, s)
               m == [st |-> d, chosen |-> c]
               k == AppendNeeds(r.len[s])
    <3>1. Decided(l, r, s) = m BY <2>11 DEF Decided
    <3>2. m.st = d /\ m.chosen = c OBVIOUS
    <3> HIDE DEF m
    <3>3. EInv(r, A, Y \union {s}) /\ CanAppend(r.pool, r.len[s])
      BY <2>6, <2>7, <2>11 DEF RoomDone
    <3>4. s \in Held(r, Y \union {s}) BY DEF Held
    <3>5. Grows(r, d, A, Y \union {s}, s, k) /\ r.len[s] <= Capacity(d, s)
      BY <3>3, <3>4, AppendFacts
    <3>6. s \notin Elems(l.chosen) BY <2>5 DEF Y
    <3>7. /\ c \in Seq(SeqIds) /\ Distinct(c) /\ Elems(c) = Elems(l.chosen) \union {s}
          /\ Len(c) = Len(l.chosen) + 1
      BY <2>2, <2>4, <3>6, AppendDistinct, AppendProperties
    <3> HIDE DEF c, d, k
    <3>8. X \union Elems(c) = Y \union {s} BY <3>7 DEF Y
    <3>9. /\ EInv(d, A, X \union Elems(c)) /\ SameBooks(e, d) /\ d.batch = e.batch
          /\ d.waiting = r.waiting /\ d.running = r.running
      <4>1. SameBooks(e, d) BY <2>7, <3>5 DEF Grows, SameBooks
      <4> QED BY <4>1, <2>7, <3>5, <3>8 DEF Grows
    <3>10. \A t \in SeqIds \ {s} : Untouched(r, d, t) BY <3>5 DEF Grows
    <3>11. \A t \in SeqIds : t \notin Elems(e.running) => Untouched(e, d, t)
      <4>1. s \in Elems(e.running) BY <2>2, <2>4
      <4> QED BY <4>1, <2>8, <3>10 DEF Untouched
    <3>12. \A t \in Elems(c) : e.len[t] <= Capacity(d, t)
      <4>1. e.len[s] <= Capacity(d, s) BY <2>7, <3>5 DEF SameBooks
      <4>2. \A t \in Elems(l.chosen) : t \in SeqIds \ {s} BY <2>5, <3>6 DEF Y
      <4>3. \A t \in Elems(l.chosen) : e.len[t] <= Capacity(d, t)
        BY <4>2, <2>9, <3>10 DEF Untouched, Capacity
      <4> QED BY <4>1, <4>3, <3>7
    <3>13. Elems(c) \subseteq Elems(e.running) /\ Len(c) <= size
      BY <2>2, <2>3, <2>4, <3>7
    <3>14. Choosing(e, m, A, X, size)
      BY <2>7, <3>2, <3>7, <3>9, <3>11, <3>12, <3>13 DEF Choosing
    <3> QED BY <2>1, <3>1, <3>14
  <2> QED BY <2>10, <2>11
<1> QED BY <1>1, <1>2

LEMMA DecodeLoopFacts ==
  ASSUME NEW e, NEW A, NEW X, EInv(e, A, X), NEW size \in Nat
  PROVE  Choosing(e, DecodeLoop(e, size), A, X, size)
<1> DEFINE len == Len(e.running)
<1>1. len \in Nat BY QueueFacts
<1>2. PICK g : /\ g[0] = [st |-> e, chosen |-> << >>]
               /\ DecodeLoop(e, size) = g[len]
               /\ \A i \in 1..len : g[i] = DecodeTurn(g[i - 1], size)
  BY <1>1, DecodeTurns
<1> DEFINE T == {i \in Nat : i <= len => Choosing(e, g[i], A, X, size)}
<1>3. 0 \in T
  <2>1. g[0].st = e /\ g[0].chosen = << >> BY <1>2
  <2> DEFINE none == g[0].chosen
  <2>2. none \in Seq(SeqIds) /\ Len(none) = 0 /\ Elems(none) = {} /\ Distinct(none)
    BY <2>1, EmptyQueue
  <2>3. SameBooks(e, e) /\ \A t \in SeqIds : Untouched(e, e, t)
    BY DEF SameBooks, Untouched
  <2>4. X \union Elems(none) = X BY <2>2
  <2> DEFINE z == g[0]
  <2>5. z.st = e /\ z.chosen = none BY <2>1
  <2> HIDE DEF z, none
  <2>6. EInv(z.st, A, X \union Elems(z.chosen)) BY <2>4, <2>5
  <2>7. /\ z.chosen \in Seq(SeqIds) /\ Distinct(z.chosen) /\ Len(z.chosen) <= size
        /\ Elems(z.chosen) = {}
    BY <2>2, <2>5
  <2>8. Choosing(e, z, A, X, size)
    BY <2>3, <2>5, <2>6, <2>7 DEF Choosing
  <2> QED BY <2>8 DEF z
<1>4. ASSUME NEW i \in T PROVE i + 1 \in T
  <2> SUFFICES ASSUME i + 1 <= len PROVE Choosing(e, g[i + 1], A, X, size)
    OBVIOUS
  <2>1. i \in Nat /\ i <= len /\ i + 1 \in 1..len /\ (i + 1) - 1 = i
    BY <1>1
  <2>2. Choosing(e, g[i], A, X, size) BY <2>1
  <2>3. g[i + 1] = DecodeTurn(g[i], size) BY <1>2, <2>1
  <2> QED BY <2>2, <2>3, DecodeTurnFacts
<1>5. T = Nat
  <2>1. T \in SUBSET Nat OBVIOUS
  <2> HIDE DEF T
  <2> QED BY <1>3, <1>4, <2>1, SetInduction
<1>6. Choosing(e, g[len], A, X, size)
  <2>1. len \in T BY <1>1, <1>5
  <2> QED BY <1>1, <2>1
<1> QED BY <1>2, <1>6
(* The items of two batches in a row.                                      *)
LEMMA ConcatCount ==
  ASSUME NEW a \in Seq(Item), NEW b \in Seq(Item), NEW phase
  PROVE  PhaseCount(a \o b, phase) <= PhaseCount(a, phase) + PhaseCount(b, phase)
<1> DEFINE c == a \o b
           m == Len(a)
           len == Len(b)
           P == {k \in DOMAIN a : a[k].phase = phase}
           Q == {k \in DOMAIN b : b[k].phase = phase}
           R == {k \in (m + 1)..(m + len) : c[k].phase = phase}
           C == {k \in DOMAIN c : c[k].phase = phase}
           f == [k \in R |-> k - m]
<1>1. /\ m \in Nat /\ len \in Nat /\ DOMAIN a = 1..m /\ DOMAIN b = 1..len
      /\ c \in Seq(Item) /\ DOMAIN c = 1..(m + len)
      /\ \A i \in 1..(m + len) : c[i] = IF i <= m THEN a[i] ELSE b[i - m]
  BY ConcatProperties, LenProperties
<1> HIDE DEF c, m, len
<1>2. IsFiniteSet(P) /\ PhaseCount(a, phase) = Cardinality(P) /\ Cardinality(P) \in Nat
  BY PhaseCountFacts DEF PhaseCount
<1>3. IsFiniteSet(Q) /\ PhaseCount(b, phase) = Cardinality(Q) /\ Cardinality(Q) \in Nat
  BY PhaseCountFacts DEF PhaseCount
<1>4. PhaseCount(c, phase) = Cardinality(C) BY DEF PhaseCount
<1>5. f \in Injection(R, Q)
  <2>1. ASSUME NEW k \in R PROVE k - m \in Q
    <3>1. k - m \in 1..len /\ k \in 1..(m + len) /\ ~ (k <= m) BY <1>1
    <3>2. c[k] = b[k - m] BY <3>1, <1>1
    <3> QED BY <3>1, <3>2, <1>1
  <2>2. \A j, k \in R : j - m = k - m => j = k BY <1>1
  <2> HIDE DEF R, Q
  <2>3. f \in [R -> Q] BY <2>1
  <2>4. \A j, k \in R : f[j] = f[k] => j = k BY <2>2
  <2> HIDE DEF f
  <2> QED BY <2>3, <2>4 DEF Injection, IsInjective
<1>6. IsFiniteSet(R) /\ Cardinality(R) <= Cardinality(Q)
  <2> HIDE DEF R, Q, f
  <2> QED BY <1>3, <1>5, FS_Injection
<1>7. C \in SUBSET (P \union R)
  <2>1. ASSUME NEW k \in 1..(m + len), c[k].phase = phase PROVE k \in P \union R
    <3>1. CASE k <= m
      <4>1. k \in 1..m BY <3>1
      <4>2. c[k] = a[k] BY <3>1, <1>1
      <4> QED BY <4>1, <4>2, <2>1, <1>1
    <3>2. CASE ~ (k <= m)
      <4>1. k \in (m + 1)..(m + len) BY <3>2, <1>1
      <4> QED BY <4>1, <2>1
    <3> QED BY <3>1, <3>2
  <2>2. C = {k \in 1..(m + len) : c[k].phase = phase} BY <1>1
  <2> HIDE DEF P, R, C
  <2> QED BY <2>1, <2>2
<1> HIDE DEF P, Q, R, C, f
<1>8. /\ IsFiniteSet(P \union R)
      /\ Cardinality(P \union R) = Cardinality(P) + Cardinality(R) - Cardinality(P \cap R)
  BY <1>2, <1>6, FS_Union
<1>9. IsFiniteSet(P \cap R) BY <1>2, FS_Subset
<1>10. Cardinality(P \cap R) \in Nat /\ Cardinality(R) \in Nat
  BY <1>6, <1>9, FS_CardinalityType
<1>11. Cardinality(C) <= Cardinality(P \union R) /\ IsFiniteSet(C)
  BY <1>7, <1>8, FS_Subset
<1>12. Cardinality(C) \in Nat BY <1>11, FS_CardinalityType
<1>13. Cardinality(C) <= Cardinality(P) + Cardinality(Q)
  BY <1>2, <1>3, <1>6, <1>8, <1>10, <1>11, <1>12
<1> QED BY <1>2, <1>3, <1>4, <1>13 DEF c

(* The decode items of the chosen sequences.                               *)
DecodeItems(chosen) ==
  [i \in 1..Len(chosen) |-> [seq |-> chosen[i], phase |-> "decode", n |-> 1]]

LEMMA DecodeItemsFacts ==
  ASSUME NEW chosen \in Seq(SeqIds)
  PROVE  /\ DecodeItems(chosen) \in Seq(Item)
         /\ Len(DecodeItems(chosen)) = Len(chosen) /\ Len(chosen) \in Nat
         /\ \A i \in 1..Len(chosen) :
              /\ DecodeItems(chosen)[i] =
                   [seq |-> chosen[i], phase |-> "decode", n |-> 1]
              /\ chosen[i] \in SeqIds /\ chosen[i] \in Elems(chosen)
         /\ TokensOf(DecodeItems(chosen)) = Len(chosen)
         /\ PhaseCount(DecodeItems(chosen), "decode") <= Len(chosen)
         /\ PhaseCount(DecodeItems(chosen), "prefill") = 0
<1> DEFINE q == DecodeItems(chosen)
           m == Len(chosen)
<1>1. m \in Nat /\ \A i \in 1..m : chosen[i] \in SeqIds /\ chosen[i] \in Elems(chosen)
  BY LenProperties DEF Elems
<1>2. /\ DOMAIN q = 1..m
      /\ \A i \in 1..m : q[i] = [seq |-> chosen[i], phase |-> "decode", n |-> 1]
  BY DEF DecodeItems
<1>3. q \in [1..m -> Item]
  BY <1>1 DEF DecodeItems, Item
<1>4. q \in Seq(Item) /\ Len(q) = m
  <2> HIDE DEF q, m
  <2>1. q \in Seq(Item) BY <1>1, <1>3
  <2> QED BY <2>1, <1>1, <1>2, LenProperties
<1>5. TokensOf(q) = m
  <2>1. PICK g : /\ g[0] = 0 /\ TokensOf(q) = g[m]
                 /\ \A i \in 1..m : g[i] = g[i - 1] + q[i].n
    BY <1>1, <1>4, SumTurns
  <2> DEFINE T == {i \in Nat : i <= m => g[i] = i}
  <2>2. 0 \in T BY <2>1
  <2> HIDE DEF q, m
  <2>3. ASSUME NEW i \in T PROVE i + 1 \in T
    <3> SUFFICES ASSUME i + 1 <= m PROVE g[i + 1] = i + 1
      OBVIOUS
    <3>1. i \in Nat /\ i <= m /\ i + 1 \in 1..m /\ (i + 1) - 1 = i BY <1>1
    <3>2. g[i] = i /\ g[i + 1] = g[i] + q[i + 1].n BY <3>1, <2>1
    <3>3. q[i + 1].n = 1 BY <3>1, <1>2
    <3> QED BY <3>2, <3>3
  <2>4. T = Nat
    <3>1. T \in SUBSET Nat OBVIOUS
    <3> HIDE DEF T
    <3> QED BY <2>2, <2>3, <3>1, SetInduction
  <2>5. g[m] = m BY <2>4, <1>1
  <2> QED BY <2>1, <2>5
<1>6. PhaseCount(q, "decode") <= m
  <2>1. {k \in DOMAIN q : q[k].phase = "decode"} \in SUBSET (1..m) BY <1>2
  <2>2. IsFiniteSet(1..m) /\ Cardinality(1..m) = m
    <3>1. Cardinality(1..m) = IF 1 > m THEN 0 ELSE m - 1 + 1 BY <1>1, FS_Interval
    <3>2. IsFiniteSet(1..m) BY <1>1, FS_Interval
    <3> QED BY <3>1, <3>2, <1>1
  <2> HIDE DEF q, m
  <2> QED BY <2>1, <2>2, FS_Subset DEF PhaseCount
<1>7. PhaseCount(q, "prefill") = 0
  <2>1. {k \in DOMAIN q : q[k].phase = "prefill"} = {}
    <3> HIDE DEF q
    <3> QED BY <1>2
  <2> QED BY <2>1, FS_EmptySet DEF PhaseCount
<1> QED BY <1>1, <1>2, <1>4, <1>5, <1>6, <1>7
(* _schedule_decode keeps the engine sound and stays within its budget,    *)
(* for a batch that names none of the running sequences yet.               *)
Decodes(e, d, A, X, size) ==
  /\ EInv(d, A, X) /\ SameBooks(e, d) /\ BatchOK(d, X)
  /\ Elems(e.waiting) \subseteq Elems(d.waiting)
  /\ Elems(d.running) \subseteq Elems(e.running)
  /\ TokensOf(d.batch) <= TokensOf(e.batch) + size
  /\ PhaseCount(d.batch, "decode") <= PhaseCount(e.batch, "decode") + size
  /\ PhaseCount(d.batch, "prefill") <= PhaseCount(e.batch, "prefill")

(* The chosen sequences run again.                                         *)
Requeues(a, d, A, X, chosen) ==
  /\ EInv(d, A, X) /\ SameBooks(a, d)
  /\ d.batch = DecodeItems(chosen) \o a.batch /\ d.preempts = a.preempts
  /\ d.waiting = a.waiting /\ d.table = a.table /\ d.cached = a.cached
  /\ Elems(d.running) = Elems(a.running) \union Elems(chosen)

LEMMA RequeuedFacts ==
  ASSUME NEW a, NEW A, NEW X, NEW chosen \in Seq(SeqIds), Distinct(chosen),
         NEW rotate \in BOOLEAN,
         EInv(a, A, X \union Elems(chosen)), X \cap Elems(chosen) = {},
         NEW d, d = Requeued(a, chosen, rotate)
  PROVE  Requeues(a, d, A, X, chosen)
<1> DEFINE Y == X \union Elems(chosen)
<1>1. /\ DOMAIN d = EngineFields /\ SameBooks(a, d)
      /\ d.batch = DecodeItems(chosen) \o a.batch
      /\ d.preempts = a.preempts /\ d.pool = a.pool
      /\ d.waiting = a.waiting /\ d.table = a.table /\ d.cached = a.cached
      /\ d.running = IF rotate THEN a.running \o chosen ELSE chosen \o a.running
  <2> DEFINE items == DecodeItems(chosen)
  <2>1. d = [a EXCEPT !.batch = items \o @,
                      !.running = IF rotate THEN @ \o chosen ELSE chosen \o @]
    BY DEF Requeued, DecodeItems
  <2> HIDE DEF items
  <2> QED BY <2>1 DEF EInv, Setup, EngineFields, SameBooks, items
<1>2. /\ a.running \in Seq(SeqIds) /\ Distinct(a.running)
      /\ Elems(a.running) \cap Y = {} /\ X \subseteq SeqIds
  <2> HIDE DEF Y
  <2>1. EInv(a, A, Y) BY DEF Y
  <2>2. Y \subseteq SeqIds BY <2>1, QueueFacts
  <2> QED BY <2>1, <2>2, QueueFacts DEF Y
<1>3. /\ d.running \in Seq(SeqIds) /\ Distinct(d.running)
      /\ Elems(d.running) = Elems(a.running) \union Elems(chosen)
  <2> DEFINE q == a.running
  <2>1. q \in Seq(SeqIds) /\ Distinct(q) /\ Elems(q) \cap Elems(chosen) = {}
        /\ Elems(chosen) \cap Elems(q) = {}
    BY <1>2
  <2>2. d.running = IF rotate THEN q \o chosen ELSE chosen \o q BY <1>1
  <2> HIDE DEF q
  <2>3. /\ q \o chosen \in Seq(SeqIds) /\ Distinct(q \o chosen)
        /\ Elems(q \o chosen) = Elems(q) \union Elems(chosen)
    BY <2>1, ConcatDistinct
  <2>4. /\ chosen \o q \in Seq(SeqIds) /\ Distinct(chosen \o q)
        /\ Elems(chosen \o q) = Elems(chosen) \union Elems(q)
    BY <2>1, ConcatDistinct
  <2>5. CASE rotate BY <2>2, <2>3, <2>5 DEF q
  <2>6. CASE ~ rotate BY <2>2, <2>4, <2>6 DEF q
  <2> QED BY <2>5, <2>6
<1>4. Held(d, X) = Held(a, Y) BY <1>3 DEF Held
<1>5. Elems(d.running) \cap X = {} BY <1>2, <1>3
<1>6. Queues(d, A, X)
  BY <1>1, <1>2, <1>3, <1>4, <1>5 DEF EInv, Queues, SameBooks
<1>7. Setup(d) /\ Memory(d)
  BY <1>1 DEF EInv, Setup, Memory, SameBooks
<1>8. Placed(d, A, X)
  BY <1>1, <1>4 DEF EInv, Placed, Parked, Resident, Vacant, Capacity, SameBooks
<1> QED BY <1>1, <1>3, <1>6, <1>7, <1>8 DEF EInv, Requeues

LEMMA DecodeFacts ==
  ASSUME NEW e, NEW A, NEW X, EInv(e, A, X), BatchOK(e, X), NEW budget \in Nat,
         NEW rotate \in BOOLEAN, Selected(e) \cap Elems(e.running) = {}
  PROVE  Decodes(e, ScheduleDecode(e, budget, rotate), A, X,
                 SmallerOf(SmallerOf(MaxNumSeqs, MaxBatched), budget))
<1> DEFINE size == SmallerOf(SmallerOf(MaxNumSeqs, MaxBatched), budget)
           l == DecodeLoop(e, size)
           a == l.st
           chosen == l.chosen
           d == Requeued(a, chosen, rotate)
           items == DecodeItems(chosen)
           m == Len(chosen)
           b == e.batch
           len == Len(b)
<1>1. size \in Nat BY CoreAssumption DEF SmallerOf
<1>2. ScheduleDecode(e, budget, rotate) = d BY DEF ScheduleDecode, Decoded
<1> HIDE DEF size
<1>3. Choosing(e, l, A, X, size) BY <1>1, DecodeLoopFacts
<1> HIDE DEF l
<1>4. /\ EInv(a, A, X \union Elems(chosen)) /\ SameBooks(e, a) /\ a.batch = b
      /\ chosen \in Seq(SeqIds) /\ Distinct(chosen) /\ m <= size
      /\ Elems(chosen) \subseteq Elems(e.running)
      /\ \A t \in Elems(chosen) : e.len[t] <= Capacity(a, t)
      /\ Elems(e.waiting) \subseteq Elems(a.waiting)
      /\ Elems(a.running) \subseteq Elems(e.running)
      /\ \A t \in SeqIds : t \notin Elems(e.running) => Untouched(e, a, t)
  BY <1>3 DEF Choosing
<1>5. X \cap Elems(chosen) = {} BY <1>4, QueueFacts
<1> HIDE DEF a, chosen
<1>6. /\ EInv(d, A, X) /\ SameBooks(a, d) /\ d.batch = items \o b
      /\ d.waiting = a.waiting /\ d.table = a.table /\ d.cached = a.cached
      /\ Elems(d.running) = Elems(a.running) \union Elems(chosen)
  <2>1. d = Requeued(a, chosen, rotate) OBVIOUS
  <2> HIDE DEF d
  <2>2. /\ chosen \in Seq(SeqIds) /\ Distinct(chosen)
        /\ EInv(a, A, X \union Elems(chosen)) /\ a.batch = b
    BY <1>4
  <2> HIDE DEF b
  <2>3. Requeues(a, d, A, X, chosen)
    BY <1>5, <2>1, <2>2, RequeuedFacts
  <2> QED BY <2>2, <2>3 DEF Requeues
<1> HIDE DEF d
<1>7. SameBooks(e, d) BY <1>4, <1>6 DEF SameBooks
<1>8. b \in Seq(Item) /\ len \in Nat BY LenProperties DEF BatchOK
<1>9. /\ items \in Seq(Item) /\ Len(items) = m /\ m \in Nat
      /\ \A i \in 1..m : /\ items[i] = [seq |-> chosen[i], phase |-> "decode", n |-> 1]
                         /\ chosen[i] \in SeqIds /\ chosen[i] \in Elems(chosen)
      /\ TokensOf(items) = m
      /\ PhaseCount(items, "decode") <= m /\ PhaseCount(items, "prefill") = 0
  BY <1>4, DecodeItemsFacts
<1> HIDE DEF items
<1>10. /\ d.batch \in Seq(Item) /\ Len(d.batch) = m + len
       /\ \A k \in 1..(m + len) : d.batch[k] = IF k <= m THEN items[k] ELSE b[k - m]
  <2> HIDE DEF b
  <2>1. d.batch = items \o b BY <1>6
  <2>2. Len(items) = m /\ items \in Seq(Item) /\ b \in Seq(Item) BY <1>8, <1>9
  <2>3. /\ items \o b \in Seq(Item) /\ Len(items \o b) = Len(items) + Len(b)
        /\ \A k \in 1..(Len(items) + Len(b)) :
             (items \o b)[k] = IF k <= Len(items) THEN items[k] ELSE b[k - Len(items)]
    BY <2>2, ConcatProperties
  <2> HIDE DEF m
  <2> QED BY <2>1, <2>2, <2>3
<1>11. \A k \in 1..len : b[k] \in Item /\ b[k].seq \in Selected(e)
  BY <1>8, SelectedFacts
<1> HIDE DEF b, len, m
<1>12. \A k \in 1..(m + len) : k \in 1..m \/ (k - m \in 1..len /\ ~ (k <= m))
  BY <1>8, <1>9
<1>13. ASSUME NEW k \in 1..len PROVE ItemOK(d, X, b[k])
  <2>1. ItemOK(e, X, b[k]) BY DEF BatchOK, b, len
  <2>2. b[k].seq \in SeqIds /\ b[k].seq \notin Elems(e.running)
    BY <1>11 DEF Item
  <2>3. Untouched(e, d, b[k].seq) BY <2>2, <1>4, <1>6 DEF Untouched
  <2>4. b[k].seq \in Held(e, X) => b[k].seq \in Held(d, X) BY <2>2 DEF Held
  <2>5. b[k].seq \in Elems(e.waiting) => b[k].seq \in Elems(d.waiting)
    BY <1>4, <1>6
  <2> QED BY <2>1, <2>3, <2>4, <2>5, <1>7, ItemKept
<1>14. ASSUME NEW k \in 1..m PROVE ItemOK(d, X, items[k])
  <2> DEFINE t == chosen[k]
             item == items[k]
  <2>1. t \in Elems(chosen) /\ t \in SeqIds BY <1>9
  <2>2. item.seq = t /\ item.phase = "decode" /\ item.n = 1 /\ item \in Item
    BY <1>9 DEF Item
  <2> HIDE DEF t, item
  <2>3. t \in Held(d, X) BY <2>1, <1>6 DEF Held
  <2>4. d.len[t] <= Capacity(d, t)
    BY <2>1, <1>4, <1>6, <1>7 DEF SameBooks, Capacity
  <2>5. ItemOK(d, X, item) BY <2>2, <2>3, <2>4 DEF ItemOK
  <2> QED BY <2>5 DEF item
<1>15. \A k \in 1..Len(d.batch) : ItemOK(d, X, d.batch[k])
  BY <1>10, <1>12, <1>13, <1>14
<1>16. ASSUME NEW j \in 1..Len(d.batch), NEW k \in 1..Len(d.batch),
              d.batch[j].seq = d.batch[k].seq
       PROVE  j = k
  <2>1. j \in Int /\ k \in Int /\ m \in Int BY <1>8, <1>9, <1>10
  <2>2. \A i \in 1..m : i <= m BY <1>9
  <2>3. ASSUME NEW i \in 1..(m + len), i \in 1..m
        PROVE  d.batch[i].seq = chosen[i]
    BY <2>2, <2>3, <1>9, <1>10
  <2>4. ASSUME NEW i \in 1..(m + len), ~ (i <= m) PROVE d.batch[i].seq = b[i - m].seq
    BY <2>4, <1>10
  <2>5. ASSUME NEW i \in 1..m, NEW h \in 1..len PROVE chosen[i] # b[h].seq
    BY <1>4, <1>9, <1>11
  <2>6. CASE j \in 1..m /\ k \in 1..m
    <3>1. chosen[j] = chosen[k] BY <2>3, <2>6, <1>10, <1>16
    <3>2. DOMAIN chosen = 1..m BY <1>4, LenProperties DEF m
    <3> QED BY <3>1, <3>2, <2>6, <1>4 DEF Distinct
  <2>7. CASE ~ (j <= m) /\ ~ (k <= m)
    <3>1. j - m \in 1..len /\ k - m \in 1..len BY <2>7, <2>2, <1>10, <1>12
    <3>2. b[j - m].seq = b[k - m].seq BY <2>4, <2>7, <1>10, <1>16
    <3>3. j - m = k - m BY <3>1, <3>2 DEF BatchOK, b, len
    <3> QED BY <3>3, <2>1
  <2>8. CASE j \in 1..m /\ ~ (k <= m)
    <3>1. k - m \in 1..len BY <2>8, <2>2, <1>10, <1>12
    <3> QED BY <3>1, <2>3, <2>4, <2>5, <2>8, <1>10, <1>16
  <2>9. CASE ~ (j <= m) /\ k \in 1..m
    <3>1. j - m \in 1..len BY <2>9, <2>2, <1>10, <1>12
    <3> QED BY <3>1, <2>3, <2>4, <2>5, <2>9, <1>10, <1>16
  <2> QED BY <2>6, <2>7, <2>8, <2>9, <1>10, <1>12
<1>17. BatchOK(d, X) BY <1>10, <1>15, <1>16 DEF BatchOK
<1>18. /\ TokensOf(d.batch) <= TokensOf(b) + size
       /\ PhaseCount(d.batch, "decode") <= PhaseCount(b, "decode") + size
       /\ PhaseCount(d.batch, "prefill") <= PhaseCount(b, "prefill")
  <2>1. /\ TokensOf(b) \in Nat /\ TokensOf(items \o b) = TokensOf(items) + TokensOf(b)
    BY <1>8, <1>9, ConcatTokens
  <2>2. /\ PhaseCount(items \o b, "decode")
             <= PhaseCount(items, "decode") + PhaseCount(b, "decode")
        /\ PhaseCount(items \o b, "prefill")
             <= PhaseCount(items, "prefill") + PhaseCount(b, "prefill")
    BY <1>8, <1>9, ConcatCount
  <2>3. /\ PhaseCount(items, "decode") \in Nat /\ PhaseCount(b, "decode") \in Nat
        /\ PhaseCount(b, "prefill") \in Nat
        /\ PhaseCount(d.batch, "decode") \in Nat /\ PhaseCount(d.batch, "prefill") \in Nat
    BY <1>8, <1>9, <1>10, PhaseCountFacts
  <2> QED BY <2>1, <2>2, <2>3, <1>1, <1>4, <1>6, <1>9 DEF m
<1>19. /\ Elems(e.waiting) \subseteq Elems(d.waiting)
       /\ Elems(d.running) \subseteq Elems(e.running)
  BY <1>4, <1>6
<1>20. Decodes(e, d, A, X, size)
  BY <1>6, <1>7, <1>17, <1>18, <1>19 DEF Decodes, b
<1> QED BY <1>2, <1>20 DEF size
---------------------------------------------------------------------------
(* What postprocess() keeps.                                               *)

SameLimits(e, d) ==
  /\ d.policy = e.policy /\ d.incremental = e.incremental
  /\ d.text = e.text /\ d.plen = e.plen /\ d.maxTokens = e.maxTokens

(* A sequence emits nothing, or one token; it is not finished before, and  *)
(* it is finished afterwards when the token was the last it may emit.      *)
Emits(e, d, r) ==
  \/ d.len[r] = e.len[r] /\ (r \in d.finished <=> r \in e.finished)
  \/ /\ d.len[r] = e.len[r] + 1 /\ r \notin e.finished
     /\ r \in d.finished \/ d.len[r] # d.plen[r] + d.maxTokens[r]

Unmoved(e, d, r) ==
  /\ Untouched(e, d, r) /\ d.len[r] = e.len[r]
  /\ r \in d.finished <=> r \in e.finished
  /\ r \in Elems(d.waiting) <=> r \in Elems(e.waiting)
  /\ r \in Elems(d.running) <=> r \in Elems(e.running)

(* The waiting queue stays as it is, and nobody starts to run.             *)
Leaves(e, d) ==
  /\ d.waiting = e.waiting /\ Elems(d.running) \subseteq Elems(e.running)
  /\ \A r \in Elems(e.waiting) : d.table[r] = e.table[r] /\ d.len[r] = e.len[r]

Progresses(e, d, r) == r \in Elems(d.running) => d.len[r] = e.len[r] + 1

(* Nobody gets a block.                                                    *)
Shrinks(e, d, r) == d.table[r] \in {e.table[r], << >>}

(* Only s moves; if it still runs afterwards, it has emitted.              *)
Serves(e, d, A, s) ==
  /\ EInv(d, A, {}) /\ SameLimits(e, d) /\ d.batch = e.batch
  /\ \A r \in SeqIds \ {s} : Unmoved(e, d, r)
  /\ s \in A /\ Emits(e, d, s) /\ Shrinks(e, d, s)
  /\ Leaves(e, d) /\ Progresses(e, d, s)

(* An operation that moves only s, which has arrived.                      *)
LEMMA StepKeeps ==
  ASSUME NEW e, NEW A, EInv(e, A, {}),
         NEW d, Setup(d), Memory(d), Queues(d, A, {}), SameLimits(e, d),
         NEW s \in SeqIds, s \in A,
         \A r \in SeqIds \ {s} : Unmoved(e, d, r),
         s \in Elems(d.waiting) => Parked(d, s),
         s \in Elems(d.running) => Resident(d, s),
         s \notin Elems(d.waiting) /\ s \notin Elems(d.running) => Vacant(d, s)
  PROVE  EInv(d, A, {})
<1>1. \A r \in SeqIds \ {s} : /\ Parked(e, r) => Parked(d, r)
                              /\ Resident(e, r) => Resident(d, r)
                              /\ Vacant(e, r) => Vacant(d, r)
  BY DEF SameLimits, Unmoved, Untouched, Parked, Resident, Vacant, Capacity
<1>2. Elems(d.waiting) \subseteq SeqIds /\ Elems(d.running) \subseteq SeqIds
  BY LenProperties DEF Queues, Elems
<1>3. Held(d, {}) = Elems(d.running) /\ Held(e, {}) = Elems(e.running)
  BY DEF Held
<1>4. \A r \in SeqIds \ {s} : /\ r \in Elems(d.waiting) <=> r \in Elems(e.waiting)
                              /\ r \in Elems(d.running) <=> r \in Elems(e.running)
                              /\ d.len[r] = e.len[r]
  BY DEF Unmoved
<1>5. Placed(d, A, {})
  <2>1. \A r \in Elems(d.waiting) : Parked(d, r)
    BY <1>1, <1>2, <1>4 DEF EInv, Placed
  <2>2. \A r \in Held(d, {}) : Resident(d, r)
    BY <1>1, <1>2, <1>3, <1>4 DEF EInv, Placed
  <2>3. \A r \in SeqIds : r \notin Elems(d.waiting) /\ r \notin Held(d, {}) => Vacant(d, r)
    BY <1>1, <1>3, <1>4 DEF EInv, Placed
  <2>4. \A r \in SeqIds : r \notin A => d.len[r] = d.plen[r]
    BY <1>4 DEF EInv, Placed, SameLimits
  <2> QED BY <2>1, <2>2, <2>3, <2>4 DEF Placed
<1> QED BY <1>5 DEF EInv

(* hash_blocks and the progress of a chunk.                                *)
Records(e, d, s, k) ==
  /\ DOMAIN d = EngineFields /\ SameBooks(e, d) /\ d.batch = e.batch
  /\ d.preempts = e.preempts /\ d.waiting = e.waiting /\ d.running = e.running
  /\ d.table = e.table /\ d.cached = Put(e.cached, s, e.cached[s] + k)
  /\ Setup(d) /\ Memory(d)

LEMMA RecordedFacts ==
  ASSUME NEW e, NEW A, NEW X, EInv(e, A, X), NEW item, item \in Item,
         e.cached[item.seq] + item.n <= e.len[item.seq],
         e.cached[item.seq] + item.n <= Capacity(e, item.seq)
  PROVE  Records(e, Recorded(e, item), item.seq, item.n)
<1> DEFINE d == Recorded(e, item)
           s == item.seq
           k == item.n
           c == e.cached[s]
           pool == Hashed(e.pool, Toks(e, s), e.table[s], c, k)
<1>1. s \in SeqIds /\ k \in Nat BY DEF Item
<1>2. /\ DOMAIN d = EngineFields /\ SameBooks(e, d) /\ d.batch = e.batch
      /\ d.preempts = e.preempts /\ d.waiting = e.waiting /\ d.running = e.running
      /\ d.table = e.table /\ d.cached = Put(e.cached, s, c + k)
      /\ d.pool = pool
  <2>1. d = [e EXCEPT !.pool = pool, !.cached = Put(@, s, c + k)]
    <3> HIDE DEF pool
    <3>1. pool = Hashed(e.pool, Toks(e, s), e.table[s], c, k) BY DEF pool
    <3>2. d = [e EXCEPT !.pool = pool, !.cached[s] = @ + k]
      BY <3>1 DEF Recorded
    <3> QED BY <3>2, <1>1, MemoryFacts DEF Put, EInv, Setup, EngineFields
  <2> HIDE DEF d, pool
  <2> QED BY <2>1 DEF EInv, Setup, EngineFields, SameBooks
<1> HIDE DEF d
<1>3. Setup(d) BY <1>2 DEF EInv, Setup, SameBooks
<1>4. /\ Toks(e, s) \in Seq(Nat) /\ Len(Toks(e, s)) = e.len[s] /\ c \in Nat
  BY <1>1, TokensFacts, MemoryFacts DEF EInv
<1>5. /\ PoolTyped(pool, Nat) /\ Accounts(pool, e.table, SeqIds)
      /\ Indexed(pool, e.table, Put(e.cached, s, c + k), SeqIds)
  <2> DEFINE toks == Toks(e, s)
  <2>1. toks \in Seq(Nat) /\ c + k <= Len(toks) BY <1>4
  <2>2. c + k <= Len(e.table[s]) * BlockSize BY DEF Capacity
  <2> HIDE DEF toks
  <2>3. e.cached[s] = c OBVIOUS
  <2> HIDE DEF c, s, k
  <2>4. LET q == Hashed(e.pool, toks, e.table[s], c, k)
        IN  /\ PoolTyped(q, Nat) /\ Accounts(q, e.table, SeqIds)
            /\ Indexed(q, e.table, Put(e.cached, s, c + k), SeqIds)
    BY <1>1, <1>4, <2>1, <2>2, <2>3, MemoryFacts, HashedFacts
  <2> QED BY <2>4 DEF toks
<1>6. d.cached \in [SeqIds -> Nat]
  <2> DEFINE goal == c + k
  <2>1. goal \in Nat BY <1>1, <1>4
  <2>2. d.cached = Put(e.cached, s, goal) BY <1>2
  <2> HIDE DEF goal
  <2> QED BY <2>1, <2>2, <1>1, MemoryFacts DEF Put
<1>7. Memory(d)
  <2> HIDE DEF pool
  <2> QED BY <1>2, <1>5, <1>6, MemoryFacts DEF Memory
<1>8. Records(e, d, s, k) BY <1>2, <1>3, <1>7 DEF Records
<1> QED BY <1>8 DEF d
(* The next token, which leaves the sequence running or ends it.           *)
LEMMA EmittedFacts ==
  ASSUME NEW e, NEW A, EInv(e, A, {}), NEW s, s \in Elems(e.running),
         e.len[s] <= Capacity(e, s),
         NEW r, NEW k \in Nat, Records(e, r, s, k), e.cached[s] + k <= e.len[s],
         NEW eos
  PROVE  Serves(e, Ended(Emitted(r, s), s, eos), A, s)
<1> DEFINE m == Emitted(r, s)
           len == e.len[s]
<1>1. /\ s \in SeqIds /\ s \in A /\ s \notin e.finished
      /\ s \notin Elems(e.waiting) /\ s \in Held(e, {})
  <2>1. s \in Held(e, {}) BY DEF Held
  <2> QED BY <2>1, QueueFacts DEF EInv, Queues
<1>2. /\ Resident(e, s) /\ len \in Nat /\ e.plen[s] \in Nat /\ e.maxTokens[s] \in Nat
      /\ e.cached[s] \in Nat /\ Capacity(e, s) \in Nat /\ len < e.plen[s] + e.maxTokens[s]
  <2>1. Resident(e, s) BY <1>1 DEF EInv, Placed
  <2>2. Len(e.table[s]) \in Nat BY <1>1, MemoryFacts, LenProperties
  <2>3. Capacity(e, s) \in Nat BY <2>2, MulMonotone DEF Capacity
  <2> QED BY <2>1, <2>3, <1>1, MemoryFacts DEF Resident, EInv, Setup
<1>3. /\ SameBooks(e, r) /\ DOMAIN r = EngineFields /\ r.batch = e.batch
      /\ r.preempts = e.preempts /\ r.waiting = e.waiting /\ r.running = e.running
      /\ r.table = e.table /\ r.cached = Put(e.cached, s, e.cached[s] + k)
      /\ Setup(r) /\ Memory(r)
  BY DEF Records
<1>4. /\ DOMAIN m = EngineFields /\ SameLimits(e, m) /\ m.batch = e.batch
      /\ m.preempts = e.preempts /\ m.waiting = e.waiting /\ m.running = e.running
      /\ m.finished = e.finished /\ m.table = e.table /\ m.cached = r.cached
      /\ m.pool = r.pool /\ m.len = Put(e.len, s, len + 1)
  <2>1. m = [r EXCEPT !.len = Put(@, s, len + 1)]
    BY <1>1, <1>3 DEF Emitted, Put, EngineFields, SameBooks, Setup
  <2> HIDE DEF m
  <2> QED BY <2>1, <1>3 DEF EngineFields, SameBooks, SameLimits
<1> HIDE DEF m
<1>5. /\ m.len[s] = len + 1 /\ m.cached[s] = e.cached[s] + k
      /\ \A q \in SeqIds \ {s} : m.len[q] = e.len[q] /\ m.cached[q] = e.cached[q]
      /\ m.len \in [SeqIds -> Nat]
  <2>1. e.len \in [SeqIds -> Nat] /\ e.cached \in [SeqIds -> Nat]
    BY MemoryFacts DEF EInv, Setup
  <2>2. len + 1 \in Nat BY <1>2
  <2> QED BY <2>1, <2>2, <1>1, <1>3, <1>4 DEF Put
<1>6. Setup(m)
  <2>1. /\ e.incremental \in BOOLEAN /\ e.preempts \in Nat
        /\ e.text \in [SeqIds -> Seq(Nat)]
        /\ e.plen \in [SeqIds -> Nat \ {0}] /\ e.maxTokens \in [SeqIds -> Nat \ {0}]
        /\ \A q \in SeqIds : /\ Len(e.text[q]) = e.plen[q] + e.maxTokens[q]
                             /\ e.plen[q] <= e.len[q]
                             /\ e.len[q] <= e.plen[q] + e.maxTokens[q]
    BY DEF EInv, Setup
  <2>2. /\ m.incremental \in BOOLEAN /\ m.preempts \in Nat
        /\ m.text \in [SeqIds -> Seq(Nat)]
        /\ m.plen \in [SeqIds -> Nat \ {0}] /\ m.maxTokens \in [SeqIds -> Nat \ {0}]
    BY <2>1, <1>4 DEF SameLimits
  <2>3. \A q \in SeqIds : /\ Len(m.text[q]) = m.plen[q] + m.maxTokens[q]
                          /\ m.plen[q] <= m.len[q]
                          /\ m.len[q] <= m.plen[q] + m.maxTokens[q]
    <3>1. \A q \in SeqIds \ {s} : m.len[q] = e.len[q] BY <1>5
    <3>2. e.plen[s] <= len + 1 /\ len + 1 <= e.plen[s] + e.maxTokens[s]
      <4>1. e.plen[s] <= len BY <2>1, <1>1
      <4> QED BY <4>1, <1>2
    <3> QED BY <3>1, <3>2, <2>1, <1>4, <1>5 DEF SameLimits
  <2> QED BY <2>2, <2>3, <1>4, <1>5 DEF Setup
<1>7. Memory(m) BY <1>3, <1>4 DEF Memory
<1>8. /\ e.waiting \in Seq(SeqIds) /\ Distinct(e.waiting)
      /\ e.running \in Seq(SeqIds) /\ Distinct(e.running)
  BY QueueFacts
<1>9. CASE ~ (s \in eos \/ Completion(m, s) = m.maxTokens[s])
  <2>1. Ended(m, s, eos) = m BY <1>9 DEF Ended
  <2>2. m.len[s] # m.plen[s] + m.maxTokens[s]
    BY <1>2, <1>4, <1>5, <1>9 DEF Completion, SameLimits
  <2>3. Queues(m, A, {}) BY <1>4 DEF EInv, Queues, Held
  <2>4. Resident(m, s)
    <3>1. m.len[s] < m.plen[s] + m.maxTokens[s]
      BY <2>2, <1>2, <1>4, <1>5 DEF SameLimits
    <3>2. Capacity(m, s) = Capacity(e, s) BY <1>4 DEF Capacity
    <3>3. m.cached[s] < m.len[s] BY <1>2, <1>5
    <3>4. m.len[s] - 1 <= Capacity(m, s) BY <3>2, <1>2, <1>5
    <3>5. Len(m.table[s]) > 0 BY <1>2, <1>4 DEF Resident
    <3> QED BY <3>1, <3>3, <3>4, <3>5 DEF Resident
  <2>5. \A q \in SeqIds \ {s} : Unmoved(e, m, q)
    BY <1>4, <1>5 DEF Unmoved, Untouched
  <2>6. EInv(m, A, {})
    BY <1>1, <1>4, <1>6, <1>7, <2>3, <2>4, <2>5, StepKeeps
  <2>7. Emits(e, m, s) BY <1>1, <1>5, <2>2 DEF Emits
  <2>8. Leaves(e, m)
    <3>1. \A q \in Elems(e.waiting) : q \in SeqIds \ {s} BY <1>1, QueueFacts
    <3> QED BY <3>1, <1>4, <1>5 DEF Leaves
  <2>9. Serves(e, m, A, s) BY <1>1, <1>4, <1>5, <2>5, <2>6, <2>7, <2>8
    DEF Serves, Progresses, Shrinks
  <2> QED BY <2>1, <2>9 DEF m
<1>10. CASE s \in eos \/ Completion(m, s) = m.maxTokens[s]
  <2> DEFINE d == Released(m, s)
             pool == Deallocated(m.pool, m.table[s])
  <2>1. Ended(m, s, eos) = d BY <1>10 DEF Ended
  <2>2. /\ DOMAIN d = EngineFields /\ SameLimits(e, d) /\ d.batch = e.batch
        /\ d.preempts = e.preempts /\ d.waiting = e.waiting
        /\ d.running = Without(e.running, s)
        /\ d.finished = e.finished \union {s} /\ d.table = Put(m.table, s, << >>)
        /\ d.cached = Put(m.cached, s, 0) /\ d.pool = pool /\ d.len = m.len
    BY <1>4 DEF Released, Put, EngineFields, SameLimits
  <2> HIDE DEF d
  <2>3. Setup(d) BY <1>6, <2>2, <1>4 DEF Setup, SameLimits
  <2>4. Memory(d)
    <3>1. /\ IsFiniteSet(SeqIds) /\ m.table \in [SeqIds -> Seq(Block)]
          /\ DOMAIN m.cached = SeqIds /\ m.cached \in [SeqIds -> Nat]
          /\ PoolTyped(m.pool, Nat) /\ Accounts(m.pool, m.table, SeqIds)
          /\ Indexed(m.pool, m.table, m.cached, SeqIds)
      BY <1>7, SeqIdsFinite DEF Memory
    <3>2. PoolTyped(pool, Nat)
      BY <1>1, <3>1, DeallocatedFacts
    <3>3. Accounts(pool, Put(m.table, s, << >>), SeqIds)
      BY <1>1, <3>1, DeallocatedFacts
    <3>4. Indexed(pool, Put(m.table, s, << >>), Put(m.cached, s, 0), SeqIds)
      BY <1>1, <3>1, DeallocatedFacts
    <3>5. d.table \in [SeqIds -> Seq(Block)] /\ d.cached \in [SeqIds -> Nat]
      <4>1. << >> \in Seq(Block) /\ 0 \in Nat BY EmptyQueue
      <4> QED BY <2>2, <3>1, <4>1 DEF Put
    <3> HIDE DEF pool
    <3> QED BY <2>2, <3>2, <3>3, <3>4, <3>5 DEF Memory
  <2>5. /\ d.running \in Seq(SeqIds) /\ Distinct(d.running)
        /\ Elems(d.running) = Elems(e.running) \ {s}
    BY <1>1, <1>8, <2>2, WithoutFacts
  <2>6. Held(d, {}) = Elems(d.running) /\ Held(e, {}) = Elems(e.running)
    BY DEF Held
  <2>7. Queues(d, A, {})
    BY <1>1, <1>8, <2>2, <2>5, <2>6 DEF EInv, Queues
  <2>8. \A q \in SeqIds \ {s} : Unmoved(e, d, q)
    <3>1. \A q \in SeqIds \ {s} : /\ d.table[q] = e.table[q]
                                  /\ d.cached[q] = e.cached[q]
      <4>1. m.table \in [SeqIds -> Seq(Block)] /\ m.cached \in [SeqIds -> Nat]
        BY <1>7 DEF Memory
      <4> QED BY <4>1, <1>4, <1>5, <2>2 DEF Put
    <3> QED BY <3>1, <1>5, <2>2, <2>5 DEF Unmoved, Untouched
  <2>9. Vacant(d, s)
    <3>1. m.table \in [SeqIds -> Seq(Block)] /\ m.cached \in [SeqIds -> Nat]
      BY <1>7 DEF Memory
    <3> QED BY <3>1, <1>1, <2>2 DEF Vacant, Put
  <2>10. s \notin Elems(d.waiting) /\ s \notin Elems(d.running)
    BY <1>1, <2>2, <2>5
  <2>11. EInv(d, A, {})
    BY <1>1, <2>2, <2>3, <2>4, <2>7, <2>8, <2>9, <2>10, StepKeeps
  <2>12. Emits(e, d, s) BY <1>1, <1>5, <2>2 DEF Emits
  <2>13. Leaves(e, d)
    <3>1. \A q \in Elems(e.waiting) : q \in SeqIds \ {s} BY <1>1, QueueFacts
    <3> QED BY <3>1, <2>2, <2>5, <2>8 DEF Leaves, Unmoved, Untouched
  <2>15. Shrinks(e, d, s)
    <3>1. m.table \in [SeqIds -> Seq(Block)] BY <1>7 DEF Memory
    <3> QED BY <3>1, <1>1, <2>2 DEF Put, Shrinks
  <2>14. Serves(e, d, A, s)
    BY <1>1, <2>2, <2>8, <2>10, <2>11, <2>12, <2>13, <2>15 DEF Serves, Progresses
  <2> QED BY <2>1, <2>14 DEF m
<1> QED BY <1>9, <1>10 DEF m

LEMMA ItemDoneFacts ==
  ASSUME NEW e, NEW A, EInv(e, A, {}), NEW item, ItemOK(e, {}, item), NEW eos
  PROVE  Serves(e, ItemDone(e, item, eos), A, item.seq)
<1> DEFINE s == item.seq
           k == item.n
           r == Recorded(e, item)
<1>1. item \in Item /\ s \in SeqIds /\ k \in Nat /\ k > 0 /\ item.phase \in {"prefill", "decode"}
  BY DEF ItemOK, Item
<1>2. e.len[s] \in Nat /\ e.cached[s] \in Nat
  BY <1>1, MemoryFacts DEF EInv, Setup
<1>3. e.cached[s] + k <= e.len[s] /\ e.cached[s] + k <= Capacity(e, s)
  <2>1. CASE item.phase = "prefill" BY <2>1 DEF ItemOK
  <2>2. CASE item.phase = "decode"
    <3>1. k = 1 /\ s \in Held(e, {}) /\ e.len[s] <= Capacity(e, s)
      BY <2>2 DEF ItemOK
    <3>2. Resident(e, s) BY <3>1 DEF EInv, Placed
    <3>3. Capacity(e, s) \in Nat
      <4>1. Len(e.table[s]) \in Nat BY <1>1, MemoryFacts, LenProperties
      <4> QED BY <4>1, MulMonotone DEF Capacity
    <3> QED BY <3>1, <3>2, <3>3, <1>2 DEF Resident
  <2> QED BY <2>1, <2>2, <1>1
<1>4. Records(e, r, s, k) BY <1>1, <1>3, RecordedFacts
<1> HIDE DEF r
<1>5. ItemDone(e, item, eos) = ItemAfter(r, item, eos) BY DEF ItemDone, r
<1>6. /\ SameBooks(e, r) /\ r.batch = e.batch /\ r.waiting = e.waiting
      /\ r.running = e.running /\ r.table = e.table
      /\ r.cached = Put(e.cached, s, e.cached[s] + k) /\ Setup(r) /\ Memory(r)
  BY <1>4 DEF Records
<1>7. /\ r.cached[s] = e.cached[s] + k /\ r.len[s] = e.len[s]
      /\ \A q \in SeqIds \ {s} : r.cached[q] = e.cached[q]
  BY <1>1, <1>6, MemoryFacts DEF Put, SameBooks
<1>8. CASE item.phase = "prefill" /\ r.cached[s] < r.len[s]
  <2>1. ItemAfter(r, item, eos) = r BY <1>8 DEF ItemAfter
  <2>2. s \in Elems(e.waiting) BY <1>7, <1>8 DEF ItemOK
  <2>3. Queues(r, A, {}) BY <1>6 DEF EInv, Queues, Held, SameBooks
  <2>4. SameLimits(e, r) /\ Capacity(r, s) = Capacity(e, s)
    BY <1>6 DEF SameBooks, SameLimits, Capacity
  <2>5. Parked(r, s)
    <3>1. Parked(e, s) BY <2>2 DEF EInv, Placed
    <3> QED BY <3>1, <2>4, <1>3, <1>6, <1>7, <1>8 DEF Parked, SameBooks
  <2>6. \A q \in SeqIds \ {s} : Unmoved(e, r, q)
    BY <1>6, <1>7 DEF Unmoved, Untouched, SameBooks
  <2>7. s \in A /\ s \notin Elems(r.running)
    BY <2>2, <1>6, QueueFacts DEF Held
  <2>8. s \in Elems(r.waiting) BY <2>2, <1>6
  <2>9. EInv(r, A, {})
    BY <1>1, <1>6, <2>3, <2>4, <2>5, <2>6, <2>7, <2>8, StepKeeps
  <2>10. Emits(e, r, s) BY <1>6 DEF Emits, SameBooks
  <2>11. Leaves(e, r) BY <1>6 DEF Leaves, SameBooks
  <2> QED BY <1>5, <1>6, <2>1, <2>4, <2>6, <2>7, <2>9, <2>10, <2>11
    DEF Serves, Progresses, Shrinks
<1>9. CASE ~ (item.phase = "prefill" /\ r.cached[s] < r.len[s])
  <2>1. ItemAfter(r, item, eos) = Ended(Emitted(r, s), s, eos)
    BY <1>9 DEF ItemAfter
  <2>2. s \in Elems(e.running) /\ e.len[s] <= Capacity(e, s)
    <3>1. CASE item.phase = "decode" BY <3>1 DEF ItemOK, Held
    <3>2. CASE item.phase = "prefill"
      <4>1. e.cached[s] + k = e.len[s] BY <3>2, <1>1, <1>2, <1>3, <1>7, <1>9
      <4> QED BY <4>1, <3>2, <1>3 DEF ItemOK, Held
    <3> QED BY <3>1, <3>2, <1>1
  <2>3. Serves(e, Ended(Emitted(r, s), s, eos), A, s)
    BY <2>2, <1>1, <1>3, <1>4, EmittedFacts
  <2> QED BY <1>5, <2>1, <2>3
<1> QED BY <1>8, <1>9
(* The items of a step in their order.                                     *)
Serving(e, d, A, i) ==
  /\ EInv(d, A, {}) /\ SameLimits(e, d) /\ d.batch = e.batch
  /\ \A j \in 1..Len(e.batch) : j > i => ItemOK(d, {}, e.batch[j])
  /\ \A r \in SeqIds : /\ Emits(e, d, r) /\ Shrinks(e, d, r)
                       /\ (\A j \in 1..Len(e.batch) : j <= i => e.batch[j].seq # r)
                            => Unmoved(e, d, r)
  /\ Leaves(e, d)
  /\ \A j \in 1..Len(e.batch) : j <= i =>
       Progresses(e, d, e.batch[j].seq)

LEMMA AllDoneFacts ==
  ASSUME NEW e, NEW A, EInv(e, A, {}), BatchOK(e, {}), NEW eos
  PROVE  Serving(e, AllDone(e, eos), A, Len(e.batch))
<1> DEFINE b == e.batch
           len == Len(b)
<1>1. /\ b \in Seq(Item) /\ len \in Nat
      /\ \A j \in 1..len : b[j] \in Item /\ ItemOK(e, {}, b[j]) /\ b[j].seq \in SeqIds
      /\ \A j, k \in 1..len : b[j].seq = b[k].seq => j = k
  <2>1. b \in Seq(Item) /\ len \in Nat /\ \A j \in 1..len : b[j] \in Item
    BY LenProperties DEF BatchOK
  <2>2. \A j \in 1..len : ItemOK(e, {}, b[j]) BY DEF BatchOK
  <2>3. \A j, k \in 1..len : b[j].seq = b[k].seq => j = k BY DEF BatchOK
  <2>4. \A x \in Item : x.seq \in SeqIds BY DEF Item
  <2> HIDE DEF b, len
  <2> QED BY <2>1, <2>2, <2>3, <2>4
<1>2. PICK g : /\ g[0] = e /\ AllDone(e, eos) = g[len]
               /\ \A i \in 1..len : g[i] = ItemDone(g[i - 1], b[i], eos)
  BY <1>1, ItemsTurns
<1> DEFINE T == {i \in Nat : i <= len => Serving(e, g[i], A, i)}
<1>3. 0 \in T
  <2>1. /\ SameLimits(e, e)
        /\ \A r \in SeqIds : Emits(e, e, r) /\ Shrinks(e, e, r) /\ Unmoved(e, e, r)
        /\ Leaves(e, e)
    BY DEF SameLimits, Emits, Shrinks, Unmoved, Untouched, Leaves
  <2>2. \A j \in 1..len : ~ (j <= 0) BY <1>1
  <2> HIDE DEF b, len
  <2>3. Serving(e, e, A, 0) BY <2>1, <2>2, <1>1 DEF Serving, b, len
  <2> QED BY <2>3, <1>2
<1>4. ASSUME NEW i \in T PROVE i + 1 \in T
  <2> SUFFICES ASSUME i + 1 <= len PROVE Serving(e, g[i + 1], A, i + 1)
    OBVIOUS
  <2>1. i \in Nat /\ i <= len /\ i + 1 \in 1..len /\ (i + 1) - 1 = i
    BY <1>1
  <2> DEFINE a == g[i]
             item == b[i + 1]
             s == item.seq
             d == ItemDone(a, item, eos)
  <2>2. g[i + 1] = d BY <2>1, <1>2
  <2>3. Serving(e, a, A, i) BY <2>1
  <2> HIDE DEF a
  <2>4. /\ EInv(a, A, {}) /\ SameLimits(e, a) /\ a.batch = b
        /\ \A j \in 1..len : j > i => ItemOK(a, {}, b[j])
        /\ \A r \in SeqIds : /\ Emits(e, a, r) /\ Shrinks(e, a, r)
                             /\ (\A j \in 1..len : j <= i => b[j].seq # r) => Unmoved(e, a, r)
        /\ Leaves(e, a)
        /\ \A j \in 1..len : j <= i => Progresses(e, a, b[j].seq)
    BY <2>3 DEF Serving
  <2>5. item \in Item /\ ItemOK(a, {}, item) /\ s \in SeqIds
    <3>1. i + 1 > i BY <2>1
    <3> QED BY <3>1, <2>1, <2>4, <1>1
  <2>6. \A j \in 1..len : j # i + 1 => b[j].seq # s /\ b[j].seq \in SeqIds \ {s}
    BY <1>1, <2>1
  <2> HIDE DEF item, s
  <2>7. Serves(a, d, A, s) BY <2>4, <2>5, ItemDoneFacts DEF s
  <2> HIDE DEF d
  <2>8. /\ EInv(d, A, {}) /\ SameLimits(a, d) /\ d.batch = b
        /\ \A r \in SeqIds \ {s} : Unmoved(a, d, r)
        /\ Emits(a, d, s) /\ Shrinks(a, d, s) /\ Leaves(a, d) /\ Progresses(a, d, s)
    BY <2>4, <2>7 DEF Serves
  <2>9. SameLimits(e, d) BY <2>4, <2>8 DEF SameLimits
  <2>10. ASSUME NEW j \in 1..len, j > i + 1 PROVE ItemOK(d, {}, b[j])
    <3>1. j # i + 1 /\ j > i BY <2>1, <2>10
    <3>2. ItemOK(a, {}, b[j]) BY <3>1, <2>4
    <3> DEFINE x == b[j]
    <3>3. x.seq \in SeqIds \ {s} BY <3>1, <2>6
    <3>4. Unmoved(a, d, x.seq) BY <3>3, <2>8
    <3> HIDE DEF x
    <3>5. ItemOK(a, {}, x) BY <3>2 DEF x
    <3>6. ItemOK(d, {}, x)
      BY <3>4, <3>5 DEF ItemOK, Unmoved, Untouched, Capacity, Held
    <3> QED BY <3>6 DEF x
  <2>11. \A j \in 1..len : j <= i => b[j].seq # s
    <3>1. \A j \in 1..len : j <= i => j # i + 1 BY <2>1
    <3> QED BY <3>1, <2>6
  <2>12. ASSUME NEW r \in SeqIds
         PROVE  /\ Emits(e, d, r) /\ Shrinks(e, d, r)
                /\ (\A j \in 1..len : j <= i + 1 => b[j].seq # r) => Unmoved(e, d, r)
    <3>1. CASE r = s
      <4>1. Unmoved(e, a, s) BY <2>4, <2>5, <2>11
      <4>2. Emits(e, d, s) /\ Shrinks(e, d, s)
        BY <4>1, <2>8 DEF Emits, Shrinks, Unmoved, Untouched
      <4>3. ~ (\A j \in 1..len : j <= i + 1 => b[j].seq # s)
        <5>1. i + 1 \in 1..len /\ i + 1 <= i + 1 BY <2>1
        <5> QED BY <5>1 DEF s, item
      <4> QED BY <3>1, <4>2, <4>3
    <3>2. CASE r # s
      <4>1. Unmoved(a, d, r) BY <3>2, <2>8
      <4>2. Emits(e, a, r) BY <2>4
      <4>3. d.plen[r] + d.maxTokens[r] = a.plen[r] + a.maxTokens[r]
        BY <2>8 DEF SameLimits
      <4>6. Shrinks(e, d, r) BY <4>1, <2>4 DEF Shrinks, Unmoved, Untouched
      <4>4. Emits(e, d, r) BY <4>1, <4>2, <4>3 DEF Emits, Unmoved
      <4>5. ASSUME \A j \in 1..len : j <= i + 1 => b[j].seq # r PROVE Unmoved(e, d, r)
        <5>1. \A j \in 1..len : j <= i => j <= i + 1 BY <2>1
        <5>2. Unmoved(e, a, r) BY <5>1, <4>5, <2>4
        <5> QED BY <5>2, <4>1 DEF Unmoved, Untouched
      <4> QED BY <4>4, <4>5, <4>6
    <3> QED BY <3>1, <3>2
  <2>13. Leaves(e, d) BY <2>4, <2>8 DEF Leaves
  <2>14. ASSUME NEW j \in 1..len, j <= i + 1 PROVE Progresses(e, d, b[j].seq)
    <3>1. CASE j = i + 1
      <4>1. Unmoved(e, a, s) BY <2>4, <2>5, <2>11
      <4>2. b[j].seq = s BY <3>1 DEF s, item
      <4> QED BY <4>1, <4>2, <2>8 DEF Progresses, Unmoved
    <3>2. CASE j # i + 1
      <4>1. j <= i BY <3>2, <2>1, <2>14
      <4>2. Progresses(e, a, b[j].seq) BY <4>1, <2>4
      <4>3. Unmoved(a, d, b[j].seq) BY <3>2, <2>6, <2>8
      <4> QED BY <4>2, <4>3 DEF Progresses, Unmoved
    <3> QED BY <3>1, <3>2
  <2>15. Serving(e, d, A, i + 1)
    BY <2>8, <2>9, <2>10, <2>12, <2>13, <2>14 DEF Serving
  <2> QED BY <2>2, <2>15
<1>5. T = Nat
  <2>1. T \in SUBSET Nat OBVIOUS
  <2> HIDE DEF T
  <2> QED BY <1>3, <1>4, <2>1, SetInduction
<1>6. Serving(e, g[len], A, len)
  <2>1. len \in T BY <1>1, <1>5
  <2> QED BY <1>1, <2>1
<1> QED BY <1>2, <1>6

(* A whole step's postprocessing.                                          *)
Served(e, d, A) ==
  /\ Ready(d, A) /\ SameLimits(e, d) /\ d.preempts = 0
  /\ \A r \in SeqIds : /\ Emits(e, d, r) /\ Shrinks(e, d, r)
                       /\ r \notin Selected(e) => Unmoved(e, d, r)
  /\ Leaves(e, d) /\ \A r \in Selected(e) : Progresses(e, d, r)

LEMMA PostprocessedFacts ==
  ASSUME NEW e, NEW A, EInv(e, A, {}), BatchOK(e, {}), NEW eos
  PROVE  Served(e, Postprocessed(e, eos), A)
<1> DEFINE a == AllDone(e, eos)
           d == Postprocessed(e, eos)
<1>1. Serving(e, a, A, Len(e.batch)) BY AllDoneFacts
<1>2. d = [a EXCEPT !.batch = << >>, !.preempts = 0] BY DEF Postprocessed
<1> HIDE DEF a, d
<1>3. EInv(a, A, {}) /\ SameLimits(e, a) /\ \A r \in SeqIds : Emits(e, a, r)
  BY <1>1 DEF Serving
<1>4. /\ DOMAIN d = EngineFields /\ SameBooks(a, d) /\ d.batch = << >>
      /\ d.preempts = 0 /\ d.waiting = a.waiting /\ d.running = a.running
      /\ d.pool = a.pool /\ d.table = a.table /\ d.cached = a.cached
  BY <1>2, <1>3 DEF EInv, Setup, EngineFields, SameBooks
<1>5. EInv(d, A, {})
  <2>1. Setup(d) /\ Memory(d)
    BY <1>3, <1>4 DEF EInv, Setup, Memory, SameBooks
  <2>2. Held(d, {}) = Held(a, {}) BY <1>4 DEF Held
  <2>3. Queues(d, A, {})
    BY <1>3, <1>4, <2>2 DEF EInv, Queues, SameBooks
  <2>4. Placed(d, A, {})
    BY <1>3, <1>4, <2>2 DEF EInv, Placed, Parked, Resident, Vacant, Capacity, SameBooks
  <2> QED BY <2>1, <2>3, <2>4 DEF EInv
<1>6. SameLimits(e, d) BY <1>3, <1>4 DEF SameLimits, SameBooks
<1>7. \A r \in SeqIds : Emits(e, d, r) BY <1>3, <1>4 DEF Emits, SameBooks
<1>8. Leaves(e, a) /\ \A r \in Selected(e) : Progresses(e, a, r)
  <2>1. e.batch \in Seq(Item) BY DEF BatchOK
  <2>2. Len(e.batch) \in Nat /\ \A j \in 1..Len(e.batch) : j <= Len(e.batch)
    BY <2>1, LenProperties
  <2> QED BY <1>1, <2>1, <2>2, SelectedFacts DEF Serving
<1>9. Leaves(e, d) /\ \A r \in Selected(e) : Progresses(e, d, r)
  BY <1>4, <1>8 DEF Leaves, Progresses, SameBooks
<1>10. ASSUME NEW r \in SeqIds
       PROVE  Shrinks(e, d, r) /\ (r \notin Selected(e) => Unmoved(e, d, r))
  <2>1. Shrinks(e, a, r) BY <1>1 DEF Serving
  <2>2. ASSUME r \notin Selected(e) PROVE Unmoved(e, a, r)
    <3>1. \A j \in 1..Len(e.batch) : e.batch[j].seq # r
      <4>1. e.batch \in Seq(Item) BY DEF BatchOK
      <4> QED BY <4>1, <2>2, SelectedFacts
    <3> QED BY <3>1, <1>1 DEF Serving
  <2>3. Shrinks(e, d, r) BY <2>1, <1>4 DEF Shrinks
  <2>4. Unmoved(e, a, r) => Unmoved(e, d, r)
    BY <1>4 DEF Unmoved, Untouched, SameBooks
  <2> QED BY <2>2, <2>3, <2>4
<1> QED BY <1>4, <1>5, <1>6, <1>7, <1>9, <1>10 DEF d, Served, Ready
---------------------------------------------------------------------------
(* The engine before any request, and Scheduler.add.                       *)
LEMMA FreshFacts ==
  ASSUME NEW config \in Configs, NEW kind \in [SeqIds -> Kinds]
  PROVE  Ready(Fresh(config, kind), {})
<1> DEFINE e == Fresh(config, kind)
           text == [s \in SeqIds |-> Text(kind[s], s)]
           plen == [s \in SeqIds |-> Len(kind[s].prompt)]
           most == [s \in SeqIds |-> kind[s].max]
           none == [s \in SeqIds |-> 0]
           bare == [s \in SeqIds |-> << >>]
<1>1. /\ DOMAIN e = EngineFields /\ e.incremental \in BOOLEAN /\ e.preempts = 0
      /\ e.waiting = << >> /\ e.running = << >> /\ e.finished = {} /\ e.batch = << >>
      /\ e.pool = EmptyPool /\ e.text = text /\ e.plen = plen /\ e.maxTokens = most
      /\ e.len = plen /\ e.cached = none /\ e.table = bare
  BY CoreAssumption DEF Fresh, EngineFields
<1> HIDE DEF e
<1>2. ASSUME NEW s \in SeqIds
      PROVE  /\ plen[s] \in Nat \ {0} /\ most[s] \in Nat \ {0}
             /\ text[s] \in Seq(Nat) /\ Len(text[s]) = plen[s] + most[s]
  <2> DEFINE prompt == kind[s].prompt
             max == kind[s].max
             rest == [i \in 1..max |-> 100 + s]
  <2>1. prompt \in Seq(Nat) /\ Len(prompt) > 0 /\ max \in Nat \ {0}
    <3>1. kind[s] \in Kinds OBVIOUS
    <3> QED BY <3>1, CoreAssumption
  <2>2. Len(prompt) \in Nat BY <2>1, LenProperties
  <2>3. text[s] = prompt \o rest /\ plen[s] = Len(prompt) /\ most[s] = max
    BY DEF Text
  <2> HIDE DEF prompt, max
  <2>4. rest \in Seq(Nat) /\ Len(rest) = max
    <3>1. 100 + s \in Nat BY CoreAssumption DEF SeqIds
    <3>2. rest \in [1..max -> Nat] BY <3>1
    <3>3. rest \in Seq(Nat) BY <3>2, <2>1
    <3>4. DOMAIN rest = 1..max OBVIOUS
    <3> HIDE DEF rest
    <3> QED BY <3>3, <3>4, <2>1, LenProperties
  <2> HIDE DEF rest
  <2>5. /\ prompt \o rest \in Seq(Nat)
        /\ Len(prompt \o rest) = Len(prompt) + Len(rest)
    BY <2>1, <2>4, ConcatProperties
  <2> HIDE DEF text, plen, most
  <2> QED BY <2>1, <2>2, <2>3, <2>4, <2>5
<1>3. /\ text \in [SeqIds -> Seq(Nat)] /\ plen \in [SeqIds -> Nat \ {0}]
      /\ most \in [SeqIds -> Nat \ {0}]
  <2>1. DOMAIN text = SeqIds /\ DOMAIN plen = SeqIds /\ DOMAIN most = SeqIds
    OBVIOUS
  <2>2. /\ text = [s \in SeqIds |-> text[s]] /\ plen = [s \in SeqIds |-> plen[s]]
        /\ most = [s \in SeqIds |-> most[s]]
    OBVIOUS
  <2> HIDE DEF text, plen, most
  <2> QED BY <2>2, <1>2
<1> HIDE DEF text, plen, most
<1>4. Setup(e)
  <2>1. plen \in [SeqIds -> Nat] BY <1>3
  <2>2. \A s \in SeqIds : /\ Len(text[s]) = plen[s] + most[s]
                          /\ plen[s] <= plen[s] /\ plen[s] <= plen[s] + most[s]
    <3>1. \A s \in SeqIds : plen[s] \in Nat /\ most[s] \in Nat BY <1>2
    <3> QED BY <3>1, <1>2
  <2> QED BY <1>1, <1>3, <2>1, <2>2 DEF Setup
<1>5. \A s \in SeqIds : bare[s] = << >> /\ none[s] = 0
  OBVIOUS
<1>6. bare \in [SeqIds -> Seq(Block)] /\ none \in [SeqIds -> Nat]
  <2>1. << >> \in Seq(Block) BY EmptyQueue
  <2> QED BY <2>1
<1> HIDE DEF bare, none
<1>7. Memory(e)
  <2>1. /\ PoolTyped(EmptyPool, Nat) /\ Accounts(EmptyPool, bare, SeqIds)
        /\ Indexed(EmptyPool, bare, none, SeqIds)
    BY <1>5, EmptyPoolFacts
  <2> QED BY <2>1, <1>1, <1>6 DEF Memory
<1>8. /\ e.waiting \in Seq(SeqIds) /\ Distinct(e.waiting) /\ Elems(e.waiting) = {}
      /\ e.running \in Seq(SeqIds) /\ Distinct(e.running) /\ Elems(e.running) = {}
  BY <1>1, EmptyQueue
<1>9. Held(e, {}) = {} BY <1>8 DEF Held
<1>10. {} \subseteq SeqIds OBVIOUS
<1>11. Queues(e, {}, {}) BY <1>1, <1>8, <1>9, <1>10 DEF Queues
<1>12. Placed(e, {}, {})
  BY <1>1, <1>5, <1>8, <1>9 DEF Placed, Vacant
<1> QED BY <1>1, <1>4, <1>7, <1>11, <1>12 DEF Ready, EInv, e

LEMMA AddedFacts ==
  ASSUME NEW e, NEW A, Ready(e, A), NEW s \in SeqIds, s \notin A
  PROVE  Ready(Added(e, s), A \union {s})
<1> DEFINE d == Added(e, s)
           B == A \union {s}
<1>1. A \subseteq SeqIds /\ e.finished \subseteq A BY DEF Ready, EInv, Queues
<1>2. B \subseteq SeqIds /\ A \subseteq B /\ s \in B /\ B = A \union {s}
  BY <1>1
<1> HIDE DEF B
<1>3. /\ DOMAIN d = EngineFields /\ SameBooks(e, d) /\ d.batch = e.batch
      /\ d.preempts = e.preempts /\ d.pool = e.pool /\ d.table = e.table
      /\ d.cached = e.cached /\ d.running = e.running
      /\ d.waiting = Append(e.waiting, s)
  BY DEF Ready, EInv, Setup, EngineFields, Added, SameBooks
<1> HIDE DEF d
<1>4. EInv(e, A, {}) /\ e.batch = << >> BY DEF Ready
<1>5. s \notin Elems(e.waiting) /\ s \notin Held(e, {})
  BY <1>2, <1>4, QueueFacts
<1>6. /\ d.waiting \in Seq(SeqIds) /\ Distinct(d.waiting)
      /\ Elems(d.waiting) = Elems(e.waiting) \union {s}
  BY <1>2, <1>3, <1>4, <1>5, QueueFacts, AppendDistinct
<1>7. Held(d, {}) = Held(e, {}) BY <1>3 DEF Held
<1>8. Setup(d) /\ Memory(d) BY <1>3, <1>4 DEF EInv, Setup, Memory, SameBooks
<1>9. Queues(d, B, {})
  <2>1. Elems(d.waiting) \union Held(d, {}) = B \ d.finished
    <3>1. Elems(e.waiting) \union Held(e, {}) = A \ e.finished
      BY <1>4 DEF EInv, Queues
    <3>2. s \notin e.finished BY <1>1, <1>2
    <3> QED BY <3>1, <3>2, <1>2, <1>3, <1>6, <1>7 DEF SameBooks
  <2>2. d.finished \subseteq B BY <1>1, <1>2, <1>3 DEF SameBooks
  <2> QED BY <2>1, <2>2, <1>2, <1>3, <1>4, <1>5, <1>6, <1>7 DEF EInv, Queues
<1>10. Parked(d, s)
  <2>1. Vacant(e, s) /\ e.len[s] = e.plen[s]
    BY <1>2, <1>4, <1>5 DEF EInv, Placed
  <2>2. /\ e.plen[s] \in Nat \ {0} /\ e.maxTokens[s] \in Nat \ {0}
    BY <1>2, <1>4 DEF EInv, Setup
  <2>3. Capacity(d, s) = 0
    <3>1. 0 * BlockSize = 0 BY PoolAssumption
    <3> QED BY <2>1, <3>1, <1>3, EmptyQueue DEF Capacity, Vacant
  <2> QED BY <2>1, <2>2, <2>3, <1>3 DEF Parked, Vacant, SameBooks
<1>11. \A r \in SeqIds : /\ Parked(e, r) => Parked(d, r)
                         /\ Resident(e, r) => Resident(d, r)
                         /\ Vacant(e, r) => Vacant(d, r)
  BY <1>3 DEF SameBooks, Parked, Resident, Vacant, Capacity
<1>12. Placed(d, B, {})
  <2>1. Elems(e.waiting) \subseteq SeqIds /\ Held(e, {}) \subseteq SeqIds
    BY <1>4, QueueFacts
  <2>2. \A r \in Elems(d.waiting) : Parked(d, r)
    BY <2>1, <1>4, <1>6, <1>10, <1>11 DEF EInv, Placed
  <2>3. \A r \in Held(d, {}) : Resident(d, r)
    BY <2>1, <1>4, <1>7, <1>11 DEF EInv, Placed
  <2>4. \A r \in SeqIds : r \notin Elems(d.waiting) /\ r \notin Held(d, {}) => Vacant(d, r)
    BY <1>4, <1>6, <1>7, <1>11 DEF EInv, Placed
  <2>5. \A r \in SeqIds : r \notin B => d.len[r] = d.plen[r]
    BY <1>2, <1>3, <1>4 DEF EInv, Placed, SameBooks
  <2> QED BY <2>2, <2>3, <2>4, <2>5 DEF Placed
<1>13. Ready(d, B)
  BY <1>3, <1>4, <1>8, <1>9, <1>12 DEF Ready, EInv
<1> QED BY <1>13 DEF d, B
---------------------------------------------------------------------------
(* What one attempt of schedule() leaves: an engine that is sound, with a  *)
(* batch that is backed by blocks and within the budgets.                  *)

Frugal(e) ==
  /\ TokensOf(e.batch) <= MaxBatched
  /\ PhaseCount(e.batch, "prefill") <= MaxNumSeqs
  /\ PhaseCount(e.batch, "decode") <= MaxNumSeqs

Good(e, A) == EInv(e, A, {}) /\ BatchOK(e, {}) /\ Frugal(e)

(* From e, where the step began or an attempt failed, to d.                *)
Advances(e, d, A) == Good(d, A) /\ SameBooks(e, d)

LEMMA EmptyBatch ==
  ASSUME NEW e, e.batch = << >>, NEW X
  PROVE  /\ BatchOK(e, X) /\ Frugal(e) /\ Selected(e) = {}
         /\ TokensOf(e.batch) = 0 /\ PhaseCount(e.batch, "prefill") = 0
         /\ PhaseCount(e.batch, "decode") = 0
<1>1. << >> \in Seq(Item) /\ Len(<< >>) = 0 /\ DOMAIN << >> = 1..0 /\ 1..0 = {}
  BY EmptyQueue, LenProperties
<1>2. BatchOK(e, X) BY <1>1 DEF BatchOK
<1>3. Selected(e) = {} BY <1>1 DEF Selected
<1>4. TokensOf(<< >>) = 0
  <2>1. PICK g : /\ g[0] = 0 /\ TokensOf(<< >>) = g[Len(<< >>)]
                 /\ \A i \in 1..Len(<< >>) : g[i] = g[i - 1] + << >>[i].n
    BY <1>1, SumTurns
  <2> QED BY <1>1, <2>1
<1>5. ASSUME NEW phase PROVE PhaseCount(<< >>, phase) = 0
  <2> DEFINE P == {k \in DOMAIN << >> : << >>[k].phase = phase}
  <2>1. P = {} BY <1>1
  <2> QED BY <2>1, FS_EmptySet DEF PhaseCount
<1>6. Frugal(e) BY <1>4, <1>5, CoreAssumption DEF Frugal
<1> QED BY <1>2, <1>3, <1>4, <1>5, <1>6

LEMMA ReadyGood ==
  ASSUME NEW e, NEW A, Ready(e, A)
  PROVE  Advances(e, e, A)
<1>1. SameBooks(e, e) BY DEF SameBooks
<1> QED BY <1>1, EmptyBatch DEF Ready, Good, Advances

LEMMA AdvancesOn ==
  ASSUME NEW e, NEW d, NEW A, Advances(e, d, A)
  PROVE  /\ d.batch = << >> => Ready(d, A)
         /\ \A c : Advances(d, c, A) => Advances(e, c, A)
BY DEF Advances, Good, Ready, SameBooks

LEMMA PrefillAdvances ==
  ASSUME NEW e, NEW A, Ready(e, A), NEW budget \in Nat, budget <= MaxBatched
  PROVE  /\ Advances(e, SchedulePrefill(e, budget), A)
         /\ PhaseCount(SchedulePrefill(e, budget).batch, "decode") = 0
<1> DEFINE d == SchedulePrefill(e, budget)
<1>1. EInv(e, A, {}) /\ e.batch = << >> BY DEF Ready
<1>2. /\ BatchOK(e, {}) /\ Selected(e) = {} /\ TokensOf(e.batch) = 0
      /\ PhaseCount(e.batch, "prefill") = 0 /\ PhaseCount(e.batch, "decode") = 0
  BY <1>1, EmptyBatch
<1>3. Prefills(e, d, A, budget, MaxNumSeqs)
  BY <1>1, <1>2, PrefillFacts
<1> HIDE DEF d
<1>4. /\ EInv(d, A, {}) /\ SameBooks(e, d) /\ BatchOK(d, {})
      /\ TokensOf(d.batch) <= 0 + budget
      /\ PhaseCount(d.batch, "decode") = 0
      /\ PhaseCount(d.batch, "prefill") <= 0 + MaxNumSeqs
  BY <1>2, <1>3 DEF Prefills
<1>5. TokensOf(d.batch) \in Nat
  BY <1>4, ConcatTokens DEF BatchOK
<1>6. Frugal(d) BY <1>4, <1>5, CoreAssumption DEF Frugal
<1> QED BY <1>4, <1>6 DEF d, Advances, Good

LEMMA DecodeAdvances ==
  ASSUME NEW e, NEW A, Ready(e, A), NEW budget \in Nat, NEW rotate \in BOOLEAN
  PROVE  /\ Advances(e, ScheduleDecode(e, budget, rotate), A)
         /\ PhaseCount(ScheduleDecode(e, budget, rotate).batch, "prefill") = 0
<1> DEFINE d == ScheduleDecode(e, budget, rotate)
           size == SmallerOf(SmallerOf(MaxNumSeqs, MaxBatched), budget)
<1>1. EInv(e, A, {}) /\ e.batch = << >> BY DEF Ready
<1>2. /\ BatchOK(e, {}) /\ Selected(e) = {} /\ TokensOf(e.batch) = 0
      /\ PhaseCount(e.batch, "prefill") = 0 /\ PhaseCount(e.batch, "decode") = 0
  BY <1>1, EmptyBatch
<1>3. Selected(e) \cap Elems(e.running) = {} BY <1>2
<1>4. Decodes(e, d, A, {}, size) BY <1>1, <1>2, <1>3, DecodeFacts
<1>5. size \in Nat /\ size <= MaxNumSeqs /\ size <= MaxBatched
  BY CoreAssumption DEF SmallerOf
<1> HIDE DEF d, size
<1>6. /\ EInv(d, A, {}) /\ SameBooks(e, d) /\ BatchOK(d, {})
      /\ TokensOf(d.batch) <= 0 + size
      /\ PhaseCount(d.batch, "decode") <= 0 + size
      /\ PhaseCount(d.batch, "prefill") <= 0
  BY <1>2, <1>4 DEF Decodes
<1>7. /\ TokensOf(d.batch) \in Nat /\ PhaseCount(d.batch, "decode") \in Nat
      /\ PhaseCount(d.batch, "prefill") \in Nat
  BY <1>6, ConcatTokens, PhaseCountFacts DEF BatchOK
<1>8. Frugal(d) BY <1>5, <1>6, <1>7, CoreAssumption DEF Frugal
<1> QED BY <1>6, <1>7, <1>8 DEF d, Advances, Good

LEMMA FreeAdvances ==
  ASSUME NEW e, NEW A, Ready(e, A)
  PROVE  /\ Advances(e, FreeKvForWaitingHead(e), A)
         /\ Ready(FreeKvForWaitingHead(e), A)
<1> DEFINE d == FreeKvForWaitingHead(e)
<1>1. EInv(d, A, {}) /\ SameBooks(e, d) /\ d.batch = << >>
  BY FreeFacts DEF Ready
<1> HIDE DEF d
<1> QED BY <1>1, EmptyBatch DEF d, Advances, Good, Ready

=============================================================================
