------------------------- MODULE BlockManagerProofs -------------------------
(***************************************************************************)
(* The block accounts of BlockManager are exact, for every number of       *)
(* sequences, blocks, tokens and every block size: IInv is inductive.  In  *)
(* the second half, the contents of the KV cache: attention reads the keys *)
(* and values of the sequence's own tokens, a step writes into blocks      *)
(* nobody shares, and previews of the prefix cache are honoured and can be *)
(* replayed.                                                               *)
(***************************************************************************)
EXTENDS BlockManager, SchedulerCoreProofs

LEMMA EmptyTable ==
  /\ << >> \in Seq(Block) /\ << >> \in Seq(Token)
  /\ Len(<< >>) = 0 /\ Elems(<< >>) = {} /\ Distinct(<< >>)
<1>1. Len(<< >>) = 0 /\ << >> \in Seq(Block) /\ << >> \in Seq(Token)
      /\ DOMAIN << >> = 1..0
  BY EmptySeq, LenProperties
<1>2. 1..0 = {}
  OBVIOUS
<1> QED BY <1>1, <1>2 DEF Elems, Distinct

(* An action that moves one sequence keeps IInv when it keeps the accounts *)
(* and the geometry of that sequence.                                      *)
Others(s) ==
  \A r \in Seqs \ {s} :
    /\ status'[r] = status[r] /\ tokens'[r] = tokens[r] /\ table'[r] = table[r]
    /\ cached'[r] = cached[r] /\ sched'[r] = sched[r]

Moved(s) ==
  /\ status' = [r \in Seqs |-> status'[r]] /\ status'[s] \in {"idle", "waiting", "running"}
  /\ tokens' = [r \in Seqs |-> tokens'[r]] /\ tokens'[s] \in Seq(Token)
  /\ table' = [r \in Seqs |-> table'[r]] /\ table'[s] \in Seq(Block)
  /\ cached' = [r \in Seqs |-> cached'[r]] /\ cached'[s] \in Nat
  /\ sched' = [r \in Seqs |-> sched'[r]] /\ sched'[s] \in Nat

LEMMA StepKeepsIInv ==
  ASSUME IInv, NEW s \in Seqs, Others(s), Moved(s),
         PoolTyped(pool', Token), Accounts(pool', table', Seqs),
         Indexed(pool', table', cached', Seqs),
         kv' \in [Block -> Seq(Token)], phase' \in {"schedule", "postprocess"},
         Covered(s)'
  PROVE  IInv'
<1>1. TypeOK'
  <2>1. \A r \in Seqs : /\ status'[r] \in {"idle", "waiting", "running"}
                        /\ tokens'[r] \in Seq(Token) /\ table'[r] \in Seq(Block)
                        /\ cached'[r] \in Nat /\ sched'[r] \in Nat
    BY DEF Others, Moved, IInv, TypeOK
  <2>2. status' \in [Seqs -> {"idle", "waiting", "running"}] BY <2>1 DEF Moved
  <2>3. tokens' \in [Seqs -> Seq(Token)] BY <2>1 DEF Moved
  <2>4. table' \in [Seqs -> Seq(Block)] BY <2>1 DEF Moved
  <2>5. cached' \in [Seqs -> Nat] /\ sched' \in [Seqs -> Nat] BY <2>1 DEF Moved
  <2> QED BY <2>2, <2>3, <2>4, <2>5 DEF TypeOK
<1>2. ASSUME NEW r \in Seqs PROVE Covered(r)'
  <2>1. CASE r = s BY <2>1
  <2>2. CASE r # s
    <3>1. Covered(r) BY DEF IInv
    <3>2. /\ status'[r] = status[r] /\ tokens'[r] = tokens[r]
          /\ table'[r] = table[r] /\ cached'[r] = cached[r]
          /\ sched'[r] = sched[r]
      BY <2>2 DEF Others
    <3> QED BY <3>1, <3>2 DEF Covered
  <2> QED BY <2>1, <2>2
<1> QED BY <1>1, <1>2 DEF IInv, PoolConsistent

LEMMA InitIInv ==
  Init => IInv
<1> SUFFICES ASSUME Init PROVE IInv
  OBVIOUS
<1>1. \A s \in Seqs : table[s] = << >>
  BY DEF Init
<1>2. /\ PoolTyped(pool, Token) /\ Accounts(pool, table, Seqs)
      /\ Indexed(pool, table, cached, Seqs)
  BY <1>1, EmptyPoolFacts DEF Init
<1>5. TypeOK
  BY <1>2, EmptyTable DEF Init, TypeOK
<1>6. PoolConsistent
  BY <1>2 DEF PoolConsistent
<1>7. Indexed(pool, table, cached, Seqs)
  BY <1>2
<1>8. ASSUME NEW s \in Seqs PROVE Covered(s)
  <2>1. /\ status[s] = "idle" /\ table[s] = << >> /\ cached[s] = 0
        /\ sched[s] = 0 /\ tokens[s] = << >>
    BY DEF Init
  <2>2. 0 * BlockSize = 0 BY PoolAssumption
  <2> QED BY <2>1, <2>2, EmptyTable DEF Covered
<1> QED BY <1>5, <1>6, <1>7, <1>8 DEF IInv

---------------------------------------------------------------------------
(* One lemma per action.                                                   *)

(* The part of IInv about one sequence, with the types the provers need.   *)
LEMMA IInvFacts ==
  ASSUME IInv, NEW s \in Seqs
  PROVE  /\ IsFiniteSet(Seqs) /\ Covered(s)
         /\ PoolTyped(pool, Token) /\ Accounts(pool, table, Seqs)
         /\ Indexed(pool, table, cached, Seqs)
         /\ status \in [Seqs -> {"idle", "waiting", "running"}]
         /\ tokens \in [Seqs -> Seq(Token)] /\ table \in [Seqs -> Seq(Block)]
         /\ cached \in [Seqs -> Nat] /\ sched \in [Seqs -> Nat]
         /\ Len(tokens[s]) \in Nat /\ Len(table[s]) \in Nat
         /\ Len(table[s]) * BlockSize \in Nat
         /\ kv \in [Block -> Seq(Token)] /\ phase \in {"schedule", "postprocess"}
<1>1. IsFiniteSet(Seqs) BY ManagerAssumption
<1>2. /\ Covered(s) /\ TypeOK /\ Accounts(pool, table, Seqs)
      /\ Indexed(pool, table, cached, Seqs)
  BY DEF IInv, PoolConsistent
<1>3. Len(tokens[s]) \in Nat /\ Len(table[s]) \in Nat
  BY <1>2, LenProperties DEF TypeOK
<1>4. Len(table[s]) * BlockSize \in Nat
  BY <1>3, MulMonotone
<1> QED BY <1>1, <1>2, <1>3, <1>4 DEF TypeOK

LEMMA AddRequestStep ==
  ASSUME IInv, NEW s \in Seqs, NEW prompt \in Prompts, AddRequest(s, prompt)
  PROVE  IInv'
<1>1. /\ status' = [status EXCEPT ![s] = "waiting"]
      /\ tokens' = [tokens EXCEPT ![s] = prompt]
      /\ pool' = pool /\ table' = table /\ cached' = cached /\ sched' = sched
      /\ kv' = kv /\ phase' = phase /\ status[s] = "idle"
  BY DEF AddRequest
<1>2. prompt \in Seq(Token) /\ Len(prompt) > 0
  BY ManagerAssumption
<1>3. /\ PoolTyped(pool', Token) /\ Accounts(pool', table', Seqs)
      /\ Indexed(pool', table', cached', Seqs)
      /\ kv' \in [Block -> Seq(Token)] /\ phase' \in {"schedule", "postprocess"}
  BY <1>1, IInvFacts
<1>4. Others(s) /\ Moved(s)
  BY <1>1, <1>2, IInvFacts DEF Others, Moved
<1>5. Covered(s)'
  <2>1. /\ table[s] = << >> /\ cached[s] = 0 /\ sched[s] = 0
    BY <1>1, IInvFacts DEF Covered
  <2>2. status'[s] = "waiting" /\ tokens'[s] = prompt
    BY <1>1, IInvFacts
  <2>3. 0 * BlockSize = 0 BY PoolAssumption
  <2>4. Len(prompt) \in Nat BY <1>2, LenProperties
  <2> QED BY <1>1, <1>2, <2>1, <2>2, <2>3, <2>4, EmptyTable DEF Covered
<1> QED BY <1>1, <1>3, <1>4, <1>5, IInvFacts, StepKeepsIInv

LEMMA PreemptStep ==
  ASSUME IInv, NEW s \in Seqs, Preempt(s)
  PROVE  IInv'
<1>1. /\ pool' = Deallocated(pool, table[s])
      /\ table' = Put(table, s, << >>)
      /\ cached' = Put(cached, s, 0)
      /\ status' = [status EXCEPT ![s] = "waiting"]
      /\ tokens' = tokens /\ sched' = sched /\ kv' = kv /\ phase' = phase
      /\ status[s] = "running" /\ sched[s] = 0
  BY DEF Preempt, Put
<1>2. /\ PoolTyped(pool', Token) /\ Accounts(pool', table', Seqs)
      /\ Indexed(pool', table', cached', Seqs)
  BY <1>1, IInvFacts, DeallocatedFacts
<1>3. /\ kv' \in [Block -> Seq(Token)] /\ phase' \in {"schedule", "postprocess"}
  BY <1>1, IInvFacts
<1>4. Others(s) /\ Moved(s)
  BY <1>1, EmptyTable, IInvFacts DEF Others, Moved, Put
<1>5. Covered(s)'
  <2>1. /\ status'[s] = "waiting" /\ tokens'[s] = tokens[s] /\ sched'[s] = 0
        /\ table'[s] = << >> /\ cached'[s] = 0
    BY <1>1, IInvFacts DEF Put
  <2>2. Len(tokens[s]) > 0 /\ Len(tokens[s]) \in Nat
    BY <1>1, IInvFacts DEF Covered
  <2>3. 0 * BlockSize = 0 BY PoolAssumption
  <2> QED BY <2>1, <2>2, <2>3, EmptyTable DEF Covered
<1> QED BY <1>1, <1>2, <1>3, <1>4, <1>5, IInvFacts, StepKeepsIInv

(* The geometry of s after an action that leaves it not idle, from its     *)
(* token count, its table, and what it has computed and scheduled.         *)
LEMMA CoveredAfter ==
  ASSUME NEW s \in Seqs, NEW len \in Nat, NEW size \in Nat,
         NEW done \in Nat, NEW n \in Nat,
         status'[s] \in {"waiting", "running"}, Len(tokens'[s]) = len,
         Len(table'[s]) = size, cached'[s] = done, sched'[s] = n,
         len > 0, done + n <= len, done + n <= size * BlockSize,
         status'[s] = "running" => len - 1 <= size * BlockSize,
         status'[s] = "running" /\ n > 0 => len <= size * BlockSize,
         status'[s] = "running" /\ n = 0 => done < len,
         status'[s] = "waiting" /\ ~ Incremental /\ table'[s] # << >> =>
           len <= size * BlockSize
  PROVE  Covered(s)'
BY DEF Covered

LEMMA PrefillFirstStep ==
  ASSUME IInv, NEW s \in Seqs, NEW n \in 1..MaxLen, PrefillFirst(s, n)
  PROVE  IInv'
<1> DEFINE toks == tokens[s]
           hit == CachedBlocks(pool, toks) * BlockSize
           m == IF Incremental THEN hit + n ELSE Len(toks)
           c == CanAllocate(pool, toks, m)
           new == Allocated(pool, toks, c, m)
           done == c * BlockSize
<1>1. /\ status[s] = "waiting" /\ table[s] = << >>
      /\ hit + n <= Len(toks) /\ c # -1
      /\ pool' = new.pool /\ table' = Put(table, s, new.table)
      /\ cached' = Put(cached, s, done)
      /\ status' = Put(status, s, IF done + n = Len(toks) THEN "running"
                                  ELSE status[s])
      /\ sched' = Put(sched, s, n)
      /\ tokens' = tokens /\ kv' = kv /\ phase' = phase
  <2> HIDE DEF hit, toks
  <2> QED BY DEF PrefillFirst, Put, hit, toks
<1>2. /\ toks \in Seq(Token) /\ Len(toks) \in Nat /\ Len(toks) > 0 /\ n \in Nat
      /\ n > 0
  <2>1. Len(toks) > 0 BY <1>1, IInvFacts DEF Covered
  <2>2. n \in Nat /\ n > 0 BY ManagerAssumption
  <2> QED BY <2>1, <2>2, IInvFacts
<1>3. hit \in Nat /\ m \in Nat /\ m >= hit
      /\ (Incremental => m = hit + n) /\ (~ Incremental => m = Len(toks))
  <2>1. CachedBlocks(pool, toks) \in Nat
    <3>1. CachedBlocks(pool, toks) \in 0..(BlocksFor(Len(toks)) - 1)
      BY <1>2, CachedBlocksFacts
    <3> QED BY <3>1
  <2>2. hit \in Nat BY <2>1, MulMonotone
  <2> HIDE DEF hit, toks, c
  <2> QED BY <2>2, <1>1, <1>2 DEF m
<1>4. /\ PoolTyped(pool, Token) /\ Accounts(pool, table, Seqs)
      /\ Indexed(pool, table, cached, Seqs)
  BY IInvFacts
<1>5. /\ InCache(pool, toks, c) /\ done < Len(toks)
      /\ c <= CachedBlocks(pool, toks) /\ c <= BlocksFor(m)
      /\ BlocksFor(m) - c <= Len(ShareCached(pool, Cached(pool, toks, c)).free)
      /\ c = CachedBlocks(pool, toks)
  <2>1. /\ \A h \in DOMAIN pool.map : pool.hash[pool.map[h]] = h /\ h # Root
        /\ Distinct(pool.free) /\ Elems(pool.free) = Block \ pool.used
    BY <1>4 DEF Indexed, Accounts
  <2> HIDE DEF m, toks
  <2> QED BY <2>1, <1>1, <1>2, <1>3, <1>4, CanAllocateFacts
<1>6. done = hit /\ done \in Nat
  BY <1>3, <1>5
<1> HIDE DEF hit, m, c, toks, done
<1>7. HasNoBlocks(table, s)
  BY <1>1, EmptyTable DEF HasNoBlocks
<1>8. /\ PoolTyped(new.pool, Token)
      /\ new.table \in Seq(Block) /\ Len(new.table) = BlocksFor(m)
      /\ Accounts(new.pool, Put(table, s, new.table), Seqs)
      /\ Indexed(new.pool, Put(table, s, new.table), Put(cached, s, c * BlockSize),
                 Seqs)
  <2>1. IsFiniteSet(Seqs) /\ table \in [Seqs -> Seq(Block)]
        /\ DOMAIN cached = Seqs
    BY IInvFacts
  <2>2. PoolTyped(new.pool, Token)
    BY <2>1, <1>2, <1>3, <1>4, <1>5, <1>7, AllocatedFacts
  <2>3. new.table \in Seq(Block)
    BY <2>1, <1>2, <1>3, <1>4, <1>5, <1>7, AllocatedFacts
  <2>4. Len(new.table) = BlocksFor(m)
    BY <2>1, <1>2, <1>3, <1>4, <1>5, <1>7, AllocatedFacts
  <2>5. Accounts(new.pool, Put(table, s, new.table), Seqs)
    BY <2>1, <1>2, <1>3, <1>4, <1>5, <1>7, AllocatedFacts
  <2>6. Indexed(new.pool, Put(table, s, new.table),
                Put(cached, s, c * BlockSize), Seqs)
    BY <2>1, <1>2, <1>3, <1>4, <1>5, <1>7, AllocatedFacts
  <2> QED BY <2>2, <2>3, <2>4, <2>5, <2>6
<1> HIDE DEF new
<1>9. /\ PoolTyped(pool', Token) /\ Accounts(pool', table', Seqs)
      /\ Indexed(pool', table', cached', Seqs)
  BY <1>1, <1>8 DEF done
<1>10. /\ status'[s] = IF done + n = Len(toks) THEN "running" ELSE "waiting"
       /\ tokens'[s] = toks /\ table'[s] = new.table
       /\ cached'[s] = done /\ sched'[s] = n
  BY <1>1, IInvFacts DEF Put, toks
<1>11. Others(s) /\ Moved(s)
  BY <1>1, <1>2, <1>6, <1>8, IInvFacts DEF Others, Moved, Put
<1>12. Covered(s)'
  <2> DEFINE size == BlocksFor(m)
             room == size * BlockSize
  <2>1. size \in Nat /\ m <= room /\ room \in Nat
    BY <1>3, BlocksForFacts, MulMonotone
  <2>2. done + n <= Len(toks) BY <1>1, <1>6
  <2> HIDE DEF size, room
  <2>3. done + n <= room
    BY <2>1, <2>2, <1>1, <1>2, <1>3, <1>6
  <2>4. status'[s] = "running" => Len(toks) <= room
    BY <2>3, <1>10
  <2>5. status'[s] = "waiting" /\ ~ Incremental => Len(toks) <= room
    BY <2>1, <1>3
  <2>6. status'[s] = "running" => Len(toks) - 1 <= room
    BY <2>1, <2>4, <1>2
  <2>7. status'[s] \in {"waiting", "running"} /\ Len(tokens'[s]) = Len(toks)
        /\ Len(table'[s]) = size
    BY <1>8, <1>10 DEF size
  <2>8. n # 0 BY <1>2
  <2> QED BY <2>1, <2>2, <2>3, <2>4, <2>5, <2>6, <2>7, <2>8, <1>2, <1>6, <1>10,
             CoveredAfter DEF room
<1> QED BY <1>1, <1>9, <1>11, <1>12, IInvFacts, StepKeepsIInv

LEMMA PrefillNextStep ==
  ASSUME IInv, NEW s \in Seqs, NEW n \in 1..MaxLen, PrefillNext(s, n)
  PROVE  IInv'
<1> DEFINE toks == tokens[s]
           done == cached[s]
           k == Missing(table[s], done + n)
           new == Extended(pool, table[s], k)
<1>1. /\ status[s] = "waiting" /\ table[s] # << >> /\ done + n <= Len(toks)
      /\ Incremental => /\ CanMaterialize(pool, table[s], done + n)
                        /\ pool' = new.pool
                        /\ table' = Put(table, s, new.table)
      /\ ~ Incremental => pool' = pool /\ table' = table
      /\ status' = Put(status, s, IF done + n = Len(toks) THEN "running"
                                  ELSE status[s])
      /\ sched' = Put(sched, s, n)
      /\ tokens' = tokens /\ cached' = cached /\ kv' = kv /\ phase' = phase
  BY DEF PrefillNext, Put
<1>2. /\ toks \in Seq(Token) /\ Len(toks) \in Nat /\ Len(toks) > 0 /\ n \in Nat
      /\ n > 0 /\ done \in Nat /\ Len(table[s]) \in Nat
  <2>1. Len(toks) > 0 BY <1>1, IInvFacts DEF Covered
  <2>2. n \in Nat /\ n > 0 BY ManagerAssumption
  <2> QED BY <2>1, <2>2, IInvFacts
<1>3. /\ PoolTyped(pool, Token) /\ Accounts(pool, table, Seqs)
      /\ Indexed(pool, table, cached, Seqs)
      /\ IsFiniteSet(Seqs) /\ table \in [Seqs -> Seq(Block)]
  BY IInvFacts
<1> HIDE DEF toks, done
<1>4. /\ PoolTyped(pool', Token) /\ Accounts(pool', table', Seqs)
      /\ Indexed(pool', table', cached', Seqs)
      /\ table' = Put(table, s, table'[s]) /\ table'[s] \in Seq(Block)
      /\ Len(table'[s]) \in Nat
      /\ done + n <= Len(table'[s]) * BlockSize
      /\ ~ Incremental => Len(toks) <= Len(table'[s]) * BlockSize
  <2>1. CASE Incremental
    <3> DEFINE need == BlocksFor(done + n)
    <3>1. need \in Nat /\ done + n <= need * BlockSize
      <4>1. done + n \in Nat BY <1>2
      <4> QED BY <4>1, BlocksForFacts
    <3>2. /\ k \in 0..Len(pool.free)
          /\ Len(table[s]) + k >= need /\ k \in Nat
      <4>1. Len(pool.free) \in Nat BY <1>3, LenProperties DEF PoolTyped
      <4>2. need - Len(table[s]) <= Len(pool.free)
        BY <2>1, <1>1 DEF CanMaterialize
      <4>3. k = IF need > Len(table[s]) THEN need - Len(table[s]) ELSE 0
        BY DEF Missing
      <4> DEFINE held == Len(table[s])
                 free == Len(pool.free)
      <4>4. held \in Nat /\ free \in Nat /\ need \in Nat
        BY <4>1, <3>1, <1>2
      <4> HIDE DEF k, need, held, free
      <4>5. need - held <= free /\ k = IF need > held THEN need - held ELSE 0
        BY <4>2, <4>3 DEF held, free
      <4>6. k \in 0..free /\ held + k >= need /\ k \in Nat
        BY <4>4, <4>5
      <4> QED BY <4>6 DEF held, free
    <3> HIDE DEF k, need
    <3>3. PoolTyped(new.pool, Token)
      BY <3>2, <1>3, ExtendedFacts
    <3>4. new.table \in Seq(Block)
      BY <3>2, <1>3, ExtendedFacts
    <3>5. Len(new.table) = Len(table[s]) + k
      BY <3>2, <1>3, ExtendedFacts
    <3>6. Accounts(new.pool, Put(table, s, new.table), Seqs)
      BY <3>2, <1>3, ExtendedFacts
    <3>7. Indexed(new.pool, Put(table, s, new.table), cached, Seqs)
      BY <3>2, <1>3, ExtendedFacts
    <3> HIDE DEF new
    <3>8. table' = Put(table, s, new.table) /\ table'[s] = new.table
      BY <2>1, <1>1, <1>3 DEF Put
    <3>9. done + n <= Len(new.table) * BlockSize
      <4> DEFINE size == Len(new.table)
                 x == need * BlockSize
                 y == size * BlockSize
      <4>1. size \in Nat /\ need <= size BY <3>1, <3>2, <3>5, <1>2
      <4> HIDE DEF size
      <4>2. x <= y /\ x \in Nat /\ y \in Nat BY <4>1, <3>1, MulMonotone
      <4>3. done + n <= x BY <3>1
      <4> HIDE DEF x, y
      <4>4. done + n <= y BY <4>2, <4>3, <1>2
      <4> QED BY <4>4 DEF y, size
    <3>10. Len(new.table) \in Nat BY <3>2, <3>5, <1>2
    <3> QED BY <2>1, <1>1, <3>3, <3>4, <3>6, <3>7, <3>8, <3>9, <3>10
  <2>2. CASE ~ Incremental
    <3>1. table' = table /\ pool' = pool /\ cached' = cached BY <2>2, <1>1
    <3>2. table = Put(table, s, table[s]) BY <1>3 DEF Put
    <3>3. Len(toks) <= Len(table[s]) * BlockSize
      BY <2>2, <1>1, IInvFacts DEF Covered, toks
    <3>4. Len(table[s]) * BlockSize \in Nat BY <1>2, MulMonotone
    <3>5. done + n <= Len(table[s]) * BlockSize
      BY <3>3, <3>4, <1>1, <1>2
    <3> QED BY <3>1, <3>2, <3>3, <3>5, <1>2, <1>3
  <2> QED BY <2>1, <2>2
<1>5. /\ status'[s] = IF done + n = Len(toks) THEN "running" ELSE "waiting"
      /\ tokens'[s] = toks /\ cached'[s] = done /\ sched'[s] = n
  BY <1>1, IInvFacts DEF Put, toks, done
<1>6. Others(s) /\ Moved(s)
  <2>1. /\ table' = [r \in Seqs |-> table'[r]]
        /\ \A r \in Seqs \ {s} : table'[r] = table[r]
    BY <1>3, <1>4 DEF Put
  <2> QED BY <1>1, <1>2, <1>4, <2>1, IInvFacts DEF Others, Moved, Put
<1>7. Covered(s)'
  <2> DEFINE size == Len(table'[s])
             room == size * BlockSize
  <2>1. size \in Nat /\ room \in Nat /\ done + n <= room
        /\ (~ Incremental => Len(toks) <= room)
    BY <1>4, MulMonotone
  <2> HIDE DEF room
  <2>2. status'[s] = "running" => Len(toks) <= room
    BY <2>1, <1>5
  <2>3. status'[s] = "running" => Len(toks) - 1 <= room
    BY <2>1, <2>2, <1>2
  <2>4. status'[s] \in {"waiting", "running"} /\ Len(tokens'[s]) = Len(toks)
        /\ Len(table'[s]) = size /\ done + n <= Len(toks)
    BY <1>1, <1>5
  <2>5. n # 0 BY <1>2
  <2> HIDE DEF size
  <2> QED BY <2>1, <2>2, <2>3, <2>4, <2>5, <1>2, <1>5, CoveredAfter DEF room
<1> QED BY <1>1, <1>4, <1>6, <1>7, IInvFacts, StepKeepsIInv

LEMMA DecodeKeepsIInv ==
  ASSUME IInv, NEW s \in Seqs, Decode(s)
  PROVE  IInv'
<1> DEFINE len == Len(tokens[s])
           held == Len(table[s])
           k == AppendNeeds(len)
           new == Extended(pool, table[s], k)
<1>1. /\ status[s] = "running" /\ sched[s] = 0 /\ CanAppend(pool, len)
      /\ pool' = new.pool /\ table' = Put(table, s, new.table)
      /\ sched' = Put(sched, s, 1)
      /\ status' = status /\ tokens' = tokens /\ cached' = cached
      /\ kv' = kv /\ phase' = phase
  BY DEF Decode, Put
<1>2. /\ PoolTyped(pool, Token) /\ Accounts(pool, table, Seqs)
      /\ Indexed(pool, table, cached, Seqs)
      /\ IsFiniteSet(Seqs) /\ table \in [Seqs -> Seq(Block)]
      /\ len \in Nat /\ held \in Nat /\ cached[s] \in Nat
  BY IInvFacts
<1>3. len > 0 /\ len - 1 <= held * BlockSize /\ cached[s] < len
  BY <1>1, IInvFacts DEF Covered
<1> HIDE DEF len
<1>4. k \in 0..Len(pool.free) /\ k \in {0, 1} /\ (len % BlockSize = 1 <=> k = 1)
  <2>1. Len(pool.free) \in Nat BY <1>2, LenProperties DEF PoolTyped
  <2>2. k \in {0, 1} /\ (len % BlockSize = 1 <=> k = 1) /\ Len(pool.free) >= k
    BY <1>1 DEF CanAppend, AppendNeeds
  <2> HIDE DEF k
  <2> QED BY <2>1, <2>2
<1>5. len <= (held + k) * BlockSize
  <2> HIDE DEF held, k
  <2> DEFINE q == len \div BlockSize
             x == q * BlockSize
             y == held * BlockSize
             z == (held + k) * BlockSize
  <2>1. /\ q \in Nat /\ x \in Nat /\ x <= len /\ len < x + BlockSize
        /\ len % BlockSize = len - x
    BY <1>2, DivisionFacts, MulMonotone
  <2>2. y \in Nat /\ (k = 1 => z = y + BlockSize) /\ (k = 0 => z = y)
    <3>1. held \in Nat BY <1>2
    <3>2. y \in Nat /\ (held + 1) * BlockSize = y + BlockSize
      BY <3>1, MulMonotone
    <3>3. held + 0 = held BY <3>1
    <3> QED BY <3>2, <3>3
  <2>3. len - 1 <= y BY <1>3
  <2>4. (q < held => x + BlockSize <= y) /\ (held < q => y + BlockSize <= x)
        /\ (q = held => x = y)
    BY <2>1, <1>2, MulMonotone
  <2> HIDE DEF q, x, y, z
  <2>5. len <= z
    <3>1. CASE k = 1 BY <3>1, <2>2, <2>3, <1>2, PoolAssumption
    <3>2. CASE k = 0
      <4>1. len - x # 1 BY <3>2, <1>4, <2>1
      <4> QED BY <4>1, <3>2, <2>1, <2>2, <2>3, <2>4, <1>2, PoolAssumption
    <3> QED BY <3>1, <3>2, <1>4
  <2> QED BY <2>5 DEF z
<1> HIDE DEF k
<1>6. /\ PoolTyped(new.pool, Token)
      /\ new.table \in Seq(Block) /\ Len(new.table) = held + k
      /\ Accounts(new.pool, Put(table, s, new.table), Seqs)
      /\ Indexed(new.pool, Put(table, s, new.table), cached, Seqs)
  <2>1. PoolTyped(new.pool, Token)
    BY <1>2, <1>4, ExtendedFacts
  <2>2. new.table \in Seq(Block)
    BY <1>2, <1>4, ExtendedFacts
  <2>3. Len(new.table) = held + k
    BY <1>2, <1>4, ExtendedFacts
  <2>4. Accounts(new.pool, Put(table, s, new.table), Seqs)
    BY <1>2, <1>4, ExtendedFacts
  <2>5. Indexed(new.pool, Put(table, s, new.table), cached, Seqs)
    BY <1>2, <1>4, ExtendedFacts
  <2> QED BY <2>1, <2>2, <2>3, <2>4, <2>5
<1> HIDE DEF new, held
<1>7. /\ status'[s] = "running" /\ tokens'[s] = tokens[s] /\ table'[s] = new.table
      /\ cached'[s] = cached[s] /\ sched'[s] = 1
  BY <1>1, IInvFacts DEF Put
<1>8. Others(s) /\ Moved(s)
  BY <1>1, <1>6, IInvFacts DEF Others, Moved, Put
<1>9. Covered(s)'
  <2> DEFINE size == held + k
             room == size * BlockSize
  <2>1. size \in Nat /\ room \in Nat /\ len <= room
    <3>1. size \in Nat BY <1>2, <1>4
    <3> QED BY <3>1, <1>5, MulMonotone
  <2>2. /\ Len(tokens'[s]) = len /\ Len(table'[s]) = size
        /\ status'[s] \in {"waiting", "running"} /\ status'[s] # "waiting"
    BY <1>6, <1>7 DEF len
  <2> HIDE DEF size, room
  <2>3. len - 1 <= room /\ cached[s] + 1 <= len /\ cached[s] + 1 <= room
    BY <2>1, <1>2, <1>3
  <2>4. 1 \in Nat /\ 1 # 0 OBVIOUS
  <2> QED BY <2>1, <2>2, <2>3, <2>4, <1>2, <1>3, <1>7, CoveredAfter DEF room
<1> QED BY <1>1, <1>6, <1>8, <1>9, IInvFacts, StepKeepsIInv

LEMMA RunStep ==
  ASSUME IInv, Run
  PROVE  IInv'
<1>1. /\ pool' = pool /\ status' = status /\ tokens' = tokens /\ table' = table
      /\ cached' = cached /\ sched' = sched /\ phase' = "postprocess"
  BY DEF Run
<1>2. kv' \in [Block -> Seq(Token)]
  <2> DEFINE Writer(b) == CHOOSE s \in Seqs : sched[s] > 0 /\ Writes(s, b)
  <2>1. kv' = [b \in Block |->
                 IF \E s \in Seqs : sched[s] > 0 /\ Writes(s, b)
                 THEN Written(Writer(b), b) ELSE kv[b]]
    BY DEF Run
  <2> SUFFICES ASSUME NEW b \in Block
               PROVE  (IF \E s \in Seqs : sched[s] > 0 /\ Writes(s, b)
                       THEN Written(Writer(b), b) ELSE kv[b]) \in Seq(Token)
    BY <2>1
  <2>2. CASE \E s \in Seqs : sched[s] > 0 /\ Writes(s, b)
    <3>1. /\ Writer(b) \in Seqs /\ sched[Writer(b)] > 0 /\ Writes(Writer(b), b)
      BY <2>2
    <3> HIDE DEF Writer
    <3> DEFINE w == Writer(b)
               i == CHOOSE j \in DOMAIN table[w] : table[w][j] = b
               last == LastWritten(w)
               x == IF i * BlockSize < last THEN i * BlockSize ELSE last
    <3>2. w \in Seqs /\ sched[w] > 0 BY <3>1
    <3> HIDE DEF w
    <3>3. /\ Covered(w) /\ tokens[w] \in Seq(Token) /\ Len(tokens[w]) \in Nat
          /\ table[w] \in Seq(Block) /\ cached[w] \in Nat /\ sched[w] \in Nat
      BY <3>2, IInvFacts
    <3>4. i \in Nat /\ i * BlockSize \in Nat
      <4>1. \E j \in DOMAIN table[w] : table[w][j] = b
        BY <3>1 DEF Writes, w
      <4>2. i \in DOMAIN table[w] BY <4>1
      <4>3. DOMAIN table[w] = 1..Len(table[w]) /\ Len(table[w]) \in Nat
        BY <3>3, LenProperties
      <4> HIDE DEF i
      <4>4. i \in Nat BY <4>2, <4>3
      <4> QED BY <4>4, MulMonotone
    <3>5. last \in Nat /\ last <= Len(tokens[w])
      <4>1. cached[w] + sched[w] <= Len(tokens[w]) BY <3>3 DEF Covered
      <4>2. last = Len(tokens[w]) \/ last = cached[w] + sched[w]
        BY DEF LastWritten
      <4> QED BY <4>1, <4>2, <3>3
    <3> HIDE DEF i, last
    <3>6. x \in Nat /\ x <= Len(tokens[w])
      BY <3>3, <3>4, <3>5
    <3> HIDE DEF x
    <3>7. SubSeq(tokens[w], 1, x) \in Seq(Token)
      <4>1. \A k \in 1..x : tokens[w][k] \in Token
        BY <3>3, <3>6, LenProperties
      <4> QED BY <4>1, <3>6, SubSeqProperties
    <3>8. Written(w, b) = SubSeq(tokens[w], 1, x)
      BY DEF Written, x, i, last
    <3> QED BY <2>2, <3>7, <3>8 DEF w
  <2>3. CASE ~ \E s \in Seqs : sched[s] > 0 /\ Writes(s, b)
    BY <2>3 DEF IInv, TypeOK
  <2> QED BY <2>2, <2>3
<1>3. TypeOK' /\ PoolConsistent' /\ Indexed(pool', table', cached', Seqs)
  BY <1>1, <1>2 DEF IInv, TypeOK, PoolConsistent
<1>4. ASSUME NEW s \in Seqs PROVE Covered(s)'
  BY <1>1 DEF IInv, Covered
<1> QED BY <1>3, <1>4 DEF IInv

(* A step whose scheduled tokens are hashed: the sequence s keeps its      *)
(* table and has computed what it scheduled.                               *)
LEMMA AdvanceFacts ==
  ASSUME IInv, NEW s \in Seqs
  PROVE  LET q == Hashed(pool, tokens[s], table[s], cached[s], sched[s])
         IN  /\ PoolTyped(q, Token) /\ Accounts(q, table, Seqs)
             /\ Indexed(q, table, Put(cached, s, cached[s] + sched[s]), Seqs)
<1> DEFINE d == cached[s]
           n == sched[s]
           toks == tokens[s]
           q == Hashed(pool, toks, table[s], d, n)
<1>1. /\ IsFiniteSet(Seqs) /\ table \in [Seqs -> Seq(Block)]
      /\ DOMAIN cached = Seqs /\ PoolTyped(pool, Token)
      /\ Accounts(pool, table, Seqs) /\ Indexed(pool, table, cached, Seqs)
      /\ toks \in Seq(Token) /\ d \in Nat /\ n \in Nat /\ cached[s] = d
  BY IInvFacts
<1>2. d + n <= Len(table[s]) * BlockSize /\ d + n <= Len(toks)
  BY IInvFacts DEF Covered
<1> HIDE DEF d, n, toks
<1>3. PoolTyped(q, Token) BY <1>1, <1>2, HashedFacts
<1>4. Accounts(q, table, Seqs) BY <1>1, <1>2, HashedFacts
<1>5. Indexed(q, table, Put(cached, s, d + n), Seqs)
  BY <1>1, <1>2, HashedFacts
<1> QED BY <1>3, <1>4, <1>5 DEF d, n, toks

LEMMA ChunkDoneStep ==
  ASSUME IInv, NEW s \in Seqs, ChunkDone(s)
  PROVE  IInv'
<1> DEFINE d == cached[s]
           n == sched[s]
           len == Len(tokens[s])
           size == Len(table[s])
           q == Hashed(pool, tokens[s], table[s], cached[s], sched[s])
<1>1. /\ pool' = q /\ cached' = Put(cached, s, d + n) /\ sched' = Put(sched, s, 0)
      /\ status' = status /\ tokens' = tokens /\ table' = table /\ kv' = kv
      /\ status[s] = "waiting"
      /\ (phase' = phase \/ phase' = "schedule")
  BY IInvFacts DEF ChunkDone, Advance, Put
<1>2. /\ PoolTyped(pool', Token) /\ Accounts(pool', table', Seqs)
      /\ Indexed(pool', table', cached', Seqs)
  <2>1. PoolTyped(q, Token) /\ Accounts(q, table, Seqs)
        /\ Indexed(q, table, Put(cached, s, d + n), Seqs)
    BY AdvanceFacts
  <2> HIDE DEF q, d, n
  <2> QED BY <1>1, <2>1
<1> HIDE DEF q
<1>3. d \in Nat /\ n \in Nat /\ len \in Nat /\ size \in Nat /\ d + n \in Nat
  BY IInvFacts
<1>4. Others(s) /\ Moved(s)
  BY <1>1, <1>3, IInvFacts DEF Others, Moved, Put
<1>5. Covered(s)'
  <2>1. /\ len > 0 /\ d + n <= len /\ d + n <= size * BlockSize
        /\ ~ Incremental /\ table[s] # << >> => len <= size * BlockSize
    BY <1>1, IInvFacts DEF Covered
  <2>2. /\ status'[s] = "waiting" /\ tokens'[s] = tokens[s]
        /\ table'[s] = table[s] /\ cached'[s] = d + n /\ sched'[s] = 0
    BY <1>1, IInvFacts DEF Put
  <2> DEFINE new == d + n
  <2>3. new \in Nat /\ new + 0 = new /\ cached'[s] = new
    BY <1>3, <2>2
  <2>4. new <= len /\ new <= size * BlockSize BY <2>1
  <2>5. Len(tokens'[s]) = len /\ Len(table'[s]) = size BY <2>2
  <2>6. ~ Incremental /\ table'[s] # << >> => len <= size * BlockSize
    BY <2>1, <2>2
  <2> HIDE DEF new, len, size
  <2> QED BY <1>3, <2>1, <2>2, <2>3, <2>4, <2>5, <2>6, CoveredAfter
<1>6. kv' \in [Block -> Seq(Token)] /\ phase' \in {"schedule", "postprocess"}
  BY <1>1, IInvFacts
<1> QED BY <1>2, <1>4, <1>5, <1>6, StepKeepsIInv

LEMMA TokenDoneStep ==
  ASSUME IInv, NEW s \in Seqs, NEW t \in Token, TokenDone(s, t)
  PROVE  IInv'
<1> DEFINE d == cached[s]
           n == sched[s]
           len == Len(tokens[s])
           size == Len(table[s])
           room == size * BlockSize
           q == Hashed(pool, tokens[s], table[s], cached[s], sched[s])
<1>1. /\ pool' = q /\ cached' = Put(cached, s, d + n) /\ sched' = Put(sched, s, 0)
      /\ tokens' = Put(tokens, s, Append(tokens[s], t))
      /\ status' = status /\ table' = table /\ kv' = kv
      /\ status[s] = "running" /\ n > 0
      /\ (phase' = phase \/ phase' = "schedule")
  BY IInvFacts DEF TokenDone, Advance, Put
<1>2. /\ PoolTyped(pool', Token) /\ Accounts(pool', table', Seqs)
      /\ Indexed(pool', table', cached', Seqs)
  <2>1. PoolTyped(q, Token) /\ Accounts(q, table, Seqs)
        /\ Indexed(q, table, Put(cached, s, d + n), Seqs)
    BY AdvanceFacts
  <2> HIDE DEF q, d, n
  <2> QED BY <1>1, <2>1
<1> HIDE DEF q
<1>3. d \in Nat /\ n \in Nat /\ len \in Nat /\ size \in Nat /\ d + n \in Nat
      /\ room \in Nat /\ tokens[s] \in Seq(Token)
  BY IInvFacts
<1>4. Append(tokens[s], t) \in Seq(Token) /\ Len(Append(tokens[s], t)) = len + 1
  BY <1>3, AppendProperties
<1>5. Others(s) /\ Moved(s)
  BY <1>1, <1>3, <1>4, IInvFacts DEF Others, Moved, Put
<1>6. Covered(s)'
  <2>1. len > 0 /\ d + n <= len /\ d + n <= room /\ len <= room
    BY <1>1, IInvFacts DEF Covered
  <2>2. /\ status'[s] = "running" /\ Len(tokens'[s]) = len + 1
        /\ Len(table'[s]) = size /\ cached'[s] = d + n /\ sched'[s] = 0
    BY <1>1, <1>4, IInvFacts DEF Put
  <2> DEFINE new == d + n
             len1 == len + 1
  <2>3. new \in Nat /\ new + 0 = new /\ cached'[s] = new
    BY <1>3, <2>2
  <2>4. len1 \in Nat /\ len1 > 0 /\ Len(tokens'[s]) = len1 /\ new <= len1
        /\ new < len1 /\ len1 - 1 <= room /\ new <= room
    BY <1>3, <2>1, <2>2
  <2> HIDE DEF new, len1, len, room
  <2>5. new <= size * BlockSize /\ len1 - 1 <= size * BlockSize
    BY <2>4 DEF room
  <2> HIDE DEF size
  <2>6. new + 0 <= len1 /\ new + 0 <= size * BlockSize
    BY <2>3, <2>4, <2>5
  <2>7. /\ status'[s] \in {"waiting", "running"} /\ status'[s] # "waiting"
        /\ Len(table'[s]) = size /\ size \in Nat /\ 0 \in Nat
        /\ ~ (0 > 0)
    BY <1>3, <2>2
  <2> QED BY <2>2, <2>3, <2>4, <2>5, <2>6, <2>7, CoveredAfter
<1>7. kv' \in [Block -> Seq(Token)] /\ phase' \in {"schedule", "postprocess"}
  BY <1>1, IInvFacts
<1> QED BY <1>2, <1>5, <1>6, <1>7, StepKeepsIInv

(* An idle sequence holds nothing.                                         *)
LEMMA CoveredIdle ==
  ASSUME NEW s \in Seqs, status'[s] = "idle", table'[s] = << >>,
         tokens'[s] = << >>, cached'[s] = 0, sched'[s] = 0
  PROVE  Covered(s)'
<1>1. 0 * BlockSize = 0 /\ 0 + 0 <= 0 BY PoolAssumption
<1> QED BY <1>1, EmptyTable DEF Covered

LEMMA FinishStep ==
  ASSUME IInv, NEW s \in Seqs, Finish(s)
  PROVE  IInv'
<1> DEFINE computed == Put(cached, s, cached[s] + sched[s])
           q == Hashed(pool, tokens[s], table[s], cached[s], sched[s])
<1>1. /\ pool' = Deallocated(q, table[s])
      /\ cached' = Put(cached, s, 0) /\ sched' = Put(sched, s, 0)
      /\ tokens' = Put(tokens, s, << >>) /\ table' = Put(table, s, << >>)
      /\ status' = Put(status, s, "idle") /\ kv' = kv
      /\ (phase' = phase \/ phase' = "schedule")
  BY IInvFacts DEF Finish, Advance, Put
<1>2. IsFiniteSet(Seqs) /\ table \in [Seqs -> Seq(Block)]
      /\ cached \in [Seqs -> Nat]
  BY IInvFacts
<1>3. /\ PoolTyped(q, Token) /\ Accounts(q, table, Seqs)
      /\ Indexed(q, table, computed, Seqs)
  BY AdvanceFacts
<1>4. DOMAIN computed = Seqs /\ Put(computed, s, 0) = Put(cached, s, 0)
  BY <1>2 DEF Put
<1> HIDE DEF q, computed
<1>5. /\ PoolTyped(pool', Token) /\ Accounts(pool', table', Seqs)
      /\ Indexed(pool', table', cached', Seqs)
  <2> DEFINE e == Deallocated(q, table[s])
  <2>1. PoolTyped(e, Token) BY <1>2, <1>3, <1>4, DeallocatedFacts
  <2>2. Accounts(e, Put(table, s, << >>), Seqs)
    BY <1>2, <1>3, <1>4, DeallocatedFacts
  <2>3. Indexed(e, Put(table, s, << >>), Put(computed, s, 0), Seqs)
    BY <1>2, <1>3, <1>4, DeallocatedFacts
  <2> HIDE DEF e
  <2>4. pool' = e BY <1>1 DEF e
  <2> QED BY <2>1, <2>2, <2>3, <2>4, <1>1, <1>4
<1>6. Others(s) /\ Moved(s)
  <2>1. /\ << >> \in Seq(Token) /\ << >> \in Seq(Block) /\ 0 \in Nat
        /\ status \in [Seqs -> {"idle", "waiting", "running"}]
        /\ tokens \in [Seqs -> Seq(Token)] /\ table \in [Seqs -> Seq(Block)]
        /\ cached \in [Seqs -> Nat] /\ sched \in [Seqs -> Nat]
    BY EmptyTable, IInvFacts
  <2>2. Others(s) BY <1>1, <2>1 DEF Others, Put
  <2>3. Moved(s) BY <1>1, <2>1 DEF Moved, Put
  <2> QED BY <2>2, <2>3
<1>7. Covered(s)'
  <2>1. /\ status'[s] = "idle" /\ table'[s] = << >> /\ tokens'[s] = << >>
        /\ cached'[s] = 0 /\ sched'[s] = 0
    BY <1>1, IInvFacts DEF Put
  <2> QED BY <2>1, CoveredIdle
<1>8. kv' \in [Block -> Seq(Token)] /\ phase' \in {"schedule", "postprocess"}
  BY <1>1, IInvFacts
<1> QED BY <1>5, <1>6, <1>7, <1>8, StepKeepsIInv

(* A block of an imported sequence holds a part of the transferred prompt. *)
LEMMA PayloadFacts ==
  ASSUME NEW prompt \in Seq(Token), NEW i \in Nat
  PROVE  SubSeq(prompt, 1, IF i * BlockSize < Len(prompt)
                           THEN i * BlockSize ELSE Len(prompt)) \in Seq(Token)
<1> DEFINE x == IF i * BlockSize < Len(prompt) THEN i * BlockSize ELSE Len(prompt)
<1>1. Len(prompt) \in Nat /\ DOMAIN prompt = 1..Len(prompt)
  BY LenProperties
<1>2. i * BlockSize \in Nat BY MulMonotone
<1>3. x \in Nat /\ x <= Len(prompt)
  BY <1>1, <1>2
<1> HIDE DEF x
<1>4. \A k \in 1..x : prompt[k] \in Token
  BY <1>1, <1>3
<1>5. SubSeq(prompt, 1, x) \in Seq(Token)
  BY <1>3, <1>4, SubSeqProperties
<1> QED BY <1>5 DEF x

(* An import matches no prefix, and the free blocks cover it.              *)
LEMMA FreshFits ==
  ASSUME NEW p, PoolTyped(p, Token), Accounts(p, table, Seqs),
         NEW toks \in Seq(Token), NEW size \in Nat, Len(p.free) >= size
  PROVE  /\ InCache(p, toks, 0) /\ 0 * BlockSize = 0
         /\ size - 0 <= Len(ShareCached(p, Cached(p, toks, 0)).free)
<1> DEFINE kept == Keep(p.free, Block \ {})
           length == Len(p.free)
<1>1. InCache(p, toks, 0) /\ 0 * BlockSize = 0
  <2>1. 0 * BlockSize = 0 /\ 1..0 = {} BY PoolAssumption
  <2> QED BY <2>1, LenProperties DEF InCache
<1>2. ShareCached(p, Cached(p, toks, 0)).free = kept
  <2>1. Cached(p, toks, 0) = {} BY DEF Cached
  <2>2. ShareCached(p, {}).free = kept BY DEF ShareCached
  <2> QED BY <2>1, <2>2
<1>3. p.free \in Seq(Block) /\ Distinct(p.free) /\ Elems(p.free) \subseteq Block
  BY DEF PoolTyped, Accounts
<1>4. kept \in Seq(Block) /\ Elems(kept) = Elems(p.free) /\ Distinct(kept)
  <2>1. /\ kept \in Seq(Block) /\ Distinct(kept)
        /\ Elems(kept) = Elems(p.free) \cap (Block \ {})
    <3> DEFINE all == Block \ {}
    <3> HIDE DEF all
    <3>1. /\ Keep(p.free, all) \in Seq(Block) /\ Distinct(Keep(p.free, all))
          /\ Elems(Keep(p.free, all)) = Elems(p.free) \cap all
      BY <1>3, KeepFacts
    <3> QED BY <3>1 DEF all
  <2> QED BY <1>3, <2>1
<1> HIDE DEF kept
<1>5. Len(kept) = length
  BY <1>3, <1>4, DistinctLen
<1>6. length \in Nat
  BY <1>3, LenProperties
<1> HIDE DEF length
<1>7. size - 0 <= Len(kept)
  BY <1>5, <1>6 DEF length
<1> QED BY <1>1, <1>2, <1>7

LEMMA ImportDecodeStep ==
  ASSUME IInv, NEW s \in Seqs, NEW prompt \in Prompts, NEW t \in Token,
         ImportDecode(s, prompt, t)
  PROVE  IInv'
<1> DEFINE m == Len(prompt)
           toks == Append(prompt, t)
           new == Allocated(pool, toks, 0, m)
           size == BlocksFor(m)
           room == size * BlockSize
<1>1. /\ status[s] = "idle" /\ Len(pool.free) >= size
      /\ pool' = new.pool /\ table' = Put(table, s, new.table)
      /\ status' = Put(status, s, "running") /\ tokens' = Put(tokens, s, toks)
      /\ cached' = cached /\ sched' = sched /\ phase' = phase
  BY DEF ImportDecode, Put
<1>2. /\ prompt \in Seq(Token) /\ m \in Nat /\ m > 0
      /\ toks \in Seq(Token) /\ Len(toks) = m + 1
  <2>1. prompt \in Seq(Token) /\ Len(prompt) > 0 BY ManagerAssumption
  <2> QED BY <2>1, LenProperties, AppendProperties
<1>3. /\ PoolTyped(pool, Token) /\ Accounts(pool, table, Seqs)
      /\ Indexed(pool, table, cached, Seqs)
      /\ IsFiniteSet(Seqs) /\ table \in [Seqs -> Seq(Block)]
      /\ DOMAIN cached = Seqs /\ cached \in [Seqs -> Nat]
  BY IInvFacts
<1>4. table[s] = << >> /\ cached[s] = 0 /\ sched[s] = 0
  BY <1>1, IInvFacts DEF Covered
<1>5. HasNoBlocks(table, s)
  BY <1>4, EmptyTable DEF HasNoBlocks
<1>6. size \in Nat /\ room \in Nat /\ m <= room
  BY <1>2, BlocksForFacts, MulMonotone
<1>7. InCache(pool, toks, 0) /\ 0 * BlockSize = 0
      /\ size - 0 <= Len(ShareCached(pool, Cached(pool, toks, 0)).free)
  <2> HIDE DEF toks, size
  <2> QED BY <1>1, <1>2, <1>3, <1>6, FreshFits
<1>9. Put(cached, s, 0 * BlockSize) = cached
  BY <1>3, <1>4, <1>7 DEF Put
<1>10. 0 <= BlocksFor(m)
  BY <1>6
<1> HIDE DEF m, toks
<1>11. PoolTyped(new.pool, Token)
  BY <1>2, <1>3, <1>5, <1>7, <1>10, AllocatedFacts DEF size
<1>12. new.table \in Seq(Block)
  BY <1>2, <1>3, <1>5, <1>7, <1>10, AllocatedFacts DEF size
<1>13. Len(new.table) = size
  BY <1>2, <1>3, <1>5, <1>7, <1>10, AllocatedFacts DEF size
<1>14. Accounts(new.pool, Put(table, s, new.table), Seqs)
  BY <1>2, <1>3, <1>5, <1>7, <1>10, AllocatedFacts DEF size
<1>15. Indexed(new.pool, Put(table, s, new.table), cached, Seqs)
  <2>1. Indexed(new.pool, Put(table, s, new.table),
                Put(cached, s, 0 * BlockSize), Seqs)
    BY <1>2, <1>3, <1>5, <1>7, <1>10, AllocatedFacts DEF size
  <2> QED BY <2>1, <1>9
<1>16. kv' \in [Block -> Seq(Token)]
  <2> DEFINE Payload(i) == SubSeq(prompt, 1, IF i * BlockSize < Len(prompt)
                                             THEN i * BlockSize ELSE Len(prompt))
             At(b) == CHOOSE j \in DOMAIN new.table : new.table[j] = b
  <2>1. kv' = [b \in Block |-> IF \E i \in DOMAIN new.table : new.table[i] = b
                               THEN Payload(At(b)) ELSE kv[b]]
    BY DEF ImportDecode, m, toks
  <2>2. DOMAIN new.table = 1..Len(new.table) /\ Len(new.table) \in Nat
    BY <1>12, LenProperties
  <2>3. \A i \in Nat : Payload(i) \in Seq(Token)
    BY <1>2, PayloadFacts
  <2> HIDE DEF Payload, new
  <2> SUFFICES ASSUME NEW b \in Block
               PROVE  (IF \E i \in DOMAIN new.table : new.table[i] = b
                       THEN Payload(At(b)) ELSE kv[b]) \in Seq(Token)
    BY <2>1
  <2>4. CASE \E i \in DOMAIN new.table : new.table[i] = b
    <3>1. At(b) \in DOMAIN new.table BY <2>4
    <3> HIDE DEF At
    <3>2. At(b) \in Nat BY <3>1, <2>2
    <3> QED BY <2>3, <2>4, <3>2
  <2>5. CASE ~ \E i \in DOMAIN new.table : new.table[i] = b
    BY <2>5, IInvFacts
  <2> QED BY <2>4, <2>5
<1> HIDE DEF new, size, room
<1>17. /\ PoolTyped(pool', Token) /\ Accounts(pool', table', Seqs)
       /\ Indexed(pool', table', cached', Seqs)
  BY <1>1, <1>11, <1>14, <1>15
<1>18. Others(s) /\ Moved(s)
  <2>1. /\ status \in [Seqs -> {"idle", "waiting", "running"}]
        /\ tokens \in [Seqs -> Seq(Token)]
        /\ cached \in [Seqs -> Nat] /\ sched \in [Seqs -> Nat]
    BY IInvFacts
  <2>2. Others(s) BY <1>1, <1>3, <2>1 DEF Others, Put
  <2>3. Moved(s) BY <1>1, <1>2, <1>3, <1>12, <2>1 DEF Moved, Put
  <2> QED BY <2>2, <2>3
<1>19. Covered(s)'
  <2> DEFINE len == m + 1
  <2>1. /\ status'[s] = "running" /\ Len(tokens'[s]) = len
        /\ Len(table'[s]) = size /\ cached'[s] = 0 /\ sched'[s] = 0
    BY <1>1, <1>2, <1>3, <1>4, <1>13, IInvFacts DEF Put
  <2>2. /\ len \in Nat /\ len > 0 /\ 0 + 0 <= len /\ 0 + 0 <= room
        /\ len - 1 <= room /\ 0 < len
    BY <1>2, <1>6
  <2> HIDE DEF len
  <2>3. len - 1 <= size * BlockSize /\ 0 + 0 <= size * BlockSize
    BY <2>2 DEF room
  <2> QED BY <1>6, <2>1, <2>2, <2>3, CoveredAfter
<1> QED BY <1>1, <1>16, <1>17, <1>18, <1>19, IInvFacts, StepKeepsIInv

---------------------------------------------------------------------------
(* The invariant and what it gives.                                        *)

LEMMA NextKeepsIInv ==
  IInv /\ [Next]_vars => IInv'
<1> SUFFICES ASSUME IInv, [Next]_vars PROVE IInv'
  OBVIOUS
<1>1. ASSUME NEW s \in Seqs, NEW prompt \in Prompts, AddRequest(s, prompt)
      PROVE  IInv'
  BY <1>1, AddRequestStep
<1>2. ASSUME NEW s \in Seqs, NEW n \in 1..MaxLen, PrefillFirst(s, n)
      PROVE  IInv'
  BY <1>2, PrefillFirstStep
<1>3. ASSUME NEW s \in Seqs, NEW n \in 1..MaxLen, PrefillNext(s, n)
      PROVE  IInv'
  BY <1>3, PrefillNextStep
<1>4. ASSUME NEW s \in Seqs, Decode(s) PROVE IInv'
  BY <1>4, DecodeKeepsIInv
<1>5. ASSUME NEW s \in Seqs, Preempt(s) PROVE IInv'
  BY <1>5, PreemptStep
<1>6. ASSUME NEW s \in Seqs, ChunkDone(s) PROVE IInv'
  BY <1>6, ChunkDoneStep
<1>7. ASSUME NEW s \in Seqs, NEW t \in Token, TokenDone(s, t) PROVE IInv'
  BY <1>7, TokenDoneStep
<1>8. ASSUME NEW s \in Seqs, Finish(s) PROVE IInv'
  BY <1>8, FinishStep
<1>9. ASSUME NEW s \in Seqs, NEW prompt \in Prompts, NEW t \in Token,
             ImportDecode(s, prompt, t)
      PROVE  IInv'
  BY <1>9, ImportDecodeStep
<1>10. CASE Run
  BY <1>10, RunStep
<1>11. CASE UNCHANGED vars
  BY <1>11 DEF vars, IInv, TypeOK, PoolConsistent, Covered
<1> QED BY <1>1, <1>2, <1>3, <1>4, <1>5, <1>6, <1>7, <1>8, <1>9, <1>10, <1>11
        DEF Next

(* However requests arrive, are scheduled, preempted, finished or imported,*)
(* the block accounts, the cache index and the tables stay consistent.     *)
THEOREM AccountsInvariant ==
  Spec => []IInv
<1> QED BY InitIInv, NextKeepsIInv, PTL DEF Spec

(* Every field of the block manager and of the sequences keeps its type.   *)
THEOREM TypeCorrect ==
  Spec => []TypeOK
<1>1. IInv => TypeOK
  BY DEF IInv
<1> QED BY <1>1, AccountsInvariant, PTL

(* No block is leaked, freed twice or held without being counted: reference*)
(* counts equal the tables that hold the block, and the free deque and the *)
(* used set partition the blocks (_allocate_block, _deallocate_block).     *)
THEOREM BlocksConserved ==
  Spec => []PoolConsistent
<1>1. IInv => PoolConsistent
  BY DEF IInv
<1> QED BY <1>1, AccountsInvariant, PTL

LEMMA IInvAdmits ==
  IInv => AdmittedAllocationFits
<1> SUFFICES ASSUME IInv, NEW s \in Seqs, status[s] = "waiting",
                    table[s] = << >>, NEW m \in 1..Len(tokens[s]),
                    CanAllocate(pool, tokens[s], m) # -1
             PROVE  BlocksFor(m) - CanAllocate(pool, tokens[s], m)
                      <= Len(ShareCached(pool,
                               Cached(pool, tokens[s],
                                      CanAllocate(pool, tokens[s], m))).free)
  BY DEF AdmittedAllocationFits
<1>1. /\ tokens[s] \in Seq(Token) /\ Len(tokens[s]) > 0 /\ m \in Nat
      /\ PoolTyped(pool, Token)
  <2>1. Len(tokens[s]) > 0 BY IInvFacts DEF Covered
  <2>2. Len(tokens[s]) \in Nat BY IInvFacts
  <2>3. m \in Nat BY <2>2
  <2> QED BY <2>1, <2>3, IInvFacts
<1>2. /\ \A h \in DOMAIN pool.map : pool.hash[pool.map[h]] = h /\ h # Root
      /\ Distinct(pool.free) /\ Elems(pool.free) = Block \ pool.used
  BY IInvFacts DEF Indexed, Accounts
<1> QED BY <1>1, <1>2, CanAllocateFacts

(* When can_allocate admits a sequence, allocate never pops an empty deque.*)
THEOREM AdmissionSound ==
  Spec => []AdmittedAllocationFits
<1> QED BY IInvAdmits, AccountsInvariant, PTL

---------------------------------------------------------------------------
(* What the operations of the pool do to the hashes of blocks.           *)

(* The hashes of the blocks in a table stay; no hash changes but to Root.*)
HeldKept(p, q, tab, Owners) ==
  \A r \in Owners : \A b \in Elems(tab[r]) : q.hash[b] = p.hash[b]
OnlyReset(p, q) == \A b \in Block : q.hash[b] \in {p.hash[b], Root}
StartsWith(t, u) == \A i \in 1..Len(u) : t[i] = u[i]

(* materialize() and may_append() take blocks nobody holds: the hashes of*)
(* the blocks in a table stay, others can only be reset, and the table   *)
(* keeps its blocks in their places.                                     *)
LEMMA ExtendedKeeps ==
  ASSUME NEW Symbols, NEW Owners, IsFiniteSet(Owners),
         NEW tab \in [Owners -> Seq(Block)], NEW s \in Owners,
         NEW p, PoolTyped(p, Symbols), Accounts(p, tab, Owners),
         NEW n \in 0..Len(p.free), NEW new, new = Extended(p, tab[s], n)
  PROVE  /\ HeldKept(p, new.pool, tab, Owners) /\ OnlyReset(p, new.pool)
         /\ StartsWith(new.table, tab[s])
<1> DEFINE q == PopFree(p, n)
           fresh == SubSeq(p.free, 1, n)
           t == tab[s] \o fresh
<1>1. /\ p.free \in Seq(Block) /\ Elems(p.free) = Block \ p.used
      /\ tab[s] \in Seq(Block) /\ n \in Nat /\ n <= Len(p.free) /\ Len(p.free) \in Nat
      /\ \A i \in 1..Len(p.free) : p.free[i] \in Block
  BY LenProperties DEF PoolTyped, Accounts
<1>2. Popped(p, n) \subseteq Block \ p.used
  <2>1. Popped(p, n) \subseteq Elems(p.free) BY <1>1 DEF Popped, Elems
  <2> QED BY <1>1, <2>1
<1>3. ASSUME NEW r \in Owners, NEW b \in Elems(tab[r]) PROVE b \in Block /\ b \in p.used
  <2>1. tab[r] \in Seq(Block) OBVIOUS
  <2>2. b \in Block BY <2>1, LenProperties DEF Elems
  <2>3. p.ref[b] > 0 BY <2>1, <2>2, HoldersFacts DEF Accounts
  <2> QED BY <2>2, <2>3 DEF Accounts
<1>4. q.hash = [b \in Block |-> IF b \in Popped(p, n) THEN Root ELSE p.hash[b]]
  BY DEF PopFree
<1>5. fresh \in Seq(Block)
  <2>1. \A i \in 1..n : p.free[i] \in Block BY <1>1
  <2> QED BY <1>1, <2>1, SubSeqProperties
<1>6. StartsWith(t, tab[s])
  <2> HIDE DEF fresh
  <2>1. Len(tab[s]) \in Nat /\ Len(fresh) \in Nat BY <1>1, <1>5, LenProperties
  <2> QED BY <1>1, <1>5, <2>1, ConcatProperties DEF StartsWith
<1> HIDE DEF q, t
<1>7. HeldKept(p, q, tab, Owners)
  BY <1>2, <1>3, <1>4 DEF HeldKept
<1>8. OnlyReset(p, q)
  BY <1>4 DEF OnlyReset
<1>9. new = [pool |-> q, table |-> t]
  BY DEF Extended, q, t
<1> QED BY <1>6, <1>7, <1>8, <1>9

(* allocate(): the reused blocks carry the hashes of the prefix they were*)
(* found for.                                                            *)
LEMMA AllocatedKeeps ==
  ASSUME NEW Symbols, NEW Owners, IsFiniteSet(Owners),
         NEW tab \in [Owners -> Seq(Block)],
         NEW done, DOMAIN done = Owners,
         NEW s \in Owners, HasNoBlocks(tab, s),
         NEW p, PoolTyped(p, Symbols), Accounts(p, tab, Owners),
         Indexed(p, tab, done, Owners),
         NEW toks \in Seq(Symbols), NEW c, InCache(p, toks, c),
         NEW m \in Nat, c <= BlocksFor(m),
         BlocksFor(m) - c <= Len(ShareCached(p, Cached(p, toks, c)).free),
         NEW new, new = Allocated(p, toks, c, m)
  PROVE  /\ HeldKept(p, new.pool, tab, Owners) /\ OnlyReset(p, new.pool)
         /\ \A i \in 1..c : new.pool.hash[new.table[i]] = Chain(toks, i)
<1> DEFINE q == ShareCached(p, Cached(p, toks, c))
           t == CachedTable(p, toks, c)
           tab1 == Put(tab, s, t)
           n == BlocksFor(m) - c
<1>1. /\ PoolTyped(q, Symbols) /\ t \in Seq(Block) /\ Len(t) = c /\ Accounts(q, tab1, Owners)
  BY ShareFacts
<1>2. n \in 0..Len(q.free) /\ c \in Nat /\ BlocksFor(m) \in Nat
  <2>1. BlocksFor(m) \in Nat BY BlocksForFacts
  <2>2. Len(q.free) \in Nat BY <1>1, LenProperties DEF PoolTyped
  <2> HIDE DEF q
  <2> QED BY <2>1, <2>2 DEF InCache, q
<1>3. tab1 \in [Owners -> Seq(Block)] /\ tab1[s] = t /\ \A r \in Owners \ {s} : tab1[r] = tab[r]
  BY <1>1 DEF Put
<1>4. new = Extended(q, tab1[s], n)
  <2>1. n = IF BlocksFor(m) > c THEN BlocksFor(m) - c ELSE 0
    BY <1>2
  <2> HIDE DEF n, q
  <2> QED BY <2>1, <1>3 DEF Allocated, q
<1>5. q.hash = p.hash
  BY DEF ShareCached
<1>6. \A i \in 1..c : t[i] = p.map[Chain(toks, i)]
  BY DEF CachedTable
<1>7. \A i \in 1..c : p.hash[t[i]] = Chain(toks, i)
  BY <1>6 DEF InCache, Indexed
<1> HIDE DEF q, t, n, tab1
<1>8. /\ HeldKept(q, new.pool, tab1, Owners) /\ OnlyReset(q, new.pool)
      /\ StartsWith(new.table, tab1[s])
  BY <1>1, <1>2, <1>3, <1>4, ExtendedKeeps
<1>9. ASSUME NEW i \in 1..c PROVE new.pool.hash[new.table[i]] = Chain(toks, i)
  <2>1. t[i] \in Elems(t) /\ new.table[i] = t[i] BY <1>1, <1>3, <1>8 DEF Elems, StartsWith
  <2> QED BY <2>1, <1>3, <1>5, <1>7, <1>8 DEF HeldKept
<1>10. HeldKept(p, new.pool, tab, Owners)
  <2> SUFFICES ASSUME NEW r \in Owners, NEW b \in Elems(tab[r]) PROVE new.pool.hash[b] = p.hash[b]
    BY DEF HeldKept
  <2>1. r # s BY DEF HasNoBlocks
  <2> QED BY <2>1, <1>3, <1>5, <1>8 DEF HeldKept
<1>11. OnlyReset(p, new.pool)
  BY <1>5, <1>8 DEF OnlyReset
<1> QED BY <1>11,  <1>5, <1>8, <1>9, <1>10

(* The first k blocks of a table carry the hashes of its tokens.         *)
Computed(p, toks, t, k) == \A i \in 1..k : p.hash[t[i]] = Chain(toks, i)

(* The hashes of the blocks that sequences other than s hold stay.       *)
ElsewhereKept(p, q, tab, Owners, s) ==
  \A r \in Owners \ {s} : \A b \in Elems(tab[r]) : q.hash[b] = p.hash[b]

(* Only the blocks from lo to hi of a table get another hash, their own. *)
OnlyHashed(p, q, toks, t, lo, hi) ==
  \A b \in Block : \/ q.hash[b] = p.hash[b]
                   \/ \E i \in lo..hi : b = t[i] /\ q.hash[b] = Chain(toks, i)

(* A chained hash closes the prefix up to its block: the prefix of the   *)
(* first blocks and the tokens behind them make the longer prefix.       *)
LEMMA ChainExtends ==
  ASSUME NEW Symbols, NEW toks \in Seq(Symbols), NEW i \in Nat, NEW j \in Nat,
         i <= j, j * BlockSize <= Len(toks)
  PROVE  Chain(toks, i) \o SubSeq(toks, i * BlockSize + 1, j * BlockSize) = Chain(toks, j)
<1> DEFINE lo == i * BlockSize
           hi == j * BlockSize
<1>1. lo \in Nat /\ hi \in Nat /\ lo <= hi /\ Len(toks) \in Nat /\ hi <= Len(toks)
  BY MulMonotone, LenProperties
<1> HIDE DEF lo, hi
<1>2. 1 \in 1..(Len(toks) + 1) /\ lo \in (1 - 1)..Len(toks) /\ hi \in lo..Len(toks)
  BY <1>1
<1>3. SubSeq(toks, 1, lo) \o SubSeq(toks, lo + 1, hi) = SubSeq(toks, 1, hi)
  BY <1>2, ConcatAdjacentSubSeq
<1> QED BY <1>3 DEF Chain, lo, hi

(* hash_blocks(): the blocks that d + n tokens close carry their hashes, *)
(* and no other block gets another one.                                  *)
LEMMA HashedKeeps ==
  ASSUME NEW Symbols, NEW Owners, IsFiniteSet(Owners),
         NEW tab \in [Owners -> Seq(Block)],
         NEW done, DOMAIN done = Owners, NEW s \in Owners,
         NEW p, PoolTyped(p, Symbols), Accounts(p, tab, Owners),
         Indexed(p, tab, done, Owners),
         NEW toks \in Seq(Symbols), NEW d \in Nat, done[s] = d, NEW n \in Nat,
         d + n <= Len(tab[s]) * BlockSize, d + n <= Len(toks),
         Computed(p, toks, tab[s], d \div BlockSize),
         NEW q, q = Hashed(p, toks, tab[s], d, n)
  PROVE  /\ Computed(q, toks, tab[s], (d + n) \div BlockSize)
         /\ OnlyHashed(p, q, toks, tab[s], d \div BlockSize + 1, (d + n) \div BlockSize)
         /\ ElsewhereKept(p, q, tab, Owners, s)
<1> DEFINE tbl == tab[s]
           start == d \div BlockSize
           end == (d + n) \div BlockSize
           prefix == IF start = 0 THEN Root ELSE p.hash[tbl[start]]
           H(i) == ComputeHash(SubSeq(toks, start * BlockSize + 1, i * BlockSize),
                               prefix)
           new == (start + 1)..end
           At(b) == CHOOSE i \in new : tbl[i] = b
<1>1. /\ tbl \in Seq(Block) /\ Distinct(tbl)
      /\ Len(tbl) \in Nat /\ DOMAIN tbl = 1..Len(tbl)
      /\ \A i \in 1..Len(tbl) : tbl[i] \in Block
      /\ Len(toks) \in Nat
  BY LenProperties DEF Accounts
<1>2. /\ start \in Nat /\ end \in Nat /\ start <= end
      /\ end * BlockSize <= d + n /\ end * BlockSize \in Nat
  <2>1. start \in Nat BY DivisionFacts
  <2>2. d + n \in Nat /\ d <= d + n OBVIOUS
  <2>3. end \in Nat /\ end * BlockSize <= d + n BY <2>2, DivisionFacts
  <2>4. start <= end BY <2>2, DivisionMonotone
  <2> HIDE DEF start, end
  <2>5. end * BlockSize \in Nat BY <2>3, MulMonotone
  <2> QED BY <2>1, <2>3, <2>4, <2>5
<1>3. end <= Len(tbl)
  <2> HIDE DEF start, end, tbl
  <2>1. end * BlockSize <= Len(tbl) * BlockSize
    <3>1. Len(tbl) * BlockSize \in Nat BY <1>1, MulMonotone
    <3> QED BY <3>1, <1>2 DEF tbl
  <2> QED BY <2>1, <1>1, <1>2, MulCancel
<1>4. q.hash = [b \in Block |-> IF \E i \in new : tbl[i] = b
                               THEN H(At(b)) ELSE p.hash[b]]
  BY DEF Hashed
<1>5. start # 0 => prefix = Chain(toks, start)
  <2>1. start # 0 => start \in 1..start BY <1>2
  <2> QED BY <2>1 DEF Computed
<1> HIDE DEF start, end, prefix, tbl
<1>6. ASSUME NEW i \in new PROVE H(i) = Chain(toks, i)
  <2>1. i \in Nat /\ start <= i /\ i <= end BY <1>2
  <2>2. i * BlockSize <= Len(toks)
    <3>1. i * BlockSize <= end * BlockSize /\ i * BlockSize \in Nat
      BY <2>1, <1>2, MulMonotone
    <3> QED BY <3>1, <1>1, <1>2
  <2>3. prefix = Chain(toks, start)
    <3>1. CASE start # 0 BY <3>1, <1>5
    <3>2. CASE start = 0
      <4>1. 0 * BlockSize = 0 BY PoolAssumption
      <4>2. SubSeq(toks, 1, 0) = << >> BY SubSeqEmpty
      <4> QED BY <3>2, <4>1, <4>2 DEF Chain, prefix, Root
    <3> QED BY <3>1, <3>2
  <2>4. Chain(toks, start) \o SubSeq(toks, start * BlockSize + 1, i * BlockSize)
          = Chain(toks, i)
    BY <2>1, <2>2, <1>2, ChainExtends
  <2> QED BY <2>3, <2>4 DEF ComputeHash
<1> HIDE DEF H
<1>7. new \subseteq 1..Len(tbl)
  BY <1>1, <1>2, <1>3
<1>8. ASSUME NEW i \in new PROVE q.hash[tbl[i]] = Chain(toks, i)
  <2>1. At(tbl[i]) = i
    <3>1. \A j \in new : tbl[j] = tbl[i] => j = i
      BY <1>1, <1>7 DEF Distinct
    <3> QED BY <3>1
  <2>2. tbl[i] \in Block BY <1>1, <1>7
  <2> HIDE DEF At, new
  <2> QED BY <2>1, <2>2, <1>4, <1>6
<1>9. \A b \in Block : (\A i \in new : tbl[i] # b) => q.hash[b] = p.hash[b]
  BY <1>4
<1>10. OnlyHashed(p, q, toks, tbl, start + 1, end)
  BY <1>8, <1>9 DEF OnlyHashed
<1>11. Computed(q, toks, tbl, end)
  <2> SUFFICES ASSUME NEW i \in 1..end PROVE q.hash[tbl[i]] = Chain(toks, i)
    BY DEF Computed
  <2>1. CASE i \in new BY <2>1, <1>8
  <2>2. CASE i \notin new
    <3>1. i \in 1..start /\ i \in 1..Len(tbl) BY <2>2, <1>1, <1>2, <1>3
    <3>2. \A j \in new : tbl[j] # tbl[i]
      BY <2>2, <3>1, <1>1, <1>7 DEF Distinct
    <3>3. p.hash[tbl[i]] = Chain(toks, i) BY <3>1 DEF Computed, start, tbl
    <3>4. tbl[i] \in Block BY <3>1, <1>1
    <3> HIDE DEF new
    <3> QED BY <3>2, <3>3, <3>4, <1>9
  <2> QED BY <2>1, <2>2
<1>12. ASSUME NEW r \in Owners \ {s}, NEW b \in Elems(tab[r]) PROVE q.hash[b] = p.hash[b]
  <2>1. tab[r] \in Seq(Block) OBVIOUS
  <2>2. b \in Block BY <2>1, LenProperties DEF Elems
  <2>3. ASSUME NEW i \in new, tbl[i] = b PROVE FALSE
    <3>1. b \in Elems(tab[s]) BY <2>3, <1>7 DEF Elems, tbl
    <3>2. p.hash[b] = Root
      <4>1. i > done[s] \div BlockSize BY <1>2 DEF start
      <4> QED BY <4>1, <2>3, <1>1, <1>7 DEF Indexed, tbl
    <3>3. HolderCount(tab, Owners, b) <= 1 BY <3>2, <2>2 DEF Indexed, Accounts
    <3> QED BY <3>1, <3>3, TwoHolders
  <2> QED BY <2>2, <2>3, <1>9
<1>13. ElsewhereKept(p, q, tab, Owners, s)
  BY <1>12 DEF ElsewhereKept
<1> QED BY <1>10, <1>11, <1>13 DEF start, end, tbl

---------------------------------------------------------------------------
(* The invariant.                                                        *)

Lesser(m, n) == IF m < n THEN m ELSE n

(* A block that carries a hash holds the keys and values of that prefix, *)
(* whether hash_to_block_id still leads to it or not.                    *)
HashesHold == \A b \in Block : pool.hash[b] # Root => kv[b] = pool.hash[b]

(* The blocks s has computed in full are hashed, those it can read hold  *)
(* exactly its tokens, and a running sequence is scheduled either for one*)
(* token or for the rest of its prompt.                                  *)
Holds(s) ==
  /\ Computed(pool, tokens[s], table[s], cached[s] \div BlockSize)
  /\ \A i \in 1..BlocksFor(Readable(s)) :
       kv[table[s][i]] = SubSeq(tokens[s], 1, Lesser(i * BlockSize, Readable(s)))
  /\ status[s] = "running" /\ sched[s] > 0 =>
       sched[s] = 1 \/ cached[s] + sched[s] = Len(tokens[s])

(* The inductive invariant of the cache contents.                        *)
CacheInv == IInv /\ HashesHold /\ \A s \in Seqs : Holds(s)

---------------------------------------------------------------------------
(* What the parts of the invariant say of one sequence.                  *)

(* A block that a sequence has not computed in full is held by it alone. *)
LEMMA OpenBlockPrivate ==
  ASSUME NEW p, NEW tab \in [Seqs -> Seq(Block)], NEW done,
         Accounts(p, tab, Seqs), Indexed(p, tab, done, Seqs),
         NEW s \in Seqs, NEW i \in 1..Len(tab[s]), i > done[s] \div BlockSize
  PROVE  /\ tab[s][i] \in Block /\ p.hash[tab[s][i]] = Root /\ p.ref[tab[s][i]] = 1
         /\ \A r \in Seqs \ {s} : tab[s][i] \notin Elems(tab[r])
<1> DEFINE b == tab[s][i]
<1>1. tab[s] \in Seq(Block) /\ i \in DOMAIN tab[s]
  BY LenProperties
<1>2. b \in Block /\ b \in Elems(tab[s])
  BY <1>1, LenProperties DEF Elems
<1>3. p.hash[b] = Root
  BY <1>1 DEF Indexed
<1> HIDE DEF b
<1>4. HolderCount(tab, Seqs, b) <= 1 /\ HolderCount(tab, Seqs, b) = p.ref[b]
  BY <1>2, <1>3 DEF Indexed, Accounts
<1>5. HolderCount(tab, Seqs, b) \in Nat /\ HolderCount(tab, Seqs, b) > 0
  BY <1>1, <1>2, ManagerAssumption, HoldersFacts
<1>6. p.ref[b] = 1
  BY <1>4, <1>5
<1>7. \A r \in Seqs \ {s} : b \notin Elems(tab[r])
  BY <1>2, <1>4, ManagerAssumption, TwoHolders
<1> QED BY <1>2, <1>3, <1>6, <1>7 DEF b

(* Where a sequence reads and writes, in plain numbers.                  *)
LEMMA PositionFacts ==
  ASSUME IInv, NEW s \in Seqs
  PROVE  /\ Readable(s) \in Nat /\ Readable(s) <= Len(tokens[s])
         /\ Readable(s) <= Len(table[s]) * BlockSize
         /\ LastWritten(s) \in Nat /\ LastWritten(s) <= Len(tokens[s])
         /\ FirstWritten(s) \in Nat
         /\ sched[s] > 0 => /\ LastWritten(s) <= Len(table[s]) * BlockSize
                            /\ cached[s] + 1 <= FirstWritten(s)
                            /\ FirstWritten(s) <= LastWritten(s)
<1> DEFINE len == Len(tokens[s])
           room == Len(table[s]) * BlockSize
           d == cached[s]
           n == sched[s]
<1>1. /\ status[s] \in {"idle", "waiting", "running"}
      /\ len \in Nat /\ room \in Nat /\ d \in Nat /\ n \in Nat
  BY IInvFacts
<1>2. /\ status[s] = "idle" => d = 0 /\ n = 0
      /\ status[s] # "idle" => len > 0
      /\ d + n <= len /\ d + n <= room
      /\ status[s] = "running" => /\ len - 1 <= room
                                  /\ n > 0 => len <= room
  BY IInvFacts DEF Covered
<1>3. DecodeStep(s) <=> status[s] = "running" /\ d + n < len
  BY DEF DecodeStep
<1>4. /\ FirstWritten(s) = IF n = 1 /\ DecodeStep(s) THEN len ELSE d + 1
      /\ LastWritten(s) = IF n = 1 /\ DecodeStep(s) THEN len ELSE d + n
      /\ Readable(s) = IF n > 0 THEN IF phase = "schedule" THEN FirstWritten(s) - 1
                                     ELSE LastWritten(s)
                       ELSE IF status[s] = "running" THEN len - 1 ELSE d
  BY DEF FirstWritten, LastWritten, Readable
<1> HIDE DEF len, room, d, n
<1>5. /\ LastWritten(s) \in Nat /\ LastWritten(s) <= len /\ FirstWritten(s) \in Nat
      /\ n > 0 => /\ LastWritten(s) <= room /\ d + 1 <= FirstWritten(s)
                  /\ FirstWritten(s) <= LastWritten(s)
  BY <1>1, <1>2, <1>3, <1>4
<1>6. Readable(s) \in Nat /\ Readable(s) <= len /\ Readable(s) <= room
  <2>1. CASE n > 0
    BY <2>1, <1>1, <1>2, <1>4, <1>5
  <2>2. CASE n = 0
    BY <2>2, <1>1, <1>2, <1>4
  <2> QED BY <2>1, <2>2, <1>1
<1> QED BY <1>5, <1>6 DEF len, room, d, n

(* The blocks that are computed or read are in the table.                *)
LEMMA InTable ==
  ASSUME IInv, NEW s \in Seqs
  PROVE  /\ cached[s] \div BlockSize \in Nat /\ cached[s] \div BlockSize <= Len(table[s])
         /\ BlocksFor(Readable(s)) \in Nat /\ BlocksFor(Readable(s)) <= Len(table[s])
         /\ sched[s] > 0 => BlocksFor(LastWritten(s)) <= Len(table[s])
         /\ Len(table[s]) \in Nat /\ DOMAIN table[s] = 1..Len(table[s])
         /\ \A i \in 1..Len(table[s]) : table[s][i] \in Block /\ table[s][i] \in Elems(table[s])
<1> DEFINE size == Len(table[s])
           k == cached[s] \div BlockSize
<1>1. /\ size \in Nat /\ cached[s] \in Nat /\ sched[s] \in Nat /\ size * BlockSize \in Nat
      /\ table[s] \in Seq(Block)
      /\ cached[s] + sched[s] <= size * BlockSize
  BY IInvFacts DEF Covered
<1>2. k \in Nat /\ k <= size
  <2>1. k \in Nat /\ k * BlockSize <= cached[s]
    BY <1>1, DivisionFacts
  <2> HIDE DEF k, size
  <2>2. k * BlockSize <= size * BlockSize
    <3>1. k * BlockSize \in Nat BY <2>1, MulMonotone
    <3> QED BY <2>1, <3>1, <1>1
  <2> QED BY <2>1, <2>2, <1>1, MulCancel
<1>3. BlocksFor(Readable(s)) \in Nat /\ BlocksFor(Readable(s)) <= size
  BY <1>1, PositionFacts, BlocksForFacts
<1>4. sched[s] > 0 => BlocksFor(LastWritten(s)) <= size
  BY <1>1, PositionFacts, BlocksForFacts
<1>5. DOMAIN table[s] = 1..size /\ \A i \in 1..size : table[s][i] \in Block
  BY <1>1, LenProperties
<1>6. \A i \in 1..size : table[s][i] \in Elems(table[s])
  BY DEF Elems
<1> QED BY <1>1, <1>2, <1>3, <1>4, <1>5, <1>6

(* The same of the next state.                                           *)
TablesSuffice ==
  \A s \in Seqs :
    /\ cached[s] \div BlockSize <= Len(table[s])
    /\ BlocksFor(Readable(s)) <= Len(table[s])
    /\ \A i \in 1..Len(table[s]) : table[s][i] \in Block
    /\ Len(table[s]) \in Nat /\ Readable(s) \in Nat

LEMMA IInvSuffices ==
  IInv => TablesSuffice
BY InTable, PositionFacts DEF TablesSuffice

LEMMA InTablePrimed ==
  IInv' => TablesSuffice'
BY IInvSuffices, PTL

(* A sequence that an action leaves alone still finds its contents when  *)
(* the hashes and the contents of the blocks it holds are the same.      *)
LEMMA OtherHolds ==
  ASSUME CacheInv, NEW r \in Seqs,
         status'[r] = status[r], tokens'[r] = tokens[r], table'[r] = table[r],
         cached'[r] = cached[r], sched'[r] = sched[r],
         sched[r] > 0 => phase' = phase,
         \A b \in Elems(table[r]) : pool'.hash[b] = pool.hash[b] /\ kv'[b] = kv[b]
  PROVE  Holds(r)'
<1>1. IInv /\ Holds(r)
  BY DEF CacheInv
<1>2. Readable(r)' = Readable(r)
  BY DEF Readable, FirstWritten, LastWritten, DecodeStep
<1>3. \A i \in 1..(cached[r] \div BlockSize) : table[r][i] \in Elems(table[r])
  BY <1>1, InTable
<1>4. \A i \in 1..BlocksFor(Readable(r)) : table[r][i] \in Elems(table[r])
  BY <1>1, InTable
<1>5. Computed(pool, tokens[r], table[r], cached[r] \div BlockSize)'
  BY <1>1, <1>3 DEF Holds, Computed
<1>6. (\A i \in 1..BlocksFor(Readable(r)) :
         kv[table[r][i]] = SubSeq(tokens[r], 1, Lesser(i * BlockSize, Readable(r))))'
  BY <1>1, <1>2, <1>4 DEF Holds
<1> QED BY <1>1, <1>5, <1>6 DEF Holds

(* An action that moves one sequence keeps the invariant when it keeps the*)
(* contents: those the hashes promise, those of the sequence it moves, and*)
(* the blocks the other sequences hold.                                  *)
LEMMA StepKeepsCache ==
  ASSUME CacheInv, IInv', NEW s \in Seqs, Others(s),
         \A r \in Seqs \ {s} : sched[r] > 0 => phase' = phase,
         \A r \in Seqs \ {s} : \A b \in Elems(table[r]) :
           pool'.hash[b] = pool.hash[b] /\ kv'[b] = kv[b],
         HashesHold', Holds(s)'
  PROVE  CacheInv'
<1>1. ASSUME NEW r \in Seqs, r # s PROVE Holds(r)'
  BY <1>1, OtherHolds DEF Others
<1> QED BY <1>1 DEF CacheInv

(* Resetting hashes takes no promise back.                               *)
LEMMA ResetHolds ==
  ASSUME CacheInv, OnlyReset(pool, pool'), kv' = kv
  PROVE  HashesHold'
BY DEF CacheInv, HashesHold, OnlyReset

(* Nothing needs no block.                                               *)
LEMMA ZeroBlocks ==
  0 \div BlockSize = 0 /\ BlocksFor(0) = 0
<1>1. 0 \div BlockSize = 0
  BY PoolAssumption
<1>2. BlocksFor(0) \in Nat /\ BlocksFor(0) <= 0
  <2>1. 0 \in Nat /\ 0 <= 0 * BlockSize BY PoolAssumption
  <2> QED BY <2>1, BlocksForFacts
<1> QED BY <1>1, <1>2

(* A sequence that has computed nothing and is not running reads nothing.*)
LEMMA NothingToHold ==
  ASSUME NEW s \in Seqs, status'[s] \in {"idle", "waiting"}, cached'[s] = 0, sched'[s] = 0
  PROVE  Holds(s)'
<1>1. Readable(s)' = 0
  BY DEF Readable
<1>2. 1..0 = {}
  OBVIOUS
<1> QED BY <1>1, <1>2, ZeroBlocks DEF Holds, Computed

(* The first c blocks are what c * BlockSize tokens close, and fill.     *)
LEMMA FullBlocks ==
  ASSUME NEW c \in Nat
  PROVE  (c * BlockSize) \div BlockSize = c /\ BlocksFor(c * BlockSize) = c
<1> DEFINE x == c * BlockSize
           k == x \div BlockSize
           j == BlocksFor(x)
<1>1. x \in Nat
  BY MulMonotone
<1>2. k \in Nat /\ k * BlockSize <= x /\ x < k * BlockSize + BlockSize
  BY <1>1, DivisionFacts
<1>3. j \in Nat /\ x <= j * BlockSize /\ j <= c
  <2>1. x <= c * BlockSize BY <1>1
  <2> HIDE DEF x
  <2> QED BY <1>1, <2>1, BlocksForFacts
<1> HIDE DEF k, j
<1>4. k <= c
  BY <1>2, MulCancel
<1>5. ~ (k < c)
  <2>1. k < c => k * BlockSize + BlockSize <= x BY <1>2, MulMonotone
  <2>2. k * BlockSize \in Nat BY <1>2, MulMonotone
  <2> HIDE DEF x
  <2> QED BY <1>1, <1>2, <2>1, <2>2, PoolAssumption
<1>6. c <= j
  BY <1>3, MulCancel
<1>7. k = c /\ j = c
  BY <1>2, <1>3, <1>4, <1>5, <1>6
<1> QED BY <1>7 DEF k, j

(* The blocks that some tokens fill are among those that hold them.      *)
LEMMA FilledBlock ==
  ASSUME NEW i \in Nat, NEW n \in Nat, i * BlockSize <= n
  PROVE  i <= BlocksFor(n)
<1>1. BlocksFor(n) \in Nat /\ n <= BlocksFor(n) * BlockSize
  BY BlocksForFacts
<1>2. BlocksFor(n) * BlockSize \in Nat /\ i * BlockSize \in Nat
  BY <1>1, MulMonotone
<1>3. i * BlockSize <= BlocksFor(n) * BlockSize
  BY <1>1, <1>2
<1> QED BY <1>1, <1>3, MulCancel

(* A token appended behind a prefix does not change it.                  *)
LEMMA AppendPrefix ==
  ASSUME NEW Tok, NEW toks \in Seq(Tok), NEW t \in Tok, NEW x \in 0..Len(toks)
  PROVE  SubSeq(Append(toks, t), 1, x) = SubSeq(toks, 1, x)
<1>1. /\ Len(toks) \in Nat /\ Append(toks, t) \in Seq(Tok)
      /\ \A i \in 1..Len(toks) : Append(toks, t)[i] = toks[i] /\ toks[i] \in Tok
  BY LenProperties, AppendProperties
<1> DEFINE a == SubSeq(Append(toks, t), 1, x)
           b == SubSeq(toks, 1, x)
<1>2. x \in Nat /\ 1..x \subseteq 1..Len(toks)
  BY <1>1
<1>3. /\ a \in Seq(Tok) /\ Len(a) = IF 1 <= x THEN x - 1 + 1 ELSE 0
      /\ \A i \in 1..(x - 1 + 1) : a[i] = Append(toks, t)[1 + i - 1]
  <2>1. \A i \in 1..x : Append(toks, t)[i] \in Tok BY <1>1, <1>2
  <2> QED BY <1>2, <2>1, SubSeqProperties
<1>4. /\ b \in Seq(Tok) /\ Len(b) = IF 1 <= x THEN x - 1 + 1 ELSE 0
      /\ \A i \in 1..(x - 1 + 1) : b[i] = toks[1 + i - 1]
  <2>1. \A i \in 1..x : toks[i] \in Tok BY <1>1, <1>2
  <2> QED BY <1>2, <2>1, SubSeqProperties
<1> HIDE DEF a, b
<1>5. Len(a) = Len(b) /\ Len(a) = x
  BY <1>2, <1>3, <1>4
<1>6. \A i \in 1..Len(a) : a[i] = b[i]
  <2> SUFFICES ASSUME NEW i \in 1..x PROVE a[i] = b[i]
    BY <1>5
  <2>1. i \in 1..(x - 1 + 1) /\ 1 + i - 1 = i /\ i \in 1..Len(toks) BY <1>2
  <2> QED BY <2>1, <1>1, <1>3, <1>4
<1>7. a = b
  BY <1>3, <1>4, <1>5, <1>6, SeqEqual
<1> QED BY <1>7 DEF a, b

(* What a sequence reads stays where it is when it reads no further: its *)
(* table may grow at the end, and its tokens too.                        *)
LEMMA ReadsTheSame ==
  ASSUME CacheInv, NEW s \in Seqs, Readable(s)' = Readable(s), kv' = kv,
         StartsWith(table'[s], table[s]),
         tokens'[s] = tokens[s] \/ \E t \in Token : tokens'[s] = Append(tokens[s], t)
  PROVE  (\A i \in 1..BlocksFor(Readable(s)) :
            kv[table[s][i]] = SubSeq(tokens[s], 1, Lesser(i * BlockSize, Readable(s))))'
<1>1. IInv /\ Holds(s) /\ tokens[s] \in Seq(Token)
  BY IInvFacts DEF CacheInv
<1> SUFFICES ASSUME NEW i \in 1..BlocksFor(Readable(s))
             PROVE  kv[table'[s][i]]
                      = SubSeq(tokens'[s], 1, Lesser(i * BlockSize, Readable(s)))
  OBVIOUS
<1> DEFINE x == Lesser(i * BlockSize, Readable(s))
<1>2. i \in 1..Len(table[s]) /\ i \in Nat
  <2>1. BlocksFor(Readable(s)) \in Nat /\ BlocksFor(Readable(s)) <= Len(table[s])
        /\ Len(table[s]) \in Nat
    BY <1>1, InTable
  <2> QED BY <2>1
<1>3. x \in 0..Len(tokens[s])
  <2>1. i * BlockSize \in Nat BY <1>2, MulMonotone
  <2>2. Readable(s) \in Nat /\ Readable(s) <= Len(tokens[s]) BY <1>1, PositionFacts
  <2>3. Len(tokens[s]) \in Nat BY <1>1, LenProperties
  <2> QED BY <2>1, <2>2, <2>3 DEF Lesser
<1>4. table'[s][i] = table[s][i]
  BY <1>2 DEF StartsWith
<1>5. kv[table[s][i]] = SubSeq(tokens[s], 1, x)
  BY <1>1 DEF Holds
<1> HIDE DEF x
<1>6. SubSeq(tokens'[s], 1, x) = SubSeq(tokens[s], 1, x)
  BY <1>1, <1>3, AppendPrefix
<1> QED BY <1>4, <1>5, <1>6 DEF x
---------------------------------------------------------------------------
(* One lemma per action.                                                 *)

LEMMA AddRequestKeepsCache ==
  ASSUME CacheInv, NEW s \in Seqs, NEW prompt \in Prompts, AddRequest(s, prompt)
  PROVE  CacheInv'
<1>1. IInv /\ IInv'
  BY AddRequestStep DEF CacheInv
<1>2. /\ pool' = pool /\ kv' = kv /\ phase' = phase /\ table' = table
      /\ cached' = cached /\ sched' = sched
      /\ status' = Put(status, s, "waiting") /\ tokens' = Put(tokens, s, prompt)
      /\ status[s] = "idle"
  BY DEF AddRequest, Put
<1>3. cached[s] = 0 /\ sched[s] = 0
  BY <1>1, <1>2, IInvFacts DEF Covered
<1>4. Others(s) /\ status'[s] = "waiting"
  BY <1>1, <1>2, IInvFacts DEF Others, Put
<1>5. Holds(s)'
  BY <1>2, <1>3, <1>4, NothingToHold
<1>6. HashesHold'
  BY <1>2 DEF CacheInv, HashesHold
<1> QED BY <1>1, <1>2, <1>4, <1>5, <1>6, StepKeepsCache

LEMMA PreemptKeepsCache ==
  ASSUME CacheInv, NEW s \in Seqs, Preempt(s)
  PROVE  CacheInv'
<1>1. IInv /\ IInv'
  BY PreemptStep DEF CacheInv
<1>2. /\ pool' = Deallocated(pool, table[s]) /\ kv' = kv /\ phase' = phase
      /\ table' = Put(table, s, << >>) /\ cached' = Put(cached, s, 0)
      /\ status' = Put(status, s, "waiting")
      /\ tokens' = tokens /\ sched' = sched /\ sched[s] = 0
  BY DEF Preempt, Put
<1>3. pool'.hash = pool.hash
  BY <1>2 DEF Deallocated
<1>4. Others(s) /\ status'[s] = "waiting" /\ cached'[s] = 0 /\ sched'[s] = 0
  BY <1>1, <1>2, IInvFacts DEF Others, Put
<1>5. Holds(s)'
  BY <1>4, NothingToHold
<1>6. HashesHold'
  BY <1>2, <1>3 DEF CacheInv, HashesHold
<1> QED BY <1>1, <1>2, <1>3, <1>4, <1>5, <1>6, StepKeepsCache

(* A sequence scheduled for prefill reads what it has computed.          *)
LEMMA PrefillReads ==
  ASSUME NEW s \in Seqs, phase' = "schedule", sched'[s] > 0, cached'[s] \in Nat,
         status'[s] = "running" => cached'[s] + sched'[s] = Len(tokens'[s]),
         Len(tokens'[s]) \in Nat
  PROVE  Readable(s)' = cached'[s]
<1>1. ~ DecodeStep(s)'
  BY DEF DecodeStep
<1>2. FirstWritten(s)' = cached'[s] + 1
  BY <1>1 DEF FirstWritten
<1> QED BY <1>2 DEF Readable

(* The tokens below the first block boundaries close just those blocks.  *)
LEMMA FullPrefix ==
  ASSUME NEW c \in Nat, NEW i \in 1..c
  PROVE  Lesser(i * BlockSize, c * BlockSize) = i * BlockSize
<1>1. i \in Nat /\ i <= c
  OBVIOUS
<1>2. i * BlockSize \in Nat /\ c * BlockSize \in Nat /\ i * BlockSize <= c * BlockSize
  BY <1>1, MulMonotone
<1> QED BY <1>2 DEF Lesser

LEMMA PrefillFirstKeepsCache ==
  ASSUME CacheInv, NEW s \in Seqs, NEW n \in 1..MaxLen, PrefillFirst(s, n)
  PROVE  CacheInv'
<1> DEFINE toks == tokens[s]
           hit == CachedBlocks(pool, toks) * BlockSize
           m == IF Incremental THEN hit + n ELSE Len(toks)
           c == CanAllocate(pool, toks, m)
           done == c * BlockSize
           new == Allocated(pool, toks, c, m)
<1>1. IInv /\ IInv'
  BY PrefillFirstStep DEF CacheInv
<1>2. /\ phase = "schedule" /\ status[s] = "waiting" /\ table[s] = << >>
      /\ hit + n <= Len(toks) /\ c # -1
      /\ pool' = new.pool /\ table' = Put(table, s, new.table)
      /\ cached' = Put(cached, s, done)
      /\ status' = Put(status, s, IF done + n = Len(toks) THEN "running"
                                  ELSE status[s])
      /\ sched' = Put(sched, s, n)
      /\ tokens' = tokens /\ kv' = kv /\ phase' = phase
  <2> HIDE DEF hit, toks
  <2> QED BY DEF PrefillFirst, Put, hit, toks
<1>3. /\ toks \in Seq(Token) /\ Len(toks) \in Nat /\ Len(toks) > 0 /\ n \in Nat
      /\ n > 0
  <2>1. Len(toks) > 0 BY <1>1, <1>2, IInvFacts DEF Covered
  <2>2. n \in Nat /\ n > 0 BY ManagerAssumption
  <2> QED BY <2>1, <2>2, <1>1, IInvFacts
<1>4. m \in Nat
  <2>1. CachedBlocks(pool, toks) \in 0..(BlocksFor(Len(toks)) - 1)
    BY <1>3, CachedBlocksFacts
  <2>2. hit \in Nat BY <2>1, MulMonotone
  <2> HIDE DEF hit, toks, c
  <2> QED BY <2>2, <1>3 DEF m
<1>5. /\ PoolTyped(pool, Token) /\ Accounts(pool, table, Seqs)
      /\ Indexed(pool, table, cached, Seqs)
      /\ IsFiniteSet(Seqs) /\ table \in [Seqs -> Seq(Block)]
      /\ DOMAIN cached = Seqs
  BY <1>1, IInvFacts
<1>6. /\ InCache(pool, toks, c) /\ c <= BlocksFor(m)
      /\ BlocksFor(m) - c <= Len(ShareCached(pool, Cached(pool, toks, c)).free)
  <2>1. /\ \A h \in DOMAIN pool.map : pool.hash[pool.map[h]] = h /\ h # Root
        /\ Distinct(pool.free) /\ Elems(pool.free) = Block \ pool.used
    BY <1>5 DEF Indexed, Accounts
  <2> HIDE DEF m, toks
  <2> QED BY <2>1, <1>2, <1>3, <1>4, <1>5, CanAllocateFacts
<1>7. c \in Nat /\ done \in Nat /\ done <= Len(toks)
  BY <1>6, MulMonotone DEF InCache
<1>8. HasNoBlocks(table, s)
  BY <1>2, EmptyTable DEF HasNoBlocks
<1> HIDE DEF m, c, toks, done, new
<1>9. /\ HeldKept(pool, new.pool, table, Seqs) /\ OnlyReset(pool, new.pool)
      /\ \A i \in 1..c : new.pool.hash[new.table[i]] = Chain(toks, i)
  BY <1>3, <1>4, <1>5, <1>6, <1>8, AllocatedKeeps DEF new
<1>10. /\ table'[s] = new.table /\ cached'[s] = done /\ sched'[s] = n
       /\ status'[s] = (IF done + n = Len(toks) THEN "running" ELSE "waiting")
       /\ tokens'[s] = toks /\ Others(s)
  BY <1>1, <1>2, IInvFacts DEF Others, Put, toks
<1>11. HashesHold'
  BY <1>2, <1>9, ResetHolds
<1>12. Readable(s)' = done
  BY <1>2, <1>3, <1>7, <1>10, PrefillReads
<1>13. \A i \in 1..c : i \in 1..Len(new.table) /\ new.table[i] \in Block
  <2>1. /\ cached'[s] \div BlockSize <= Len(table'[s])
        /\ Len(table'[s]) \in Nat
        /\ \A i \in 1..Len(table'[s]) : table'[s][i] \in Block
    BY <1>1, InTablePrimed DEF TablesSuffice
  <2>2. cached'[s] \div BlockSize = c
    BY <1>7, <1>10, FullBlocks DEF done
  <2> QED BY <2>1, <2>2, <1>7, <1>10
<1>14. Holds(s)'
  <2>1. Computed(pool', tokens'[s], table'[s], cached'[s] \div BlockSize)
    <3>1. cached'[s] \div BlockSize = c
      BY <1>7, <1>10, FullBlocks DEF done
    <3> QED BY <3>1, <1>2, <1>9, <1>10 DEF Computed
  <2>2. BlocksFor(Readable(s)') = c
    BY <1>7, <1>12, FullBlocks DEF done
  <2>3. ASSUME NEW i \in 1..c
        PROVE  kv'[table'[s][i]] = SubSeq(tokens'[s], 1, Lesser(i * BlockSize, Readable(s)'))
    <3>1. new.pool.hash[new.table[i]] = Chain(toks, i) /\ new.table[i] \in Block
      BY <1>9, <1>13
    <3>2. Chain(toks, i) # Root
      <4>1. i \in Nat /\ i * BlockSize <= Len(toks) /\ i * BlockSize > 0
        <5>1. i \in Nat /\ i <= c /\ 0 < i BY <1>7
        <5>2. i * BlockSize <= done /\ i * BlockSize \in Nat
          BY <5>1, <1>7, MulMonotone DEF done
        <5>3. 0 * BlockSize + BlockSize <= i * BlockSize /\ 0 * BlockSize = 0
          BY <5>1, MulMonotone, PoolAssumption
        <5> QED BY <5>1, <5>2, <5>3, <1>3, <1>7, PoolAssumption
      <4>2. Len(Chain(toks, i)) = i * BlockSize
        BY <4>1, <1>3, ChainFacts
      <4> QED BY <4>1, <4>2, EmptyTable DEF Root
    <3>3. kv'[new.table[i]] = Chain(toks, i)
      BY <3>1, <3>2, <1>2, <1>11 DEF HashesHold
    <3>4. Lesser(i * BlockSize, Readable(s)') = i * BlockSize
      BY <1>7, <1>12, FullPrefix DEF done
    <3> QED BY <3>3, <3>4, <1>10 DEF Chain
  <2>4. status'[s] = "running" /\ sched'[s] > 0 =>
          sched'[s] = 1 \/ cached'[s] + sched'[s] = Len(tokens'[s])
    BY <1>10
  <2> QED BY <2>1, <2>2, <2>3, <2>4 DEF Holds
<1>15. \A r \in Seqs \ {s} : \A b \in Elems(table[r]) :
         pool'.hash[b] = pool.hash[b] /\ kv'[b] = kv[b]
  BY <1>2, <1>9 DEF HeldKept
<1> QED BY <1>1, <1>2, <1>10, <1>11, <1>14, <1>15, StepKeepsCache

(* A table that only grows at the end keeps what its sequence reads.     *)
LEMMA GrowKeepsCache ==
  ASSUME CacheInv, IInv', NEW s \in Seqs, Others(s), phase' = phase, kv' = kv,
         HeldKept(pool, pool', table, Seqs), OnlyReset(pool, pool'),
         StartsWith(table'[s], table[s]),
         tokens'[s] = tokens[s], cached'[s] = cached[s],
         Readable(s)' = Readable(s),
         status'[s] = "running" /\ sched'[s] > 0 =>
           sched'[s] = 1 \/ cached'[s] + sched'[s] = Len(tokens'[s])
  PROVE  CacheInv'
<1>1. IInv /\ Holds(s)
  BY DEF CacheInv
<1>2. HashesHold'
  BY ResetHolds
<1>3. ASSUME NEW i \in 1..(cached[s] \div BlockSize)
      PROVE  pool'.hash[table'[s][i]] = Chain(tokens[s], i)
  <2>1. i \in 1..Len(table[s]) /\ table[s][i] \in Elems(table[s])
    BY <1>1, InTable
  <2>2. table'[s][i] = table[s][i]
    BY <2>1 DEF StartsWith
  <2>3. pool.hash[table[s][i]] = Chain(tokens[s], i)
    BY <1>1 DEF Holds, Computed
  <2> QED BY <2>1, <2>2, <2>3 DEF HeldKept
<1>4. Computed(pool', tokens'[s], table'[s], cached'[s] \div BlockSize)
  BY <1>3 DEF Computed
<1>5. (\A i \in 1..BlocksFor(Readable(s)) :
         kv[table[s][i]] = SubSeq(tokens[s], 1, Lesser(i * BlockSize, Readable(s))))'
  BY ReadsTheSame
<1>6. Holds(s)'
  BY <1>4, <1>5 DEF Holds
<1>7. \A r \in Seqs \ {s} : \A b \in Elems(table[r]) :
        pool'.hash[b] = pool.hash[b] /\ kv'[b] = kv[b]
  BY DEF HeldKept
<1> QED BY <1>2, <1>6, <1>7, StepKeepsCache

LEMMA PrefillNextKeepsCache ==
  ASSUME CacheInv, NEW s \in Seqs, NEW n \in 1..MaxLen, PrefillNext(s, n)
  PROVE  CacheInv'
<1> DEFINE toks == tokens[s]
           done == cached[s]
           k == Missing(table[s], done + n)
           new == Extended(pool, table[s], k)
<1>1. IInv /\ IInv'
  BY PrefillNextStep DEF CacheInv
<1>2. /\ phase = "schedule" /\ status[s] = "waiting" /\ sched[s] = 0
      /\ done + n <= Len(toks)
      /\ Incremental => /\ CanMaterialize(pool, table[s], done + n)
                        /\ pool' = new.pool
                        /\ table' = Put(table, s, new.table)
      /\ ~ Incremental => pool' = pool /\ table' = table
      /\ status' = Put(status, s, IF done + n = Len(toks) THEN "running"
                                  ELSE status[s])
      /\ sched' = Put(sched, s, n)
      /\ tokens' = tokens /\ cached' = cached /\ kv' = kv /\ phase' = phase
  BY DEF PrefillNext, Put
<1>3. /\ toks \in Seq(Token) /\ Len(toks) \in Nat /\ n \in Nat /\ n > 0
      /\ done \in Nat /\ Len(table[s]) \in Nat
  BY <1>1, IInvFacts, ManagerAssumption
<1>4. /\ PoolTyped(pool, Token) /\ Accounts(pool, table, Seqs)
      /\ IsFiniteSet(Seqs) /\ table \in [Seqs -> Seq(Block)]
  BY <1>1, IInvFacts
<1> HIDE DEF toks, done
<1>5. /\ HeldKept(pool, pool', table, Seqs) /\ OnlyReset(pool, pool')
      /\ StartsWith(table'[s], table[s])
      /\ \A r \in Seqs \ {s} : table'[r] = table[r]
  <2>1. CASE Incremental
    <3>1. k \in 0..Len(pool.free)
      <4> DEFINE need == BlocksFor(done + n)
                 held == Len(table[s])
                 free == Len(pool.free)
      <4>1. held \in Nat /\ free \in Nat /\ need \in Nat
        <5>1. done + n \in Nat BY <1>3
        <5>2. need \in Nat BY <5>1, BlocksForFacts
        <5> QED BY <5>2, <1>3, <1>4, LenProperties DEF PoolTyped
      <4>2. need - held <= free /\ k = IF need > held THEN need - held ELSE 0
        BY <2>1, <1>2 DEF CanMaterialize, Missing
      <4> HIDE DEF k, need, held, free
      <4>3. k \in 0..free BY <4>1, <4>2
      <4> QED BY <4>3 DEF free
    <3> HIDE DEF k, new
    <3>2. HeldKept(pool, new.pool, table, Seqs) /\ OnlyReset(pool, new.pool)
          /\ StartsWith(new.table, table[s])
      BY <3>1, <1>4, ExtendedKeeps DEF new
    <3> QED BY <2>1, <3>2, <1>2, <1>4 DEF Put
  <2>2. CASE ~ Incremental
    BY <2>2, <1>2 DEF HeldKept, OnlyReset, StartsWith
  <2> QED BY <2>1, <2>2
<1>6. /\ status'[s] = IF done + n = Len(toks) THEN "running" ELSE "waiting"
      /\ tokens'[s] = toks /\ cached'[s] = done /\ sched'[s] = n /\ Others(s)
  BY <1>1, <1>2, <1>5, IInvFacts DEF Others, Put, toks, done
<1>7. Readable(s)' = done
  BY <1>2, <1>3, <1>6, PrefillReads
<1>8. Readable(s) = done
  BY <1>2 DEF Readable, done
<1> QED BY <1>1, <1>2, <1>5, <1>6, <1>7, <1>8, GrowKeepsCache DEF toks, done

LEMMA DecodeKeepsCache ==
  ASSUME CacheInv, NEW s \in Seqs, Decode(s)
  PROVE  CacheInv'
<1> DEFINE len == Len(tokens[s])
           k == AppendNeeds(len)
           new == Extended(pool, table[s], k)
<1>1. IInv /\ IInv'
  BY DecodeKeepsIInv DEF CacheInv
<1>2. /\ phase = "schedule" /\ status[s] = "running" /\ sched[s] = 0
      /\ CanAppend(pool, len)
      /\ pool' = new.pool /\ table' = Put(table, s, new.table)
      /\ sched' = Put(sched, s, 1)
      /\ status' = status /\ tokens' = tokens /\ cached' = cached
      /\ kv' = kv /\ phase' = phase
  BY DEF Decode, Put
<1>3. /\ PoolTyped(pool, Token) /\ Accounts(pool, table, Seqs)
      /\ IsFiniteSet(Seqs) /\ table \in [Seqs -> Seq(Block)]
      /\ len \in Nat /\ cached[s] \in Nat
  BY <1>1, IInvFacts
<1>4. cached[s] < len
  BY <1>1, <1>2, IInvFacts DEF Covered
<1>5. k \in 0..Len(pool.free)
  <2>1. Len(pool.free) \in Nat BY <1>3, LenProperties DEF PoolTyped
  <2>2. k \in {0, 1} /\ Len(pool.free) >= k
    BY <1>2 DEF CanAppend, AppendNeeds
  <2> HIDE DEF k
  <2> QED BY <2>1, <2>2
<1> HIDE DEF k, new, len
<1>6. HeldKept(pool, new.pool, table, Seqs) /\ OnlyReset(pool, new.pool)
      /\ StartsWith(new.table, table[s])
  BY <1>3, <1>5, ExtendedKeeps DEF new
<1>7. /\ table'[s] = new.table /\ sched'[s] = 1 /\ tokens'[s] = tokens[s]
      /\ cached'[s] = cached[s] /\ status'[s] = "running" /\ Others(s)
  BY <1>1, <1>2, IInvFacts DEF Others, Put
<1>8. Readable(s) = len - 1
  BY <1>2 DEF Readable, len
<1>9. Readable(s)' = len - 1
  <2>1. FirstWritten(s)' = IF DecodeStep(s)' THEN len ELSE cached[s] + 1
    BY <1>7 DEF FirstWritten, len
  <2>2. DecodeStep(s)' <=> cached[s] + 1 < len
    BY <1>7 DEF DecodeStep, len
  <2>3. FirstWritten(s)' = len
    BY <2>1, <2>2, <1>3, <1>4
  <2> QED BY <2>3, <1>2, <1>7 DEF Readable
<1> QED BY <1>1, <1>2, <1>6, <1>7, <1>8, <1>9, GrowKeepsCache

(* postprocess() hashes the blocks of s that are full now: they hold what*)
(* their hashes say, for the step has just written them.                 *)
LEMMA HashedHolds ==
  ASSUME CacheInv, NEW s \in Seqs, phase = "postprocess", sched[s] > 0,
         NEW q, q = Hashed(pool, tokens[s], table[s], cached[s], sched[s])
  PROVE  /\ \A b \in Block : q.hash[b] # Root => kv[b] = q.hash[b]
         /\ Computed(q, tokens[s], table[s], (cached[s] + sched[s]) \div BlockSize)
         /\ \A r \in Seqs \ {s} : \A b \in Elems(table[r]) : q.hash[b] = pool.hash[b]
<1> DEFINE d == cached[s]
           n == sched[s]
           toks == tokens[s]
           start == d \div BlockSize
           end == (d + n) \div BlockSize
<1>1. IInv /\ Holds(s) /\ HashesHold
  BY DEF CacheInv
<1>2. /\ IsFiniteSet(Seqs) /\ table \in [Seqs -> Seq(Block)]
      /\ DOMAIN cached = Seqs /\ PoolTyped(pool, Token)
      /\ Accounts(pool, table, Seqs) /\ Indexed(pool, table, cached, Seqs)
      /\ toks \in Seq(Token) /\ d \in Nat /\ n \in Nat /\ cached[s] = d
      /\ Len(toks) \in Nat
  BY <1>1, IInvFacts
<1>3. d + n <= Len(table[s]) * BlockSize /\ d + n <= Len(toks)
  BY <1>1, IInvFacts DEF Covered
<1>4. Computed(pool, toks, table[s], d \div BlockSize)
  BY <1>1 DEF Holds
<1>5. Readable(s) = LastWritten(s) /\ d + n <= Readable(s) /\ Readable(s) \in Nat
  <2>1. Readable(s) = LastWritten(s) BY DEF Readable
  <2>2. LastWritten(s) = Len(toks) \/ LastWritten(s) = d + n BY DEF LastWritten
  <2> QED BY <2>1, <2>2, <1>2, <1>3
<1>6. start \in Nat /\ end \in Nat /\ end * BlockSize <= d + n
  <2>1. d + n \in Nat BY <1>2
  <2> QED BY <2>1, <1>2, DivisionFacts
<1> HIDE DEF d, n, toks
<1>7. /\ Computed(q, toks, table[s], end)
      /\ OnlyHashed(pool, q, toks, table[s], start + 1, end)
      /\ \A r \in Seqs \ {s} : \A b \in Elems(table[r]) : q.hash[b] = pool.hash[b]
  <2>1. q = Hashed(pool, toks, table[s], d, n)
    BY DEF d, n, toks
  <2>2. Computed(q, toks, table[s], end)
    BY <2>1, <1>2, <1>3, <1>4, HashedKeeps
  <2>3. OnlyHashed(pool, q, toks, table[s], start + 1, end)
    BY <2>1, <1>2, <1>3, <1>4, HashedKeeps
  <2>4. ElsewhereKept(pool, q, table, Seqs, s)
    BY <2>1, <1>2, <1>3, <1>4, HashedKeeps
  <2> QED BY <2>2, <2>3, <2>4 DEF ElsewhereKept
<1> HIDE DEF start, end
<1>8. ASSUME NEW i \in (start + 1)..end PROVE kv[table[s][i]] = Chain(toks, i)
  <2>1. i \in Nat /\ i <= end /\ 1 <= i
    BY <1>6
  <2>2. i * BlockSize \in Nat /\ i * BlockSize <= Readable(s)
    <3>1. i * BlockSize \in Nat /\ i * BlockSize <= end * BlockSize
          /\ end * BlockSize \in Nat
      BY <2>1, <1>6, MulMonotone
    <3> QED BY <3>1, <1>2, <1>5, <1>6
  <2>3. i \in 1..BlocksFor(Readable(s))
    BY <2>1, <2>2, <1>5, FilledBlock, BlocksForFacts
  <2>4. Lesser(i * BlockSize, Readable(s)) = i * BlockSize
    BY <2>2, <1>5 DEF Lesser
  <2> QED BY <2>3, <2>4, <1>1 DEF Holds, Chain, toks
<1>9. ASSUME NEW b \in Block, q.hash[b] # Root PROVE kv[b] = q.hash[b]
  <2>1. CASE q.hash[b] = pool.hash[b]
    BY <2>1, <1>1, <1>9 DEF HashesHold
  <2>2. CASE \E i \in (start + 1)..end : b = table[s][i] /\ q.hash[b] = Chain(toks, i)
    BY <2>2, <1>8
  <2> QED BY <2>1, <2>2, <1>7 DEF OnlyHashed
<1> QED BY <1>7, <1>9 DEF end, d, n, toks

LEMMA ChunkDoneKeepsCache ==
  ASSUME CacheInv, NEW s \in Seqs, ChunkDone(s)
  PROVE  CacheInv'
<1> DEFINE d == cached[s]
           n == sched[s]
           q == Hashed(pool, tokens[s], table[s], cached[s], sched[s])
<1>1. IInv /\ IInv' /\ HashesHold
  BY ChunkDoneStep DEF CacheInv
<1>2. /\ pool' = q /\ cached' = Put(cached, s, d + n) /\ sched' = Put(sched, s, 0)
      /\ status' = status /\ tokens' = tokens /\ table' = table /\ kv' = kv
      /\ status[s] = "waiting" /\ phase = "postprocess" /\ n > 0
      /\ \A r \in Seqs \ {s} : sched[r] > 0 => phase' = phase
  BY DEF ChunkDone, Advance, Put
<1> HIDE DEF q
<1>3. /\ \A b \in Block : q.hash[b] # Root => kv[b] = q.hash[b]
      /\ Computed(q, tokens[s], table[s], (d + n) \div BlockSize)
      /\ \A r \in Seqs \ {s} : \A b \in Elems(table[r]) : q.hash[b] = pool.hash[b]
  BY <1>2, HashedHolds DEF q
<1>4. /\ cached'[s] = d + n /\ sched'[s] = 0 /\ status'[s] = "waiting" /\ Others(s)
      /\ tokens'[s] = tokens[s] /\ table'[s] = table[s] /\ d \in Nat /\ n \in Nat
  BY <1>1, <1>2, IInvFacts DEF Others, Put
<1>5. HashesHold'
  BY <1>2, <1>3 DEF HashesHold
<1>6. Readable(s)' = d + n
  BY <1>4 DEF Readable
<1>7. Readable(s) = d + n
  BY <1>2 DEF Readable, LastWritten, DecodeStep
<1>8. StartsWith(table'[s], table[s])
  BY <1>4 DEF StartsWith
<1>9. (\A i \in 1..BlocksFor(Readable(s)) :
         kv[table[s][i]] = SubSeq(tokens[s], 1, Lesser(i * BlockSize, Readable(s))))'
  BY <1>2, <1>4, <1>6, <1>7, <1>8, ReadsTheSame
<1>10. Computed(pool', tokens'[s], table'[s], cached'[s] \div BlockSize)
  BY <1>2, <1>3, <1>4
<1>11. Holds(s)'
  BY <1>4, <1>9, <1>10 DEF Holds
<1>12. \A r \in Seqs \ {s} : \A b \in Elems(table[r]) :
         pool'.hash[b] = pool.hash[b] /\ kv'[b] = kv[b]
  BY <1>2, <1>3
<1> QED BY <1>1, <1>2, <1>4, <1>5, <1>11, <1>12, StepKeepsCache

(* A chained hash does not see the tokens appended behind its block.     *)
LEMMA ChainAppend ==
  ASSUME NEW toks \in Seq(Token), NEW t \in Token, NEW i \in Nat,
         i * BlockSize <= Len(toks)
  PROVE  Chain(Append(toks, t), i) = Chain(toks, i)
<1>1. i * BlockSize \in 0..Len(toks)
  BY MulMonotone, LenProperties
<1> QED BY <1>1, AppendPrefix DEF Chain

LEMMA TokenDoneKeepsCache ==
  ASSUME CacheInv, NEW s \in Seqs, NEW t \in Token, TokenDone(s, t)
  PROVE  CacheInv'
<1> DEFINE d == cached[s]
           n == sched[s]
           len == Len(tokens[s])
           q == Hashed(pool, tokens[s], table[s], cached[s], sched[s])
<1>1. IInv /\ IInv' /\ HashesHold /\ Holds(s)
  BY TokenDoneStep DEF CacheInv
<1>2. /\ pool' = q /\ cached' = Put(cached, s, d + n) /\ sched' = Put(sched, s, 0)
      /\ tokens' = Put(tokens, s, Append(tokens[s], t))
      /\ status' = status /\ table' = table /\ kv' = kv
      /\ status[s] = "running" /\ phase = "postprocess" /\ n > 0
      /\ \A r \in Seqs \ {s} : sched[r] > 0 => phase' = phase
  BY DEF TokenDone, Advance, Put
<1> HIDE DEF q
<1>3. /\ \A b \in Block : q.hash[b] # Root => kv[b] = q.hash[b]
      /\ Computed(q, tokens[s], table[s], (d + n) \div BlockSize)
      /\ \A r \in Seqs \ {s} : \A b \in Elems(table[r]) : q.hash[b] = pool.hash[b]
  BY <1>2, HashedHolds DEF q
<1>4. /\ cached'[s] = d + n /\ sched'[s] = 0 /\ status'[s] = "running" /\ Others(s)
      /\ tokens'[s] = Append(tokens[s], t) /\ table'[s] = table[s]
      /\ d \in Nat /\ n \in Nat /\ tokens[s] \in Seq(Token) /\ len \in Nat
  BY <1>1, <1>2, IInvFacts DEF Others, Put
<1>5. HashesHold'
  BY <1>2, <1>3 DEF HashesHold
<1>6. d + n <= len
  BY <1>1, IInvFacts DEF Covered
<1>7. Readable(s)' = len
  <2>1. Len(tokens'[s]) = len + 1 BY <1>4, AppendProperties
  <2> HIDE DEF len
  <2> QED BY <2>1, <1>4 DEF Readable
<1>8. Readable(s) = len
  <2>1. n = 1 \/ d + n = len BY <1>1, <1>2 DEF Holds
  <2>2. DecodeStep(s) <=> d + n < len BY <1>2 DEF DecodeStep
  <2>3. LastWritten(s) = IF n = 1 /\ DecodeStep(s) THEN len ELSE d + n BY DEF LastWritten
  <2>4. LastWritten(s) = len BY <2>1, <2>2, <2>3, <1>4, <1>6
  <2> QED BY <2>4, <1>2 DEF Readable
<1>9. StartsWith(table'[s], table[s])
  BY <1>4 DEF StartsWith
<1>10. (\A i \in 1..BlocksFor(Readable(s)) :
          kv[table[s][i]] = SubSeq(tokens[s], 1, Lesser(i * BlockSize, Readable(s))))'
  BY <1>2, <1>4, <1>7, <1>8, <1>9, ReadsTheSame
<1>11. Computed(pool', tokens'[s], table'[s], cached'[s] \div BlockSize)
  <2> DEFINE k == (d + n) \div BlockSize
  <2>1. k \in Nat /\ k * BlockSize <= d + n
    <3>1. d + n \in Nat BY <1>4
    <3> QED BY <3>1, DivisionFacts
  <2> HIDE DEF k
  <2>2. ASSUME NEW i \in 1..k PROVE q.hash[table[s][i]] = Chain(tokens'[s], i)
    <3>1. i \in Nat /\ i <= k BY <2>1
    <3>2. i * BlockSize <= len
      <4>1. i * BlockSize \in Nat /\ k * BlockSize \in Nat
            /\ i * BlockSize <= k * BlockSize
        BY <3>1, <2>1, MulMonotone
      <4> QED BY <4>1, <2>1, <1>4, <1>6
    <3>3. Chain(tokens'[s], i) = Chain(tokens[s], i)
      BY <3>1, <3>2, <1>4, ChainAppend
    <3> QED BY <3>3, <1>3 DEF Computed, k
  <2> QED BY <2>2, <1>2, <1>4 DEF Computed, k
<1>12. Holds(s)'
  <2>1. ~ (sched'[s] > 0) BY <1>4
  <2> QED BY <2>1, <1>10, <1>11 DEF Holds
<1>13. \A r \in Seqs \ {s} : \A b \in Elems(table[r]) :
         pool'.hash[b] = pool.hash[b] /\ kv'[b] = kv[b]
  BY <1>2, <1>3
<1> QED BY <1>1, <1>2, <1>4, <1>5, <1>12, <1>13, StepKeepsCache

LEMMA FinishKeepsCache ==
  ASSUME CacheInv, NEW s \in Seqs, Finish(s)
  PROVE  CacheInv'
<1> DEFINE q == Hashed(pool, tokens[s], table[s], cached[s], sched[s])
<1>1. IInv /\ IInv' /\ HashesHold
  BY FinishStep DEF CacheInv
<1>2. /\ pool' = Deallocated(q, table[s])
      /\ cached' = Put(cached, s, 0) /\ sched' = Put(sched, s, 0)
      /\ tokens' = Put(tokens, s, << >>) /\ table' = Put(table, s, << >>)
      /\ status' = Put(status, s, "idle") /\ kv' = kv
      /\ phase = "postprocess" /\ sched[s] > 0
      /\ \A r \in Seqs \ {s} : sched[r] > 0 => phase' = phase
  BY DEF Finish, Advance, Put
<1> HIDE DEF q
<1>3. /\ \A b \in Block : q.hash[b] # Root => kv[b] = q.hash[b]
      /\ \A r \in Seqs \ {s} : \A b \in Elems(table[r]) : q.hash[b] = pool.hash[b]
  BY <1>2, HashedHolds DEF q
<1>4. pool'.hash = q.hash
  BY <1>2 DEF Deallocated
<1>5. cached'[s] = 0 /\ sched'[s] = 0 /\ status'[s] = "idle" /\ Others(s)
  BY <1>1, <1>2, IInvFacts DEF Others, Put
<1>6. HashesHold'
  BY <1>2, <1>3, <1>4 DEF HashesHold
<1>7. Holds(s)'
  BY <1>5, NothingToHold
<1>8. \A r \in Seqs \ {s} : \A b \in Elems(table[r]) :
        pool'.hash[b] = pool.hash[b] /\ kv'[b] = kv[b]
  BY <1>2, <1>3, <1>4
<1> QED BY <1>1, <1>2, <1>5, <1>6, <1>7, <1>8, StepKeepsCache

(* A step writes behind the blocks that are computed in full: into blocks*)
(* the sequence has, holds alone, and that carry no hash.                *)
LEMMA WrittenOpen ==
  ASSUME IInv, NEW s \in Seqs, sched[s] > 0,
         NEW i \in BlocksFor(FirstWritten(s))..BlocksFor(LastWritten(s))
  PROVE  /\ i \in 1..Len(table[s]) /\ i \in Nat
         /\ table[s][i] \in Block /\ pool.hash[table[s][i]] = Root
         /\ pool.ref[table[s][i]] = 1
         /\ \A r \in Seqs \ {s} : table[s][i] \notin Elems(table[r])
<1> DEFINE first == FirstWritten(s)
           lo == BlocksFor(first)
           hi == BlocksFor(LastWritten(s))
           d == cached[s]
           k == d \div BlockSize
           size == Len(table[s])
<1>1. first \in Nat /\ d + 1 <= first /\ d \in Nat /\ hi \in Nat /\ hi <= size
      /\ size \in Nat
  <2>1. LastWritten(s) \in Nat BY PositionFacts
  <2>2. hi \in Nat BY <2>1, BlocksForFacts
  <2> QED BY <2>2, PositionFacts, InTable, IInvFacts
<1>2. k \in Nat /\ k * BlockSize <= d
  BY <1>1, DivisionFacts
<1>3. lo \in Nat /\ first <= lo * BlockSize
  BY <1>1, BlocksForFacts
<1> HIDE DEF first, hi, k, d, size
<1>4. k < lo
  <2> HIDE DEF lo
  <2>1. lo <= k => lo * BlockSize <= k * BlockSize
    BY <1>2, <1>3, MulMonotone
  <2>2. lo * BlockSize \in Nat /\ k * BlockSize \in Nat
    BY <1>2, <1>3, MulMonotone
  <2> QED BY <2>1, <2>2, <1>1, <1>2, <1>3
<1>5. i \in 1..size /\ i > k /\ i \in Nat
  <2>1. i \in lo..hi BY DEF first, hi
  <2> HIDE DEF lo
  <2> QED BY <2>1, <1>1, <1>2, <1>3, <1>4
<1>6. /\ table \in [Seqs -> Seq(Block)]
      /\ Accounts(pool, table, Seqs) /\ Indexed(pool, table, cached, Seqs)
  BY IInvFacts
<1> QED BY <1>5, <1>6, OpenBlockPrivate DEF k, d, size

(* What a step leaves in the blocks it writes, and in the others.        *)
LEMMA WrittenBlock ==
  ASSUME IInv, Run, NEW s \in Seqs, sched[s] > 0,
         NEW i \in BlocksFor(FirstWritten(s))..BlocksFor(LastWritten(s))
  PROVE  kv'[table[s][i]] = SubSeq(tokens[s], 1, Lesser(i * BlockSize, LastWritten(s)))
<1> DEFINE b == table[s][i]
           Writer == CHOOSE r \in Seqs : sched[r] > 0 /\ Writes(r, b)
           At == CHOOSE j \in DOMAIN table[s] : table[s][j] = b
<1>1. /\ i \in 1..Len(table[s]) /\ DOMAIN table[s] = 1..Len(table[s]) /\ b \in Block
      /\ \A r \in Seqs \ {s} : b \notin Elems(table[r])
  BY WrittenOpen, InTable
<1>2. Writes(s, b)
  BY <1>1 DEF Writes
<1>3. Writer \in Seqs /\ sched[Writer] > 0 /\ Writes(Writer, b)
  BY <1>2
<1>4. Writer = s
  <2> HIDE DEF Writer, b
  <2>1. \E j \in DOMAIN table[Writer] : table[Writer][j] = b
    BY <1>3 DEF Writes
  <2>2. DOMAIN table[Writer] = 1..Len(table[Writer])
    BY <1>3, InTable
  <2>3. b \in Elems(table[Writer])
    BY <2>1, <2>2 DEF Elems
  <2> QED BY <2>3, <1>1, <1>3
<1>5. kv'[b] = Written(Writer, b)
  <2>1. kv' = [c \in Block |->
                 IF \E r \in Seqs : sched[r] > 0 /\ Writes(r, c)
                 THEN Written(CHOOSE r \in Seqs : sched[r] > 0 /\ Writes(r, c), c)
                 ELSE kv[c]]
    BY DEF Run
  <2> HIDE DEF b
  <2> QED BY <2>1, <1>1, <1>3
<1>6. At = i
  <2>1. Distinct(table[s]) BY IInvFacts DEF Accounts
  <2>2. \A j \in DOMAIN table[s] : table[s][j] = b => j = i
    BY <2>1, <1>1 DEF Distinct
  <2> QED BY <2>2, <1>1
<1> HIDE DEF Writer
<1>7. Written(s, b) = SubSeq(tokens[s], 1, Lesser(At * BlockSize, LastWritten(s)))
  BY DEF Written, Lesser
<1> QED BY <1>4, <1>5, <1>6, <1>7

LEMMA KeptBlock ==
  ASSUME IInv, Run, NEW b \in Block,
         \A r \in Seqs : sched[r] > 0 =>
           \A j \in BlocksFor(FirstWritten(r))..BlocksFor(LastWritten(r)) :
             table[r][j] # b
  PROVE  kv'[b] = kv[b]
<1>1. ~ \E r \in Seqs : sched[r] > 0 /\ Writes(r, b)
  BY DEF Writes
<1> QED BY <1>1 DEF Run

(* A block that ends before a position is read in full up to it.         *)
LEMMA BlockBefore ==
  ASSUME NEW first \in Nat, first > 0, NEW i \in Nat, i < BlocksFor(first)
  PROVE  i * BlockSize <= first - 1
<1> DEFINE lo == BlocksFor(first)
           x == i * BlockSize
           y == lo * BlockSize
<1>1. lo \in Nat /\ y < first + BlockSize
  BY BlocksForFacts
<1>2. x \in Nat /\ x + BlockSize <= y /\ y \in Nat
  BY <1>1, MulMonotone
<1> HIDE DEF x, y
<1>3. x <= first - 1
  BY <1>1, <1>2, PoolAssumption
<1> QED BY <1>3 DEF x

LEMMA RunKeepsCache ==
  ASSUME CacheInv, Run
  PROVE  CacheInv'
<1>1. IInv /\ IInv' /\ HashesHold
  BY RunStep DEF CacheInv
<1>2. /\ pool' = pool /\ status' = status /\ tokens' = tokens /\ table' = table
      /\ cached' = cached /\ sched' = sched
      /\ phase = "schedule" /\ phase' = "postprocess"
  BY DEF Run
<1>3. HashesHold'
  <2> SUFFICES ASSUME NEW b \in Block, pool.hash[b] # Root
               PROVE  kv'[b] = pool.hash[b]
    BY <1>2 DEF HashesHold
  <2>1. \A r \in Seqs : sched[r] > 0 =>
          \A j \in BlocksFor(FirstWritten(r))..BlocksFor(LastWritten(r)) :
            table[r][j] # b
    BY <1>1, WrittenOpen
  <2>2. kv'[b] = kv[b]
    BY <1>1, <2>1, KeptBlock
  <2> QED BY <2>2, <1>1 DEF HashesHold
<1>4. ASSUME NEW s \in Seqs PROVE Holds(s)'
  <2>1. Holds(s) BY DEF CacheInv
  <2> DEFINE reads == Readable(s)
             reads1 == Readable(s)'
  <2>2. ASSUME NEW i \in 1..BlocksFor(reads1)
        PROVE  kv'[table[s][i]] = SubSeq(tokens[s], 1, Lesser(i * BlockSize, reads1))
    <3> DEFINE b == table[s][i]
               first == FirstWritten(s)
               last == LastWritten(s)
    <3>1. i \in 1..Len(table[s]) /\ b \in Block /\ b \in Elems(table[s]) /\ i \in Nat
      <4>1. BlocksFor(reads1) <= Len(table[s]) /\ Len(table[s]) \in Nat
        BY <1>1, <1>2, InTable, InTablePrimed DEF TablesSuffice
      <4>2. BlocksFor(reads1) \in Nat
        <5>1. reads1 \in Nat BY <1>1, InTablePrimed DEF TablesSuffice
        <5> QED BY <5>1, BlocksForFacts
      <4> HIDE DEF reads1
      <4>3. i \in 1..Len(table[s]) BY <4>1, <4>2
      <4> QED BY <4>3, <1>1, InTable
    <3>2. ASSUME NEW r \in Seqs, r # s, sched[r] > 0,
                 NEW j \in BlocksFor(FirstWritten(r))..BlocksFor(LastWritten(r))
          PROVE  table[r][j] # b
      BY <3>1, <3>2, <1>1, WrittenOpen
    <3>3. CASE ~ (sched[s] > 0)
      <4>1. reads1 = reads
        BY <3>3, <1>2 DEF Readable
      <4>2. kv'[b] = kv[b]
        BY <3>1, <3>2, <3>3, <1>1, KeptBlock
      <4> HIDE DEF reads, reads1, b
      <4>3. kv[b] = SubSeq(tokens[s], 1, Lesser(i * BlockSize, reads))
        BY <4>1, <2>1 DEF Holds, reads, b
      <4> QED BY <4>1, <4>2, <4>3 DEF b
    <3>4. CASE sched[s] > 0
      <4>1. reads = first - 1 /\ reads1 = last
        BY <3>4, <1>2 DEF Readable, LastWritten, DecodeStep
      <4>2. /\ first \in Nat /\ last \in Nat /\ first <= last /\ first > 0
            /\ BlocksFor(first) \in Nat /\ BlocksFor(last) \in Nat
        <5>1. /\ first \in Nat /\ last \in Nat /\ first <= last
              /\ cached[s] + 1 <= first /\ cached[s] \in Nat
          BY <3>4, <1>1, PositionFacts, IInvFacts
        <5> HIDE DEF first, last
        <5>2. first > 0 BY <5>1
        <5> QED BY <5>1, <5>2, BlocksForFacts
      <4>3. CASE i >= BlocksFor(first)
        <5>1. i \in BlocksFor(first)..BlocksFor(last)
          BY <4>1, <4>2, <4>3, <3>1
        <5> QED BY <5>1, <4>1, <3>4, <1>1, WrittenBlock
      <4>4. CASE i < BlocksFor(first)
        <5> HIDE DEF first, last
        <5>1. i * BlockSize <= first - 1 /\ i * BlockSize \in Nat
          BY <4>2, <4>4, <3>1, BlockBefore, MulMonotone
        <5>2. Lesser(i * BlockSize, last) = i * BlockSize
              /\ Lesser(i * BlockSize, first - 1) = i * BlockSize
          BY <5>1, <4>2 DEF Lesser
        <5>3. i \in 1..BlocksFor(reads)
          <6>1. first - 1 \in Nat BY <4>2
          <6>2. i <= BlocksFor(first - 1) /\ BlocksFor(first - 1) \in Nat
            BY <6>1, <5>1, <3>1, FilledBlock, BlocksForFacts
          <6>3. i >= 1 BY <3>1
          <6> QED BY <6>2, <6>3, <4>1, <3>1
        <5>4. kv[b] = SubSeq(tokens[s], 1, Lesser(i * BlockSize, reads))
          BY <5>3, <2>1 DEF Holds
        <5>5. ASSUME NEW j \in BlocksFor(first)..BlocksFor(last) PROVE table[s][j] # b
          <6>1. j \in 1..Len(table[s]) BY <3>4, <1>1, WrittenOpen DEF first, last
          <6>2. j # i BY <4>2, <4>4, <3>1
          <6>3. Distinct(table[s]) /\ DOMAIN table[s] = 1..Len(table[s])
            BY <1>1, IInvFacts, InTable DEF Accounts
          <6> QED BY <6>1, <6>2, <6>3, <3>1 DEF Distinct
        <5>6. kv'[b] = kv[b]
          <6>1. \A r \in Seqs : sched[r] > 0 =>
                  \A j \in BlocksFor(FirstWritten(r))..BlocksFor(LastWritten(r)) :
                    table[r][j] # b
            BY <3>2, <5>5 DEF first, last
          <6> QED BY <6>1, <3>1, <1>1, KeptBlock
        <5> QED BY <5>2, <5>4, <5>6, <4>1
      <4> QED BY <4>2, <4>3, <4>4, <3>1
    <3> QED BY <3>3, <3>4
  <2> QED BY <2>1, <2>2, <1>2 DEF Holds, Computed
<1> QED BY <1>1, <1>3, <1>4 DEF CacheInv

LEMMA ImportDecodeKeepsCache ==
  ASSUME CacheInv, NEW s \in Seqs, NEW prompt \in Prompts, NEW t \in Token,
         ImportDecode(s, prompt, t)
  PROVE  CacheInv'
<1> DEFINE m == Len(prompt)
           toks == Append(prompt, t)
           size == BlocksFor(m)
           new == Allocated(pool, toks, 0, m)
           Payload(i) == SubSeq(prompt, 1, IF i * BlockSize < m THEN i * BlockSize ELSE m)
           At(b) == CHOOSE j \in DOMAIN new.table : new.table[j] = b
<1>1. IInv /\ IInv' /\ HashesHold
  BY ImportDecodeStep DEF CacheInv
<1>2. /\ status[s] = "idle" /\ Len(pool.free) >= size
      /\ pool' = new.pool /\ table' = Put(table, s, new.table)
      /\ kv' = [b \in Block |-> IF \E i \in DOMAIN new.table : new.table[i] = b
                               THEN Payload(At(b)) ELSE kv[b]]
      /\ status' = Put(status, s, "running") /\ tokens' = Put(tokens, s, toks)
      /\ cached' = cached /\ sched' = sched /\ phase' = phase
  BY DEF ImportDecode, Put
<1>3. /\ prompt \in Seq(Token) /\ m \in Nat /\ toks \in Seq(Token) /\ Len(toks) = m + 1
      /\ size \in Nat
  <2>1. prompt \in Seq(Token) /\ m \in Nat BY ManagerAssumption, LenProperties
  <2> QED BY <2>1, AppendProperties, BlocksForFacts
<1>4. /\ PoolTyped(pool, Token) /\ Accounts(pool, table, Seqs)
      /\ Indexed(pool, table, cached, Seqs)
      /\ IsFiniteSet(Seqs) /\ table \in [Seqs -> Seq(Block)] /\ DOMAIN cached = Seqs
  BY <1>1, IInvFacts
<1>5. table[s] = << >> /\ cached[s] = 0 /\ sched[s] = 0
  BY <1>1, <1>2, IInvFacts DEF Covered
<1>6. HasNoBlocks(table, s)
  BY <1>5, EmptyTable DEF HasNoBlocks
<1>7. InCache(pool, toks, 0) /\ 0 <= size
      /\ size - 0 <= Len(ShareCached(pool, Cached(pool, toks, 0)).free)
  <2> HIDE DEF toks, size
  <2> QED BY <1>2, <1>3, <1>4, FreshFits
<1> HIDE DEF toks, new, m
<1>8. HeldKept(pool, new.pool, table, Seqs) /\ OnlyReset(pool, new.pool)
  BY <1>3, <1>4, <1>6, <1>7, AllocatedKeeps DEF size, new
<1> HIDE DEF size, Payload, At
<1>9. /\ table'[s] = new.table /\ tokens'[s] = toks /\ status'[s] = "running"
      /\ cached'[s] = 0 /\ sched'[s] = 0 /\ Others(s)
      /\ \A r \in Seqs \ {s} : table'[r] = table[r]
  BY <1>1, <1>2, <1>4, <1>5, IInvFacts DEF Others, Put
<1>10. /\ Accounts(pool', table', Seqs) /\ Indexed(pool', table', cached', Seqs)
       /\ table' \in [Seqs -> Seq(Block)]
  BY <1>1 DEF IInv, PoolConsistent, TypeOK
<1>11. ASSUME NEW i \in 1..Len(table'[s])
       PROVE  /\ table'[s][i] \in Block /\ pool'.hash[table'[s][i]] = Root
              /\ \A r \in Seqs \ {s} : table'[s][i] \notin Elems(table'[r])
  <2>1. i > cached'[s] \div BlockSize
    BY <1>9, ZeroBlocks
  <2> QED BY <2>1, <1>10, OpenBlockPrivate
<1>12. /\ new.table \in Seq(Block) /\ Distinct(new.table)
       /\ DOMAIN new.table = 1..Len(new.table) /\ Len(new.table) \in Nat
  BY <1>9, <1>10, LenProperties DEF Accounts
<1>13. HashesHold'
  <2> SUFFICES ASSUME NEW b \in Block, pool'.hash[b] # Root PROVE kv'[b] = pool'.hash[b]
    BY DEF HashesHold
  <2>1. ~ \E i \in DOMAIN new.table : new.table[i] = b
    BY <1>9, <1>11, <1>12
  <2>2. kv'[b] = kv[b]
    BY <2>1, <1>2
  <2> QED BY <2>2, <1>1, <1>2, <1>8 DEF HashesHold, OnlyReset
<1>14. ASSUME NEW r \in Seqs \ {s}, NEW b \in Elems(table[r])
       PROVE  pool'.hash[b] = pool.hash[b] /\ kv'[b] = kv[b]
  <2>1. b \in Block
    BY <1>1, InTable DEF Elems
  <2>2. ~ \E i \in DOMAIN new.table : new.table[i] = b
    BY <1>9, <1>11, <1>12
  <2>3. kv'[b] = kv[b]
    BY <2>1, <2>2, <1>2
  <2> QED BY <2>3, <1>2, <1>8 DEF HeldKept
<1>15. Readable(s)' = m
  <2>1. ~ (sched'[s] > 0) /\ Len(tokens'[s]) - 1 = m BY <1>3, <1>9
  <2> QED BY <2>1, <1>9 DEF Readable
<1>16. ASSUME NEW i \in 1..BlocksFor(Readable(s)')
       PROVE  kv'[table'[s][i]] = SubSeq(tokens'[s], 1, Lesser(i * BlockSize, Readable(s)'))
  <2>1. i \in 1..Len(new.table) /\ i \in Nat
    <3>1. BlocksFor(Readable(s)') <= Len(table'[s])
      BY <1>1, InTablePrimed DEF TablesSuffice
    <3>2. BlocksFor(Readable(s)') \in Nat
      BY <1>3, <1>15 DEF size
    <3> QED BY <3>1, <3>2, <1>9, <1>12
  <2>2. At(new.table[i]) = i
    <3>1. \A j \in DOMAIN new.table : new.table[j] = new.table[i] => j = i
      BY <2>1, <1>12 DEF Distinct
    <3> QED BY <3>1, <2>1, <1>12 DEF At
  <2>3. kv'[new.table[i]] = Payload(i)
    <3>1. new.table[i] \in Block /\ i \in DOMAIN new.table
      BY <2>1, <1>9, <1>11, <1>12
    <3> QED BY <2>2, <3>1, <1>2
  <2>4. Lesser(i * BlockSize, m) \in 0..m
    <3>1. i * BlockSize \in Nat BY <2>1, MulMonotone
    <3> QED BY <3>1, <1>3 DEF Lesser
  <2>5. SubSeq(toks, 1, Lesser(i * BlockSize, m)) = SubSeq(prompt, 1, Lesser(i * BlockSize, m))
    BY <2>4, <1>3, AppendPrefix DEF toks, m
  <2> QED BY <2>3, <2>5, <1>9, <1>15 DEF Payload, Lesser
<1>17. Computed(pool', tokens'[s], table'[s], cached'[s] \div BlockSize)
  <2>1. cached'[s] \div BlockSize = 0 /\ 1..0 = {} BY <1>9, ZeroBlocks
  <2> QED BY <2>1 DEF Computed
<1>18. Holds(s)'
  <2>1. ~ (sched'[s] > 0) BY <1>9
  <2> QED BY <2>1, <1>16, <1>17 DEF Holds
<1> QED BY <1>1, <1>2, <1>9, <1>13, <1>14, <1>18, StepKeepsCache

---------------------------------------------------------------------------
(* The invariant and what it gives.                                      *)

LEMMA InitCacheInv ==
  Init => CacheInv
<1> SUFFICES ASSUME Init PROVE CacheInv
  OBVIOUS
<1>1. IInv
  BY InitIInv
<1>2. HashesHold
  BY DEF Init, EmptyPool, HashesHold
<1>3. ASSUME NEW s \in Seqs PROVE Holds(s)
  <2>1. /\ status[s] = "idle" /\ cached[s] = 0 /\ sched[s] = 0
    BY DEF Init
  <2>2. Readable(s) = 0
    BY <2>1 DEF Readable
  <2>3. 1..0 = {}
    OBVIOUS
  <2> QED BY <2>1, <2>2, <2>3, ZeroBlocks DEF Holds, Computed
<1> QED BY <1>1, <1>2, <1>3 DEF CacheInv

LEMMA NextKeepsCache ==
  CacheInv /\ [Next]_vars => CacheInv'
<1> SUFFICES ASSUME CacheInv, [Next]_vars PROVE CacheInv'
  OBVIOUS
<1>1. ASSUME NEW s \in Seqs, NEW prompt \in Prompts, AddRequest(s, prompt)
      PROVE  CacheInv'
  BY <1>1, AddRequestKeepsCache
<1>2. ASSUME NEW s \in Seqs, NEW n \in 1..MaxLen, PrefillFirst(s, n)
      PROVE  CacheInv'
  BY <1>2, PrefillFirstKeepsCache
<1>3. ASSUME NEW s \in Seqs, NEW n \in 1..MaxLen, PrefillNext(s, n)
      PROVE  CacheInv'
  BY <1>3, PrefillNextKeepsCache
<1>4. ASSUME NEW s \in Seqs, Decode(s) PROVE CacheInv'
  BY <1>4, DecodeKeepsCache
<1>5. ASSUME NEW s \in Seqs, Preempt(s) PROVE CacheInv'
  BY <1>5, PreemptKeepsCache
<1>6. ASSUME NEW s \in Seqs, ChunkDone(s) PROVE CacheInv'
  BY <1>6, ChunkDoneKeepsCache
<1>7. ASSUME NEW s \in Seqs, NEW t \in Token, TokenDone(s, t) PROVE CacheInv'
  BY <1>7, TokenDoneKeepsCache
<1>8. ASSUME NEW s \in Seqs, Finish(s) PROVE CacheInv'
  BY <1>8, FinishKeepsCache
<1>9. ASSUME NEW s \in Seqs, NEW prompt \in Prompts, NEW t \in Token,
             ImportDecode(s, prompt, t)
      PROVE  CacheInv'
  BY <1>9, ImportDecodeKeepsCache
<1>10. CASE Run
  BY <1>10, RunKeepsCache
<1>11. CASE UNCHANGED vars
  BY <1>11 DEF vars, CacheInv, IInv, TypeOK, PoolConsistent, Covered, HashesHold,
               Holds, Readable, FirstWritten, LastWritten, DecodeStep
<1> QED BY <1>1, <1>2, <1>3, <1>4, <1>5, <1>6, <1>7, <1>8, <1>9, <1>10, <1>11
        DEF Next

(* However sequences share prefixes, grow, are preempted, finished and   *)
(* imported, a block that carries a hash holds the keys and values of that*)
(* prefix, and every readable block those of its sequence's own tokens.  *)
THEOREM CacheInvariant ==
  Spec => []CacheInv
<1> QED BY InitCacheInv, NextKeepsCache, PTL DEF Spec

(* The contents of a block that is read in part, as KVSound states it.   *)
LEMMA PrefixOfPrefix ==
  ASSUME NEW toks \in Seq(Token), NEW x \in 0..Len(toks)
  PROVE  /\ Len(SubSeq(toks, 1, x)) = x
         /\ SubSeq(SubSeq(toks, 1, x), 1, x) = SubSeq(toks, 1, x)
<1> DEFINE u == SubSeq(toks, 1, x)
<1>1. Len(toks) \in Nat /\ x \in Nat /\ x <= Len(toks)
  BY LenProperties
<1>2. \A i \in 1..x : toks[i] \in Token
  BY <1>1, LenProperties
<1>3. u \in Seq(Token) /\ Len(u) = IF 1 <= x THEN x - 1 + 1 ELSE 0
  BY <1>1, <1>2, SubSeqProperties
<1> HIDE DEF u
<1>4. Len(u) = x
  BY <1>1, <1>3
<1>5. SubSeq(u, 1, x) = u
  BY <1>3, <1>4, SubSeqFull
<1> QED BY <1>4, <1>5 DEF u

LEMMA CacheInvReads ==
  CacheInv => KVSound
<1> SUFFICES ASSUME CacheInv PROVE KVSound
  OBVIOUS
<1>1. IInv /\ HashesHold /\ \A s \in Seqs : Holds(s)
  BY DEF CacheInv
<1>2. IndexSound
  <2> SUFFICES ASSUME NEW h \in DOMAIN pool.map
               PROVE  pool.hash[pool.map[h]] = h /\ kv[pool.map[h]] = h
    BY DEF IndexSound
  <2>1. pool.hash[pool.map[h]] = h /\ h # Root
    BY <1>1 DEF IInv, Indexed
  <2>2. pool.map[h] \in Block
    BY <1>1 DEF IInv, TypeOK, PoolTyped
  <2> QED BY <2>1, <2>2, <1>1 DEF HashesHold
<1>3. ASSUME NEW s \in Seqs, NEW i \in 1..BlocksFor(Readable(s)),
             NEW x, x = IF i * BlockSize < Readable(s) THEN i * BlockSize ELSE Readable(s)
      PROVE  /\ Len(kv[table[s][i]]) \in x..(i * BlockSize)
             /\ SubSeq(kv[table[s][i]], 1, x) = SubSeq(tokens[s], 1, x)
  <2>1. kv[table[s][i]] = SubSeq(tokens[s], 1, x)
    BY <1>1, <1>3 DEF Holds, Lesser
  <2>2. /\ tokens[s] \in Seq(Token) /\ Len(tokens[s]) \in Nat
        /\ Readable(s) \in Nat /\ Readable(s) <= Len(tokens[s])
    BY <1>1, IInvFacts, PositionFacts
  <2>3. i * BlockSize \in Nat
    <3>1. BlocksFor(Readable(s)) \in Nat BY <2>2, BlocksForFacts
    <3>2. i \in Nat BY <3>1
    <3> QED BY <3>2, MulMonotone
  <2>4. x \in 0..Len(tokens[s]) /\ x <= i * BlockSize /\ x \in Nat
    BY <1>3, <2>2, <2>3
  <2>5. Len(kv[table[s][i]]) = x /\ SubSeq(kv[table[s][i]], 1, x) = SubSeq(tokens[s], 1, x)
    BY <2>1, <2>2, <2>4, PrefixOfPrefix
  <2> QED BY <2>3, <2>4, <2>5
<1>4. \A s \in Seqs : BlocksFor(Readable(s)) <= Len(table[s])
  BY <1>1, InTable
<1> QED BY <1>2, <1>3, <1>4 DEF KVSound

(* Attention never reads the keys and values of other tokens: what       *)
(* prepare_prefill and prepare_decode hand it is covered by the sequence's*)
(* block table and holds what that very prefix computes.                 *)
THEOREM ReadsOwnTokens ==
  Spec => []KVSound
<1> QED BY CacheInvReads, CacheInvariant, PTL

LEMMA IInvWritesPrivate ==
  IInv => WritesPrivate
<1> SUFFICES ASSUME IInv, NEW s \in Seqs, sched[s] > 0,
                    NEW i \in BlocksFor(FirstWritten(s))..BlocksFor(LastWritten(s))
             PROVE  /\ i \in DOMAIN table[s]
                    /\ pool.ref[table[s][i]] = 1
                    /\ pool.hash[table[s][i]] = Root
  BY DEF WritesPrivate
<1> QED BY WrittenOpen, InTable

(* The slots a forward pass writes are in blocks of one reference and no *)
(* hash: no other sequence and no cached prefix is written over.         *)
THEOREM WritesNothingShared ==
  Spec => []WritesPrivate
<1> QED BY IInvWritesPrivate, AccountsInvariant, PTL

---------------------------------------------------------------------------
(* Walks over the blocks of a prompt: _cached_prefix, preview_prefix_cache*)
(* and the aggregators' replay stop at the first block that does not match.*)

IsWalk(c, M, last) ==
  /\ c \in 0..last /\ \A i \in 1..c : i \in M
  /\ c < last => c + 1 \notin M

(* Two walks over the same matches end at the same block.                *)
LEMMA OneWalk ==
  ASSUME NEW last \in Nat, NEW M, NEW c, IsWalk(c, M, last), NEW d, IsWalk(d, M, last)
  PROVE  c = d
<1>1. c \in Nat /\ d \in Nat /\ c <= last /\ d <= last
  BY DEF IsWalk
<1>2. ~ (c < d)
  <2>1. c < d => c + 1 \in 1..d /\ c < last BY <1>1
  <2> QED BY <2>1 DEF IsWalk
<1>3. ~ (d < c)
  <2>1. d < c => d + 1 \in 1..c /\ d < last BY <1>1
  <2> QED BY <2>1 DEF IsWalk
<1> QED BY <1>1, <1>2, <1>3

(* Every walk ends.                                                      *)
LEMMA WalkExists ==
  ASSUME NEW last \in Nat, NEW M
  PROVE  \E c \in 0..last : /\ \A i \in 1..c : i \in M
                            /\ c < last => c + 1 \notin M
<1> DEFINE T == {c \in 0..last : c < last => c + 1 \notin M}
<1>1. last \in T /\ T \in SUBSET Nat
  OBVIOUS
<1>2. PICK c \in T : \A d \in T : c <= d
  <2> HIDE DEF T
  <2>1. T # {} BY <1>1
  <2> QED BY <2>1, <1>1, LeastNat
<1>3. ASSUME NEW i \in 1..c PROVE i \in M
  <2>1. i - 1 \in 0..last /\ i - 1 < last /\ ~ (c <= i - 1) /\ (i - 1) + 1 = i
    OBVIOUS
  <2>2. i - 1 \notin T BY <1>2, <2>1
  <2> QED BY <2>1, <2>2
<1> QED BY <1>2, <1>3

Hits(p, toks) == {i \in 1..(BlocksFor(Len(toks)) - 1) : Hit(p, toks, i)}

LEMMA CachedBlocksWalk ==
  ASSUME NEW p, NEW toks \in Seq(Token), Len(toks) > 0
  PROVE  /\ IsWalk(CachedBlocks(p, toks), Hits(p, toks), BlocksFor(Len(toks)) - 1)
         /\ BlocksFor(Len(toks)) - 1 \in Nat
         /\ \A i \in 1..(BlocksFor(Len(toks)) - 1) :
              i * BlockSize <= Len(toks) /\ i \in Nat
<1> DEFINE last == BlocksFor(Len(toks)) - 1
           M == Hits(p, toks)
<1>1. Len(toks) \in Nat
  BY LenProperties
<1>2. last \in Nat
  BY <1>1, BlocksForFacts
<1>3. ASSUME NEW i \in 1..last PROVE i * BlockSize <= Len(toks) /\ i \in Nat
  <2> DEFINE x == i * BlockSize
             y == BlocksFor(Len(toks)) * BlockSize
  <2>1. i \in Nat /\ BlocksFor(Len(toks)) \in Nat /\ i < BlocksFor(Len(toks))
    BY <1>1, <1>2, BlocksForFacts
  <2>2. x + BlockSize <= y /\ x \in Nat /\ y \in Nat
    BY <2>1, MulMonotone
  <2>3. y < Len(toks) + BlockSize
    BY <1>1, BlocksForFacts
  <2> HIDE DEF x, y
  <2>4. x <= Len(toks)
    BY <2>2, <2>3, <1>1, PoolAssumption
  <2> QED BY <2>1, <2>4 DEF x
<1> DEFINE P(c) == /\ \A i \in 1..c : Hit(p, toks, i)
                   /\ c < last => ~ Hit(p, toks, c + 1)
<1>4. \E c \in 0..last : P(c)
  <2>1. PICK c \in 0..last : (\A i \in 1..c : i \in M) /\ (c < last => c + 1 \notin M)
    BY <1>2, WalkExists
  <2>2. \A i \in 1..c : Hit(p, toks, i)
    BY <2>1 DEF Hits
  <2>3. c < last => c + 1 \in 1..last
    BY <1>2
  <2>4. c < last => ~ Hit(p, toks, c + 1)
    BY <2>1, <2>3 DEF Hits
  <2> QED BY <2>2, <2>4
<1>5. CachedBlocks(p, toks) \in 0..last /\ P(CachedBlocks(p, toks))
  BY <1>4 DEF CachedBlocks
<1>6. IsWalk(CachedBlocks(p, toks), M, last)
  <2> DEFINE c == CachedBlocks(p, toks)
  <2> HIDE DEF c
  <2>1. c \in 0..last /\ P(c) BY <1>5 DEF c
  <2>2. \A i \in 1..c : i \in 1..last BY <2>1, <1>2
  <2>3. \A i \in 1..c : i \in M BY <2>1, <2>2 DEF Hits
  <2>4. c < last => c + 1 \notin M BY <2>1 DEF Hits
  <2> QED BY <2>1, <2>3, <2>4 DEF IsWalk, c
<1> QED BY <1>2, <1>3, <1>6

(* The preview walks where the allocation will walk.                     *)
LEMMA PreviewFacts ==
  ASSUME NEW p, NEW toks \in Seq(Token), Len(toks) > 0,
         NEW v, v = PreviewPrefixCache(p, toks, 1)
  PROVE  /\ v.matched = CachedBlocks(p, toks)
         /\ v.full = BlocksFor(Len(toks))
         /\ v.active = ActiveCachedBlocks(p, toks)
         /\ v.incremental = BlocksFor(Len(toks)) - ActiveCachedBlocks(p, toks)
<1> DEFINE last == BlocksFor(Len(toks)) - 1
           Matches(i) == i * BlockSize <= Len(toks) /\ Hit(p, toks, i)
           P(c) == /\ \A i \in 1..c : Matches(i)
                   /\ c < last => ~ Matches(c + 1)
           matched == CHOOSE c \in 0..last : P(c)
           active == {i \in 1..matched : p.map[Chain(toks, i)] \in p.used}
           full == BlocksFor(Len(toks) + 1 - 1)
           M == Hits(p, toks)
<1>1. /\ IsWalk(CachedBlocks(p, toks), M, last) /\ last \in Nat
      /\ \A i \in 1..last : i * BlockSize <= Len(toks) /\ i \in Nat
  BY CachedBlocksWalk
<1>2. \A i \in 1..last : Matches(i) <=> i \in M
  BY <1>1 DEF Hits
<1>3. \A c \in 0..last : P(c) <=> IsWalk(c, M, last)
  <2> SUFFICES ASSUME NEW c \in 0..last PROVE P(c) <=> IsWalk(c, M, last)
    OBVIOUS
  <2>1. (\A i \in 1..c : i \in 1..last) /\ (c < last => c + 1 \in 1..last)
    BY <1>1
  <2> HIDE DEF Matches, M, last
  <2> QED BY <2>1, <1>2 DEF IsWalk
<1>4. matched \in 0..last /\ P(matched)
  <2>1. CachedBlocks(p, toks) \in 0..last BY <1>1 DEF IsWalk
  <2>2. P(CachedBlocks(p, toks)) BY <2>1, <1>1, <1>3
  <2> HIDE DEF P
  <2> QED BY <2>1, <2>2
<1> HIDE DEF P, matched
<1>5. matched = CachedBlocks(p, toks)
  BY <1>1, <1>3, <1>4, OneWalk
<1>6. full = BlocksFor(Len(toks))
  <2>1. Len(toks) \in Nat BY LenProperties
  <2>2. Len(toks) + 1 - 1 = Len(toks) BY <2>1
  <2> QED BY <2>2
<1>7. v = [full |-> full, matched |-> matched, active |-> Cardinality(active),
           incremental |-> full - Cardinality(active)]
  BY DEF PreviewPrefixCache, matched, P
<1>8. Cardinality(active) = ActiveCachedBlocks(p, toks)
  BY <1>5 DEF ActiveCachedBlocks
<1> HIDE DEF full, active
<1> QED BY <1>5, <1>6, <1>7, <1>8

(* No more blocks are in use than match.                                 *)
LEMMA ActiveAmongCached ==
  ASSUME NEW p, NEW toks \in Seq(Token), Len(toks) > 0
  PROVE  /\ CachedBlocks(p, toks) \in Nat /\ CachedBlocks(p, toks) < BlocksFor(Len(toks))
         /\ BlocksFor(Len(toks)) \in Nat
         /\ ActiveCachedBlocks(p, toks) \in Nat
         /\ ActiveCachedBlocks(p, toks) <= CachedBlocks(p, toks)
<1> DEFINE c == CachedBlocks(p, toks)
           A == {i \in 1..c : p.map[Chain(toks, i)] \in p.used}
<1>1. BlocksFor(Len(toks)) \in Nat
  BY LenProperties, BlocksForFacts
<1>2. c \in 0..(BlocksFor(Len(toks)) - 1)
  BY CachedBlocksFacts
<1>3. c \in Nat /\ c < BlocksFor(Len(toks))
  BY <1>1, <1>2
<1> HIDE DEF c
<1>4. IsFiniteSet(1..c) /\ Cardinality(1..c) = c
  BY <1>3, FS_Interval
<1>5. A \subseteq 1..c
  OBVIOUS
<1>6. IsFiniteSet(A) /\ Cardinality(A) <= c
  BY <1>4, <1>5, FS_Subset
<1>7. Cardinality(A) \in Nat
  BY <1>6, FS_CardinalityType
<1> QED BY <1>1, <1>3, <1>6, <1>7 DEF ActiveCachedBlocks, c

LEMMA IInvHonours ==
  IInv => PreviewHonoured
<1> SUFFICES ASSUME IInv, NEW s \in Seqs, status[s] = "waiting", table[s] = << >>,
                    NEW v, v = PreviewPrefixCache(pool, tokens[s], 1)
             PROVE  /\ v.matched = CachedBlocks(pool, tokens[s])
                    /\ v.incremental <= Len(pool.free)
                         => CanAllocate(pool, tokens[s], Len(tokens[s])) # -1
  BY DEF PreviewHonoured
<1> DEFINE toks == tokens[s]
           c == CachedBlocks(pool, toks)
           a == ActiveCachedBlocks(pool, toks)
           required == BlocksFor(Len(toks))
           free == Len(pool.free)
<1>1. toks \in Seq(Token) /\ Len(toks) > 0 /\ pool.free \in Seq(Block)
  BY IInvFacts DEF Covered, PoolTyped
<1>2. v.matched = c /\ v.incremental = required - a
  BY <1>1, PreviewFacts
<1>3. c \in Nat /\ c < required /\ required \in Nat /\ a \in Nat /\ a <= c /\ free \in Nat
  BY <1>1, ActiveAmongCached, LenProperties
<1>4. CanAllocate(pool, toks, Len(toks))
        = IF free < required - (IF a < (IF c < required THEN c ELSE required)
                                THEN a ELSE IF c < required THEN c ELSE required)
          THEN -1 ELSE IF c < required THEN c ELSE required
  BY DEF CanAllocate
<1> HIDE DEF c, a, required, free
<1>5. CanAllocate(pool, toks, Len(toks)) = IF free < required - a THEN -1 ELSE c
  <2>1. (IF c < required THEN c ELSE required) = c BY <1>3
  <2>2. (IF a < c THEN a ELSE c) = a BY <1>3
  <2> QED BY <2>1, <2>2, <1>4
<1>6. ~ (free < required - a) => CanAllocate(pool, toks, Len(toks)) # -1
  BY <1>3, <1>5
<1> QED BY <1>2, <1>3, <1>6 DEF c, a, required, free, toks

(* What admission previews the scheduler's allocation finds: the same    *)
(* prefix, and free blocks that cover the preview make can_allocate      *)
(* succeed.                                                              *)
THEOREM PreviewsHonoured ==
  Spec => []PreviewHonoured
<1> QED BY IInvHonours, AccountsInvariant, PTL

(* A snapshot lists one block for a hash, the one a lookup finds.        *)
LEMMA SnapshotFacts ==
  ASSUME NEW p, PoolTyped(p, Token),
         \A h \in DOMAIN p.map : p.hash[p.map[h]] = h /\ h # Root,
         NEW h
  PROVE  Listed(CacheStateSnapshot(p), h)
           = IF h \in DOMAIN p.map THEN {Entry(p, p.map[h])} ELSE {}
<1> DEFINE S == CacheStateSnapshot(p)
<1>1. ASSUME NEW x \in S, x.hash = h
      PROVE  h \in DOMAIN p.map /\ x = Entry(p, p.map[h])
  <2>1. PICK b \in Block : /\ x = Entry(p, b) /\ p.hash[b] \in DOMAIN p.map
                           /\ p.map[p.hash[b]] = b
    BY <1>1 DEF CacheStateSnapshot
  <2>2. p.hash[b] = h
    BY <2>1, <1>1 DEF Entry
  <2> QED BY <2>1, <2>2
<1>2. ASSUME h \in DOMAIN p.map
      PROVE  /\ Entry(p, p.map[h]) \in S
             /\ Entry(p, p.map[h]).hash = h
             /\ Entry(p, p.map[h]).block <= Entry(p, p.map[h]).block
  <2>1. p.map[h] \in Block /\ p.hash[p.map[h]] = h /\ h # Root
    BY <1>2 DEF PoolTyped
  <2>2. Entry(p, p.map[h]) \in S
    BY <2>1, <1>2 DEF CacheStateSnapshot
  <2>3. Entry(p, p.map[h]).hash = h /\ Entry(p, p.map[h]).block = p.map[h]
    BY <2>1 DEF Entry
  <2>4. p.map[h] \in Int
    BY <2>1, PoolAssumption DEF Block
  <2> QED BY <2>2, <2>3, <2>4
<1> HIDE DEF S
<1>3. ASSUME h \in DOMAIN p.map, NEW x \in S, x.hash = h
      PROVE  x.block <= Entry(p, p.map[h]).block
  BY <1>1, <1>2, <1>3
<1>4. CASE h \in DOMAIN p.map
  <2> DEFINE e == Entry(p, p.map[h])
  <2>1. e \in S /\ e.hash = h /\ \A y \in S : y.hash = h => y.block <= e.block
    BY <1>2, <1>3, <1>4
  <2>2. \A x \in S : x.hash = h => x = e
    BY <1>1
  <2> HIDE DEF e
  <2>3. Listed(S, h) = {e}
    BY <2>1, <2>2 DEF Listed
  <2> QED BY <2>3, <1>4 DEF e, S
<1>5. CASE h \notin DOMAIN p.map
  BY <1>1, <1>5 DEF Listed, S
<1> QED BY <1>4, <1>5

LEMMA ReplayFacts ==
  ASSUME NEW p, PoolTyped(p, Token),
         \A h \in DOMAIN p.map : p.hash[p.map[h]] = h /\ h # Root,
         NEW toks \in Seq(Token), Len(toks) > 0,
         NEW r, r = ReplayedMatch(CacheStateSnapshot(p), toks)
  PROVE  r = [i \in 1..CachedBlocks(p, toks) |-> Entry(p, p.map[Chain(toks, i)])]
<1> DEFINE S == CacheStateSnapshot(p)
           found(i) == {x \in Listed(S, Chain(toks, i)) : x.tokens = TokenBlock(toks, i)}
           last == BlocksFor(Len(toks)) - 1
           P(c) == /\ \A i \in 1..c : found(i) # {}
                   /\ c < last => found(c + 1) = {}
           matched == CHOOSE c \in 0..last : P(c)
           M == Hits(p, toks)
           E(i) == Entry(p, p.map[Chain(toks, i)])
<1>1. IsWalk(CachedBlocks(p, toks), M, last) /\ last \in Nat
  BY CachedBlocksWalk
<1>2. ASSUME NEW i PROVE found(i) = IF Hit(p, toks, i) THEN {E(i)} ELSE {}
  <2>1. Listed(S, Chain(toks, i))
          = IF Chain(toks, i) \in DOMAIN p.map THEN {E(i)} ELSE {}
    BY SnapshotFacts
  <2>2. E(i).tokens = TokenIds(p, p.map[Chain(toks, i)])
    BY DEF Entry
  <2> HIDE DEF S, E
  <2> QED BY <2>1, <2>2 DEF Hit
<1> HIDE DEF found
<1>3. \A c \in 0..last : P(c) <=> IsWalk(c, M, last)
  <2> SUFFICES ASSUME NEW c \in 0..last PROVE P(c) <=> IsWalk(c, M, last)
    OBVIOUS
  <2>1. (\A i \in 1..c : i \in 1..last) /\ (c < last => c + 1 \in 1..last)
    BY <1>1
  <2>2. \A i \in 1..last : found(i) # {} <=> i \in M
    BY <1>2 DEF Hits
  <2> HIDE DEF M, last
  <2> QED BY <2>1, <2>2 DEF IsWalk
<1>4. matched \in 0..last /\ P(matched)
  <2>1. CachedBlocks(p, toks) \in 0..last BY <1>1 DEF IsWalk
  <2>2. P(CachedBlocks(p, toks)) BY <2>1, <1>1, <1>3
  <2> HIDE DEF P
  <2> QED BY <2>1, <2>2
<1>5. r = [i \in 1..matched |-> CHOOSE x \in found(i) : TRUE]
  BY DEF ReplayedMatch, matched, P, found
<1>6. ASSUME NEW i \in 1..matched PROVE (CHOOSE x \in found(i) : TRUE) = E(i)
  <2>1. found(i) = {E(i)} BY <1>2, <1>4
  <2> HIDE DEF E
  <2> QED BY <2>1
<1> HIDE DEF P, matched
<1>7. matched = CachedBlocks(p, toks)
  BY <1>1, <1>3, <1>4, OneWalk
<1> QED BY <1>5, <1>6, <1>7

LEMMA IInvReplays ==
  IInv => ReplayAgrees
<1> SUFFICES ASSUME IInv, NEW prompt \in Prompts,
                    NEW v, v = PreviewPrefixCache(pool, prompt, 1),
                    NEW r, r = ReplayedMatch(CacheStateSnapshot(pool), prompt)
             PROVE  /\ [i \in DOMAIN r |-> r[i].block] = CachedTable(pool, prompt, v.matched)
                    /\ Cardinality({i \in DOMAIN r : r[i].used}) = v.active
                    /\ v.matched < v.full
  BY DEF ReplayAgrees
<1> DEFINE c == CachedBlocks(pool, prompt)
           b(i) == pool.map[Chain(prompt, i)]
<1>1. prompt \in Seq(Token) /\ Len(prompt) > 0
  BY ManagerAssumption
<1>2. /\ v.matched = c /\ v.full = BlocksFor(Len(prompt))
      /\ v.active = ActiveCachedBlocks(pool, prompt)
  BY <1>1, PreviewFacts
<1>3. PoolTyped(pool, Token)
      /\ \A h \in DOMAIN pool.map : pool.hash[pool.map[h]] = h /\ h # Root
  BY DEF IInv, TypeOK, Indexed
<1>4. r = [i \in 1..c |-> Entry(pool, b(i))]
  BY <1>1, <1>3, ReplayFacts
<1>5. v.matched < v.full
  BY <1>1, <1>2, ActiveAmongCached
<1>6. DOMAIN r = 1..c /\ \A i \in 1..c : r[i].block = b(i) /\ r[i].used = (b(i) \in pool.used)
  BY <1>4 DEF Entry
<1>7. [i \in DOMAIN r |-> r[i].block] = CachedTable(pool, prompt, v.matched)
  BY <1>2, <1>6 DEF CachedTable
<1>8. {i \in DOMAIN r : r[i].used} = {i \in 1..c : b(i) \in pool.used}
  BY <1>6
<1>9. Cardinality({i \in DOMAIN r : r[i].used}) = v.active
  BY <1>2, <1>8 DEF ActiveCachedBlocks
<1> QED BY <1>5, <1>7, <1>9

(* A recorded preview can be replayed: matched against the snapshot taken*)
(* with it, a prompt finds the same blocks, as many of them in use, and  *)
(* leaves at least one block to reserve.                                 *)
THEOREM PreviewsReplay ==
  Spec => []ReplayAgrees
<1> QED BY IInvReplays, AccountsInvariant, PTL

=============================================================================
