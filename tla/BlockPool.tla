----------------------------- MODULE BlockPool -----------------------------
(***************************************************************************)
(* The pure part of nanovllm/engine/block_manager.py: what each operation  *)
(* of BlockManager does to the pool of physical KV blocks.  A pool is a    *)
(* record with the five collections the class keeps:                       *)
(*   ref   block -> ref_count                                              *)
(*   hash  block -> Block.hash, Root standing for -1                       *)
(*   map   hash_to_block_id, a function whose domain is the dict's keys    *)
(*   free  free_block_ids, the deque, head = left end                      *)
(*   used  used_block_ids                                                  *)
(* A chained xxhash is modelled as injective: the hash of a block IS the   *)
(* token prefix it closes, so Block.token_ids is the last BlockSize tokens *)
(* of it and the token comparison after a lookup is kept as such.          *)
(* The module has no variables: BlockManager and Scheduler both apply it.  *)
(***************************************************************************)
EXTENDS Integers, Sequences, FiniteSets

CONSTANTS NumBlocks,  \* len(self.blocks)
          BlockSize   \* self.block_size

\* config.py requires kvcache_block_size % 256 = 0; the proofs need only > 1.
ASSUME PoolAssumption == NumBlocks \in Nat \ {0} /\ BlockSize \in Nat \ {0, 1}

Block == 0..(NumBlocks - 1)
Root == << >>

Elems(q) == {q[i] : i \in 1..Len(q)}

(* The subsequence of q whose members are in K.  Written as a recursive    *)
(* function, not with SelectSeq, so that its facts can be proved.          *)
Keep(q, K) ==
  LET f[i \in 0..Len(q)] ==
        IF i = 0 THEN << >>
        ELSE IF q[i] \in K THEN Append(f[i - 1], q[i]) ELSE f[i - 1]
  IN  f[Len(q)]

Reversed(q) == [i \in 1..Len(q) |-> q[Len(q) + 1 - i]]

EmptyPool ==
  [ref  |-> [b \in Block |-> 0],
   hash |-> [b \in Block |-> Root],
   map  |-> << >>,
   free |-> [i \in 1..NumBlocks |-> i - 1],
   used |-> {}]

---------------------------------------------------------------------------
(* Token geometry: Sequence.num_blocks, Sequence.block(i) with i from 1.   *)

BlocksFor(n) == (n + BlockSize - 1) \div BlockSize
TokenBlock(toks, i) ==
  SubSeq(toks, (i - 1) * BlockSize + 1,
         IF i * BlockSize < Len(toks) THEN i * BlockSize ELSE Len(toks))

ComputeHash(block, prefix) == prefix \o block
Chain(toks, i) == SubSeq(toks, 1, i * BlockSize)

(* What self.blocks[b].token_ids holds: update() and reset() set it        *)
(* together with the hash.                                                 *)
TokenIds(p, b) ==
  IF p.hash[b] = Root THEN << >>
  ELSE SubSeq(p.hash[b], Len(p.hash[b]) - BlockSize + 1, Len(p.hash[b]))

---------------------------------------------------------------------------
(* _cached_prefix: the walk stops at the first miss and never looks at the *)
(* last block of the sequence.                                             *)

Hit(p, toks, i) ==
  /\ Chain(toks, i) \in DOMAIN p.map
  /\ TokenIds(p, p.map[Chain(toks, i)]) = TokenBlock(toks, i)

CachedBlocks(p, toks) ==
  CHOOSE c \in 0..(BlocksFor(Len(toks)) - 1) :
    /\ \A i \in 1..c : Hit(p, toks, i)
    /\ c < BlocksFor(Len(toks)) - 1 => ~ Hit(p, toks, c + 1)

ActiveCachedBlocks(p, toks) ==
  Cardinality({i \in 1..CachedBlocks(p, toks) :
                 p.map[Chain(toks, i)] \in p.used})

(* Mutant: a cached block that is not in use is taken to need no free      *)
(* block either.                                                           *)
CanAllocateIgnoresIdle(p, toks, materialized) ==
  LET required == BlocksFor(materialized)
      cached == IF CachedBlocks(p, toks) < required
                THEN CachedBlocks(p, toks) ELSE required
  IN  IF Len(p.free) < required - cached THEN -1 ELSE cached

(* can_allocate: -1, or how many cached blocks allocate() will reuse.      *)
CanAllocate(p, toks, materialized) ==
  LET required == BlocksFor(materialized)
      cached == IF CachedBlocks(p, toks) < required
                THEN CachedBlocks(p, toks) ELSE required
      active == IF ActiveCachedBlocks(p, toks) < cached
                THEN ActiveCachedBlocks(p, toks) ELSE cached
  IN  IF Len(p.free) < required - active THEN -1 ELSE cached

(* Mutant: every matched block counts as active.                           *)
PreviewCountsIdle(p, prompt, maxTokens) ==
  LET full == BlocksFor(Len(prompt) + maxTokens - 1)
      Matches(i) == i * BlockSize <= Len(prompt) /\ Hit(p, prompt, i)
      last == BlocksFor(Len(prompt)) - 1
      matched == CHOOSE c \in 0..last : /\ \A i \in 1..c : Matches(i)
                                        /\ c < last => ~ Matches(c + 1)
  IN  [full |-> full, matched |-> matched, active |-> matched,
       incremental |-> full - matched]

(* preview_prefix_cache, the side-effect free read used by admission and   *)
(* the router.                                                             *)
PreviewPrefixCache(p, prompt, maxTokens) ==
  LET full == BlocksFor(Len(prompt) + maxTokens - 1)
      Matches(i) == i * BlockSize <= Len(prompt) /\ Hit(p, prompt, i)
      last == BlocksFor(Len(prompt)) - 1
      matched == CHOOSE c \in 0..last : /\ \A i \in 1..c : Matches(i)
                                        /\ c < last => ~ Matches(c + 1)
      active == {i \in 1..matched : p.map[Chain(prompt, i)] \in p.used}
  IN  [full |-> full, matched |-> matched, active |-> Cardinality(active),
       incremental |-> full - Cardinality(active)]

---------------------------------------------------------------------------
(* cache_state_snapshot, recorded next to a preview, and the walk by which *)
(* the aggregators match a prompt against it again.                        *)

Entry(p, b) == [block |-> b, hash |-> p.hash[b], tokens |-> TokenIds(p, b),
                used |-> b \in p.used]

(* Mutant: blocks whose hash now leads to another block are listed too.    *)
CacheStateOfHashed(p) == {Entry(p, b) : b \in {c \in Block : p.hash[c] # Root}}

CacheStateSnapshot(p) ==
  {Entry(p, b) : b \in {c \in Block : /\ p.hash[c] # Root
                                     /\ p.hash[c] \in DOMAIN p.map
                                     /\ p.map[p.hash[c]] = c}}

(* state_hashes: of entries with the same hash the last one counts.        *)
Listed(snapshot, h) ==
  {x \in snapshot : x.hash = h /\ \A y \in snapshot : y.hash = h => y.block <= x.block}

ReplayedMatch(snapshot, prompt) ==
  LET found(i) == {x \in Listed(snapshot, Chain(prompt, i)) :
                     x.tokens = TokenBlock(prompt, i)}
      last == BlocksFor(Len(prompt)) - 1
      matched == CHOOSE c \in 0..last : /\ \A i \in 1..c : found(i) # {}
                                        /\ c < last => found(c + 1) = {}
  IN  [i \in 1..matched |-> CHOOSE x \in found(i) : TRUE]

---------------------------------------------------------------------------
(* n calls of _allocate_block: the n blocks at the left end of the deque   *)
(* leave it, and a cached prefix they still held is forgotten.             *)

Popped(p, n) == {p.free[i] : i \in 1..n}

PopFree(p, n) ==
  [ref  |-> [b \in Block |-> IF b \in Popped(p, n) THEN 1 ELSE p.ref[b]],
   hash |-> [b \in Block |-> IF b \in Popped(p, n) THEN Root ELSE p.hash[b]],
   map  |-> [h \in {g \in DOMAIN p.map :
                      ~ (/\ p.map[g] \in Popped(p, n)
                         /\ p.hash[p.map[g]] = g)} |-> p.map[h]],
   free |-> SubSeq(p.free, n + 1, Len(p.free)),
   used |-> p.used \union Popped(p, n)]

(* The reuse loop of allocate(): block map[Chain(toks, i)] for i in 1..c.  *)
CachedTable(p, toks, c) == [i \in 1..c |-> p.map[Chain(toks, i)]]
Cached(p, toks, c) == {p.map[Chain(toks, i)] : i \in 1..c}

ShareCached(p, hits) ==
  [ref  |-> [b \in Block |-> IF b \notin hits THEN p.ref[b]
                             ELSE IF b \in p.used THEN p.ref[b] + 1 ELSE 1],
   hash |-> p.hash,
   map  |-> p.map,
   free |-> Keep(p.free, Block \ hits),
   used |-> p.used \union hits]

(* materialize() and may_append() append n freshly popped blocks.          *)
Extended(p, table, n) ==
  [pool |-> PopFree(p, n), table |-> table \o SubSeq(p.free, 1, n)]

(* allocate(seq, num_cached_blocks, materialized_tokens): the new pool and *)
(* the block table the sequence gets.                                      *)
Allocated(p, toks, c, materialized) ==
  LET shared == ShareCached(p, Cached(p, toks, c))
      fresh == IF BlocksFor(materialized) > c
               THEN BlocksFor(materialized) - c ELSE 0
  IN  Extended(shared, CachedTable(p, toks, c), fresh)

Missing(table, endTokens) ==
  IF BlocksFor(endTokens) > Len(table)
  THEN BlocksFor(endTokens) - Len(table) ELSE 0
CanMaterialize(p, table, endTokens) ==
  BlocksFor(endTokens) - Len(table) <= Len(p.free)

AppendNeeds(len) == IF len % BlockSize = 1 THEN 1 ELSE 0
CanAppend(p, len) == Len(p.free) >= AppendNeeds(len)

(* Mutants: the count drops in deallocate and in _deallocate_block; blocks *)
(* other sequences share are freed too.                                    *)
DeallocatedTwice(p, table) ==
  LET last == {b \in Elems(table) : p.ref[b] = 1}
  IN  [p EXCEPT !.ref = [b \in Block |-> IF b \in Elems(table)
                                         THEN p.ref[b] - 2 ELSE p.ref[b]],
                !.free = @ \o Keep(Reversed(table), last),
                !.used = @ \ last]
DeallocatedShared(p, table) ==
  [p EXCEPT !.ref = [b \in Block |-> IF b \in Elems(table)
                                     THEN p.ref[b] - 1 ELSE p.ref[b]],
            !.free = @ \o Reversed(table),
            !.used = @ \ Elems(table)]

(* deallocate(seq): references dropped from the last block of the table to *)
(* the first; a block whose count reaches 0 goes to the right end of the   *)
(* deque and keeps its hash.                                               *)
Deallocated(p, table) ==
  LET last == {b \in Elems(table) : p.ref[b] = 1}
  IN  [ref  |-> [b \in Block |-> IF b \in Elems(table)
                                 THEN p.ref[b] - 1 ELSE p.ref[b]],
       hash |-> p.hash,
       map  |-> p.map,
       free |-> p.free \o Keep(Reversed(table), last),
       used |-> p.used \ last]

(* Mutant: the block that is filled only in part is hashed too.            *)
HashedPartial(p, toks, table, cached, n) ==
  LET new == (cached \div BlockSize + 1)..BlocksFor(cached + n)
      H(i) == SubSeq(toks, 1, IF i * BlockSize < cached + n
                              THEN i * BlockSize ELSE cached + n)
  IN  [p EXCEPT
         !.hash = [b \in Block |->
                     IF \E i \in new : table[i] = b
                     THEN H(CHOOSE i \in new : table[i] = b) ELSE p.hash[b]],
         !.map = [h \in DOMAIN p.map \union {H(i) : i \in new} |->
                    IF \E i \in new : H(i) = h
                    THEN table[CHOOSE i \in new : H(i) = h] ELSE p.map[h]]]

(* hash_blocks(seq) after the tokens cached+1 .. cached+n were computed:   *)
(* the blocks they close are hashed, chained to the hash of the block      *)
(* before them, and entered in the dict (a later writer wins).             *)
Hashed(p, toks, table, cached, n) ==
  LET start == cached \div BlockSize
      end == (cached + n) \div BlockSize
      prefix == IF start = 0 THEN Root ELSE p.hash[table[start]]
      H(i) == ComputeHash(SubSeq(toks, start * BlockSize + 1, i * BlockSize),
                          prefix)
      new == (start + 1)..end
      At(b) == CHOOSE i \in new : table[i] = b
      Of(h) == CHOOSE i \in new : H(i) = h
  IN  [ref  |-> p.ref,
       hash |-> [b \in Block |-> IF \E i \in new : table[i] = b
                                 THEN H(At(b)) ELSE p.hash[b]],
       map  |-> [h \in DOMAIN p.map \union {H(i) : i \in new} |->
                   IF \E i \in new : H(i) = h
                   THEN table[Of(h)] ELSE p.map[h]],
       free |-> p.free,
       used |-> p.used]

---------------------------------------------------------------------------
(* What the operations above must preserve, for a pool p shared by the     *)
(* block tables tab[s], s \in Seqs, of which done[s] tokens are computed.  *)

Distinct(q) == \A i, j \in DOMAIN q : q[i] = q[j] => i = j

PoolTyped(p, Token) ==
  /\ DOMAIN p = {"ref", "hash", "map", "free", "used"}
  /\ p.ref \in [Block -> Nat]
  /\ p.hash \in [Block -> Seq(Token)]
  /\ DOMAIN p.map \subseteq Seq(Token)
  /\ \A h \in DOMAIN p.map : p.map[h] \in Block
  /\ p.free \in Seq(Block)
  /\ p.used \subseteq Block

HoldersOf(tab, Seqs, b) == {s \in Seqs : b \in Elems(tab[s])}
HolderCount(tab, Seqs, b) == Cardinality(HoldersOf(tab, Seqs, b))
Put(tab, s, t) == [tab EXCEPT ![s] = t]

(* Reference counts are numbers of tables, no table holds a block twice,   *)
(* and the free deque holds exactly the blocks nobody counts, once each.   *)
Accounts(p, tab, Seqs) ==
  /\ \A b \in Block : p.ref[b] = HolderCount(tab, Seqs, b)
  /\ \A s \in Seqs : Distinct(tab[s])
  /\ p.used = {b \in Block : p.ref[b] > 0}
  /\ Elems(p.free) = Block \ p.used
  /\ Distinct(p.free)

(* The index names blocks that carry the indexed hash; a block without a   *)
(* hash is shared by nobody; blocks not yet computed in full have no hash. *)
Indexed(p, tab, done, Seqs) ==
  /\ \A h \in DOMAIN p.map : p.hash[p.map[h]] = h /\ h # Root
  /\ \A b \in Block : p.hash[b] = Root => p.ref[b] <= 1
  /\ \A s \in Seqs : \A i \in DOMAIN tab[s] :
       i > done[s] \div BlockSize => p.hash[tab[s][i]] = Root
=============================================================================
