----------------------------- MODULE CrashProofs -----------------------------
(***************************************************************************)
(* What crashes and restarts leave intact, wherever they strike: BaseInv,   *)
(* the invariant of the nodes without the links and the validity of their   *)
(* chains, and StoreInv about the two trees, which is what a restart needs  *)
(* to establish BaseInv again. The stored blocks say their own places even  *)
(* when they are a mixture of two forks, and the stored entries come from a  *)
(* mempool, old or new.                                                     *)
(*                                                                         *)
(* Then the node that runs alone, which crashes too: what it has pending    *)
(* stays valid in its chain until a block takes it (AloneInv).              *)
(***************************************************************************)
EXTENDS NodeExpectations, NodeProofs

\* Finitely many entries, no two with one transaction or one input in common.
Apart(entries) ==
    /\ IsFiniteSet(entries)
    /\ \A e, f \in entries :
          e # f => e.tx # f.tx /\ Inputs(e.tx) \cap Inputs(f.tx) = {}

StoreInv ==
    \A n \in Node : Shaped(blocks_tree[n]) /\ Apart(mempool_tree[n])

CrashInv == BaseInv /\ StoreInv

-----------------------------------------------------------------------------
\* The stored mempool.

LEMMA ApartSubset ==
    ASSUME NEW entries, Apart(entries), NEW left \in SUBSET entries
    PROVE  Apart(left)
PROOF
<1>1. IsFiniteSet(left)
  BY FS_Subset DEF Apart
<1> QED
  BY <1>1 DEF Apart

\* What save_mempool stores of a consistent mempool.
LEMMA PoolApart ==
    ASSUME NEW pool \in Pool, Consistent(pool)
    PROVE  Apart(Range(pool.entries)) /\ Range(pool.entries) \in SUBSET Entry
PROOF
<1> DEFINE s == pool.entries
<1>1. s \in Seq(Entry)
  BY DEF Pool
<1>2. IsFiniteSet(Range(s))
  <2>1. s \in [1..Len(s) -> Range(s)] /\ Len(s) \in Nat
    BY <1>1 DEF Range
  <2>2. s \in Surjection(1..Len(s), Range(s))
    BY <2>1 DEF Surjection, Range
  <2>3. IsFiniteSet(1..Len(s))
    BY <2>1, FS_Interval
  <2> QED
    BY <2>2, <2>3, FS_Surjection
<1>3. ASSUME NEW e \in Range(s), NEW f \in Range(s), e # f
      PROVE  e.tx # f.tx /\ Inputs(e.tx) \cap Inputs(f.tx) = {}
  <2>1. PICK i \in DOMAIN s : s[i] = e
    BY DEF Range
  <2>2. PICK j \in DOMAIN s : s[j] = f
    BY DEF Range
  <2> QED
    BY <1>3, <2>1, <2>2 DEF Consistent
<1>4. Range(s) \in SUBSET Entry
  BY <1>1 DEF Range
<1> QED
  BY <1>2, <1>3, <1>4 DEF Apart

\* load_mempool builds a consistent mempool from entries that are apart.
LEMMA RestoredKeeps ==
    ASSUME NEW entries \in SUBSET Entry, Apart(entries), NEW blocks,
           NEW pool \in Restored(entries, blocks)
    PROVE  /\ pool \in Pool /\ Consistent(pool) /\ Sorted(pool)
           /\ Range(pool.entries)
                \subseteq {e \in entries : /\ ~IsCoinbase(e.tx)
                                          /\ ValidateAgainst(e.tx, BuildUtxoSet(blocks))}
PROOF
<1> DEFINE valid == {e \in entries : /\ ~IsCoinbase(e.tx)
                                     /\ ValidateAgainst(e.tx, BuildUtxoSet(blocks))}
           k == Cardinality(valid)
           f == pool.entries
<1>1. /\ pool \in [entries : SetToSeqs(valid),
                   reserved_inputs : {UNION {Inputs(e.tx) : e \in valid}}]
      /\ Sorted(pool)
  BY DEF Restored
<1>2. valid \in SUBSET entries
  OBVIOUS
<1> HIDE DEF valid
<1>3. Apart(valid) /\ valid \in SUBSET Entry /\ IsFiniteSet(valid) /\ k \in Nat
  BY <1>2, ApartSubset, FS_CardinalityType DEF Apart
<1>4. /\ f \in SetToSeqs(valid)
      /\ pool = [entries |-> f, reserved_inputs |-> UNION {Inputs(e.tx) : e \in valid}]
  BY <1>1
<1>5. f \in [1..k -> valid] /\ \A i, j \in 1..k : i # j => f[i] # f[j]
  BY <1>4 DEF SetToSeqs
<1> HIDE DEF k, f
<1>6. f \in Seq(Entry) /\ DOMAIN f = 1..k
  BY <1>3, <1>5
<1>7. Range(f) = valid
  <2>1. IsFiniteSet(1..k) /\ Cardinality(1..k) = k
    BY <1>3, FS_Interval
  <2>2. f \in Injection(1..k, valid)
    BY <1>5 DEF Injection, IsInjective
  <2>3. f \in Surjection(1..k, valid)
    BY <1>3, <2>1, <2>2, FS_Injection DEF k
  <2> QED
    BY <1>5, <2>3 DEF Surjection, Range
<1>8. pool.reserved_inputs = UNION {Inputs(tx) : tx \in PoolTxs(pool)}
  <2>1. PoolTxs(pool) = {e.tx : e \in valid}
    BY <1>7 DEF PoolTxs, f
  <2> QED
    BY <1>4, <2>1
<1>9. pool.reserved_inputs \in SUBSET OutPoint
  <2>1. ASSUME NEW e \in valid PROVE Inputs(e.tx) \subseteq OutPoint
    <3>1. e.tx \in Tx
      BY <1>3 DEF Entry
    <3>2. e.tx.vin \in Seq(OutPoint)
      BY <3>1 DEF Tx
    <3> QED
      BY <3>2 DEF Inputs, Range
  <2> QED
    BY <1>4, <2>1
<1>10. \A i, j \in DOMAIN pool.entries :
          i # j => /\ pool.entries[i].tx # pool.entries[j].tx
                   /\ Inputs(pool.entries[i].tx) \cap Inputs(pool.entries[j].tx) = {}
  BY <1>3, <1>5, <1>6 DEF Apart, f
<1>11. pool \in Pool
  BY <1>4, <1>6, <1>9 DEF Pool
<1>12. Range(pool.entries)
         \subseteq {e \in entries : /\ ~IsCoinbase(e.tx)
                                   /\ ValidateAgainst(e.tx, BuildUtxoSet(blocks))}
  BY <1>7 DEF f, valid
<1> QED
  BY <1>1, <1>8, <1>10, <1>11, <1>12 DEF Consistent

-----------------------------------------------------------------------------
\* The stored blocks.

\* What SaveSuffix leaves after any number of its saves.
LEMMA SavedShaped ==
    ASSUME BaseInv, StoreInv, NEW n \in Node, NEW candidate \in Seq(Block),
           Indexed(candidate), NEW k \in (Len(chain[n]) + 1)..Len(candidate)
    PROVE  LET saved == SaveSuffix(n, candidate, k) IN
           /\ saved \in Seq(Block)
           /\ Shaped(saved)
           /\ Len(saved) = k
PROOF
<1> DEFINE h == Len(chain[n])
           tree == blocks_tree[n]
           old == SubSeq(tree, 1, h)
           new == SubSeq(candidate, h + 1, k)
           saved == old \o new
<1>1. /\ h \in Nat /\ h > 0
      /\ tree \in Seq(Block) /\ Len(tree) = h
      /\ Shaped(tree)
  BY ChainFacts DEF BaseInv, StoreInv
<1>2. k \in Nat /\ k >= h + 1 /\ k <= Len(candidate) /\ Len(candidate) \in Nat
  BY <1>1
<1>3. SaveSuffix(n, candidate, k) = saved
  BY DEF SaveSuffix
<1> HIDE DEF h, tree
<1>4. old \in Seq(Block) /\ Len(old) = h /\ \A i \in 1..h : old[i] = tree[i]
  <2>1. 1 \in Int /\ h \in Int /\ \A i \in 1..h : tree[i] \in Block
    BY <1>1
  <2>2. /\ SubSeq(tree, 1, h) \in Seq(Block)
        /\ Len(SubSeq(tree, 1, h)) = IF 1 <= h THEN h - 1 + 1 ELSE 0
        /\ \A i \in 1..(h - 1 + 1) : SubSeq(tree, 1, h)[i] = tree[1 + i - 1]
    BY <2>1, SubSeqProperties
  <2> QED
    BY <1>1, <2>2
<1>5. /\ new \in Seq(Block) /\ Len(new) = k - h
      /\ \A i \in 1..(k - h) : new[i] = candidate[h + i]
  <2> DEFINE from == h + 1
  <2>1. from \in Int /\ k \in Int /\ from <= k /\ \A i \in from..k : candidate[i] \in Block
    BY <1>1, <1>2
  <2>2. k - from + 1 = k - h /\ \A i \in 1..(k - h) : from + i - 1 = h + i
    BY <1>1, <1>2
  <2> HIDE DEF from
  <2>3. /\ SubSeq(candidate, from, k) \in Seq(Block)
        /\ Len(SubSeq(candidate, from, k)) = k - from + 1
        /\ \A i \in 1..(k - from + 1) :
              SubSeq(candidate, from, k)[i] = candidate[from + i - 1]
    BY <2>1, SubSeqProperties
  <2>4. new = SubSeq(candidate, from, k)
    BY DEF from
  <2> HIDE DEF new
  <2>5. new \in Seq(Block) /\ Len(new) = k - h
    BY <2>2, <2>3, <2>4
  <2>6. ASSUME NEW i \in 1..(k - h) PROVE new[i] = candidate[h + i]
    <3>1. new[i] = candidate[from + i - 1]
      BY <2>2, <2>3, <2>4
    <3>2. from + i - 1 = h + i
      BY <2>2
    <3> QED
      BY <3>1, <3>2
  <2> QED
    BY <2>5, <2>6
<1> HIDE DEF old, new
<1>6. /\ saved \in Seq(Block)
      /\ Len(saved) = k
      /\ \A i \in 1..k : saved[i] = IF i <= h THEN old[i] ELSE new[i - h]
  <2> HIDE DEF saved
  <2>1. /\ old \o new \in Seq(Block)
        /\ Len(old \o new) = Len(old) + Len(new)
        /\ \A i \in 1..(Len(old) + Len(new)) :
              (old \o new)[i] = IF i <= Len(old) THEN old[i] ELSE new[i - Len(old)]
    BY <1>4, <1>5, ConcatProperties
  <2>2. Len(old) + Len(new) = k /\ Len(old) = h
    BY <1>1, <1>2, <1>4, <1>5
  <2>3. saved = old \o new
    BY DEF saved
  <2> QED
    BY <2>1, <2>2, <2>3
<1>7. DOMAIN saved = 1..k /\ DOMAIN tree = 1..h /\ DOMAIN candidate = 1..Len(candidate)
  BY <1>1, <1>6
<1> HIDE DEF saved
<1>8. ASSUME NEW i \in 1..k PROVE saved[i].index = i - 1
  <2>1. CASE i <= h
    BY <1>1, <1>4, <1>6, <1>7, <2>1 DEF Shaped, Indexed
  <2>2. CASE ~(i <= h)
    <3>1. i - h \in 1..(k - h) /\ h + (i - h) = i /\ i \in DOMAIN candidate
      BY <1>1, <1>2, <1>7, <2>2
    <3>2. saved[i] = candidate[i]
      BY <1>5, <1>6, <2>2, <3>1
    <3> QED
      BY <3>1, <3>2 DEF Indexed
  <2> QED
    BY <2>1, <2>2
<1>9. saved # <<>> /\ saved[1].hash = Genesis.hash
  <2>1. 1 \in 1..h /\ 1 \in 1..k /\ 1 <= h
    BY <1>1, <1>2
  <2>2. saved[1] = tree[1]
    BY <1>4, <1>6, <2>1
  <2> QED
    BY <1>1, <1>7, <2>1, <2>2 DEF Shaped
<1> QED
  BY <1>3, <1>6, <1>7, <1>8, <1>9 DEF Shaped, Indexed

-----------------------------------------------------------------------------
\* Restarts.

LEMMA RestartStep ==
    ASSUME CrashInv, NEW n \in Node, NEW blocks \in Seq(Block), Shaped(blocks),
           NEW entries \in SUBSET Entry, Apart(entries), Restart(n, blocks, entries)
    PROVE  CrashInv'
PROOF
<1>1. ShapeInv'
  BY MoveChain DEF CrashInv, BaseInv, Restart
<1>2. PoolInv'
  <2>1. PICK pool \in Restored(entries, blocks) : mempool' = [mempool EXCEPT ![n] = pool]
    BY DEF Restart
  <2>2. pool \in Pool /\ Consistent(pool) /\ Sorted(pool)
    BY RestoredKeeps
  <2>3. \A m \in Node : mempool'[m] = IF m = n THEN pool ELSE mempool[m]
    BY <2>1 DEF CrashInv, BaseInv, PoolInv
  <2>4. mempool' \in [Node -> Pool]
    BY <2>1, <2>2 DEF CrashInv, BaseInv, PoolInv
  <2> QED
    BY <2>2, <2>3, <2>4 DEF CrashInv, BaseInv, PoolInv, PoolsConsistent
<1>3. LoopInv'
  BY GenesisFacts, NodeAssumption DEF CrashInv, BaseInv, LoopInv, Restart
<1>4. JobFresh'
  <2>1. /\ pc' = [pc EXCEPT ![n] = "idle"]
        /\ job' = [job EXCEPT ![n] = NoJob]
        /\ chain' = [chain EXCEPT ![n] = blocks]
        /\ difficulty' = [difficulty EXCEPT ![n] = Last(blocks).difficulty]
    BY DEF Restart
  <2> QED
    BY <2>1 DEF CrashInv, BaseInv, ShapeInv, LoopInv, JobFresh, Tip
<1>5. StoreInv'
  <2>1. /\ blocks_tree' = [blocks_tree EXCEPT ![n] = blocks]
        /\ mempool_tree' = [mempool_tree EXCEPT ![n] = entries]
    BY DEF Restart
  <2> QED
    BY <2>1 DEF CrashInv, BaseInv, ShapeInv, LoopInv, StoreInv
<1> QED
  BY <1>1, <1>2, <1>3, <1>4, <1>5 DEF CrashInv, BaseInv

\* The entries a crash leaves are stored ones, or those of a save it cut short.
Salvaged(n, entries) ==
    \/ entries \subseteq mempool_tree[n]
    \/ \E to \in Wallet, amount \in Amounts, fee \in Fees :
          \E tx \in Creatable(n, to, amount, fee) \cap Tx :
             entries \subseteq Range(Add(mempool[n], tx, fee).entries)

\* What a crash leaves to restart from: at least as many blocks as before.
LEMMA CrashLeaves ==
    ASSUME CrashInv, NEW n \in Node, Crash(n) \/ CrashInReplace(n) \/ CrashInSave(n)
    PROVE  \E blocks \in Seq(Block), entries \in SUBSET Entry :
              /\ Shaped(blocks)
              /\ Len(blocks) >= Len(chain[n])
              /\ Apart(entries)
              /\ Salvaged(n, entries)
              /\ Restart(n, blocks, entries)
PROOF
<1>1. /\ blocks_tree[n] \in Seq(Block)
      /\ Shaped(blocks_tree[n])
      /\ Len(blocks_tree[n]) = Len(chain[n])
      /\ Len(chain[n]) \in Nat
      /\ mempool_tree[n] \in SUBSET Entry
      /\ Apart(mempool_tree[n])
  BY ChainFacts DEF CrashInv, BaseInv, LoopInv, StoreInv
<1>2. CASE Crash(n)
  BY <1>1, <1>2 DEF Crash, Salvaged
<1>3. CASE CrashInReplace(n)
  <2>1. PICK c \in published : \E s \in 1..Len(c) :
           \E k \in (Len(chain[n]) + 1)..Len(Merge(chain[n], c, s)) :
              Restart(n, SaveSuffix(n, Merge(chain[n], c, s), k), mempool_tree[n])
    BY <1>3 DEF CrashInReplace
  <2>2. PICK s \in 1..Len(c) :
           \E k \in (Len(chain[n]) + 1)..Len(Merge(chain[n], c, s)) :
              Restart(n, SaveSuffix(n, Merge(chain[n], c, s), k), mempool_tree[n])
    BY <2>1
  <2> DEFINE candidate == Merge(chain[n], c, s)
  <2>3. candidate \in Seq(Block) /\ Indexed(candidate)
    BY ChainFacts, PublishedBlocks, MergeKeeps DEF CrashInv, BaseInv, Shaped
  <2> HIDE DEF candidate
  <2>4. PICK k \in (Len(chain[n]) + 1)..Len(candidate) :
           Restart(n, SaveSuffix(n, candidate, k), mempool_tree[n])
    BY <2>2 DEF candidate
  <2>5. /\ SaveSuffix(n, candidate, k) \in Seq(Block)
        /\ Shaped(SaveSuffix(n, candidate, k))
        /\ Len(SaveSuffix(n, candidate, k)) = k
    BY <2>3, SavedShaped DEF CrashInv
  <2>6. k >= Len(chain[n])
    BY <1>1
  <2> QED
    BY <1>1, <2>4, <2>5, <2>6 DEF Salvaged
<1>4. CASE CrashInSave(n)
  <2>1. PICK to \in Wallet, amount \in Amounts, fee \in Fees :
           \E tx \in Creatable(n, to, amount, fee) \cap Tx :
              \E left \in (SUBSET mempool_tree[n])
                            \cup (SUBSET Range(Add(mempool[n], tx, fee).entries)) :
                 Restart(n, blocks_tree[n], left)
    BY <1>4 DEF CrashInSave
  <2>2. PICK tx \in Creatable(n, to, amount, fee) \cap Tx :
           \E left \in (SUBSET mempool_tree[n])
                         \cup (SUBSET Range(Add(mempool[n], tx, fee).entries)) :
              Restart(n, blocks_tree[n], left)
    BY <2>1
  <2> DEFINE new == Range(Add(mempool[n], tx, fee).entries)
  <2>3. new \in SUBSET Entry /\ Apart(new)
    <3>1. mempool[n] \in Pool /\ Consistent(mempool[n]) /\ fee \in Nat
      BY NodeAssumption DEF CrashInv, BaseInv, PoolInv, PoolsConsistent
    <3>2. tx \in Tx /\ CanAdd(mempool[n], tx)
      BY DEF Creatable
    <3> QED
      BY <3>1, <3>2, AddKeeps, PoolApart
  <2>4. PICK left \in (SUBSET mempool_tree[n]) \cup (SUBSET new) :
           Restart(n, blocks_tree[n], left)
    BY <2>2
  <2>6. Salvaged(n, left)
    BY <2>1, <2>2, <2>4 DEF Salvaged
  <2> HIDE DEF new
  <2>5. left \in SUBSET Entry /\ Apart(left)
    BY <1>1, <2>3, ApartSubset
  <2> QED
    BY <1>1, <2>4, <2>5, <2>6
<1> QED
  BY <1>2, <1>3, <1>4

-----------------------------------------------------------------------------
\* Steps between crashes keep the store ready for one.

LEMMA SendStores ==
    ASSUME CrashInv, NEW n \in Node, NEW to, NEW amount, NEW fee \in Nat,
           Send(n, to, amount, fee)
    PROVE  \A m \in Node : Apart(mempool_tree'[m])
PROOF
<1>1. PICK tx \in Creatable(n, to, amount, fee) \cap Tx :
         /\ AddToPool(n, tx, fee)
         /\ mempool_tree' = [mempool_tree EXCEPT ![n] = Range(mempool'[n].entries)]
  BY DEF Send
<1>2. tx \in Tx /\ CanAdd(mempool[n], tx)
  BY DEF Creatable
<1>3. PoolInv'
  BY <1>1, <1>2, AddStep DEF CrashInv, BaseInv
<1>4. mempool'[n] \in Pool /\ Consistent(mempool'[n])
  BY <1>3 DEF PoolInv, PoolsConsistent
<1>5. Apart(Range(mempool'[n].entries))
  BY <1>4, PoolApart
<1> QED
  BY <1>1, <1>5 DEF CrashInv, BaseInv, LoopInv, StoreInv

\* The only steps that store blocks.
LEMMA BlocksStore ==
    ASSUME CrashInv, NEW n \in Node, MineAppend(n) \/ NewBlock(n) \/ BlocksBatch(n)
    PROVE  \A m \in Node : Shaped(blocks_tree'[m])
PROOF
<1>1. /\ blocks_tree \in [Node -> Seq(Block)]
      /\ \A m \in Node : Shaped(blocks_tree[m])
      /\ Len(blocks_tree[n]) = Len(chain[n])
  BY ChainFacts DEF CrashInv, BaseInv, ShapeInv, StoreInv
<1>2. ASSUME NEW b \in Block, AppendBlock(n, b)
      PROVE  \A m \in Node : Shaped(blocks_tree'[m])
  <2>1. /\ blocks_tree' = [blocks_tree EXCEPT ![n] = Append(blocks_tree[n], b)]
        /\ b.index = Len(blocks_tree[n])
    BY <1>1, <1>2 DEF AppendBlock, Appendable
  <2>2. Shaped(Append(blocks_tree[n], b))
    BY <1>1, <2>1, AppendShaped
  <2> QED
    BY <1>1, <2>1, <2>2
<1>3. CASE MineAppend(n)
  <2>1. job[n] \in Block
    BY DEF CrashInv, BaseInv, LoopInv
  <2>2. AppendBlock(n, job[n]) \/ UNCHANGED blocks_tree
    BY <1>3 DEF MineAppend
  <2> QED
    BY <1>1, <1>2, <2>1, <2>2
<1>4. CASE NewBlock(n)
  <2>1. PICK c \in published : AppendBlock(n, Last(c))
    BY <1>4 DEF NewBlock
  <2>2. Last(c) \in Block
    BY PublishedBlocks DEF CrashInv, BaseInv
  <2> QED
    BY <1>2, <2>1, <2>2
<1>5. CASE BlocksBatch(n)
  <2>1. PICK c \in published : \E s \in 1..Len(c) :
           ReplaceChain(n, Merge(chain[n], c, s)) \/ UNCHANGED blocks_tree
    BY <1>5 DEF BlocksBatch
  <2>2. PICK s \in 1..Len(c) :
           ReplaceChain(n, Merge(chain[n], c, s)) \/ UNCHANGED blocks_tree
    BY <2>1
  <2> DEFINE candidate == Merge(chain[n], c, s)
             saved == SaveSuffix(n, candidate, Len(candidate))
  <2>3. candidate \in Seq(Block) /\ Indexed(candidate)
    BY ChainFacts, PublishedBlocks, MergeKeeps DEF CrashInv, BaseInv, Shaped
  <2> HIDE DEF candidate
  <2>4. CASE ReplaceChain(n, candidate)
    <3>1. /\ Len(candidate) > Len(chain[n])
          /\ blocks_tree' = [blocks_tree EXCEPT ![n] = saved]
      BY <2>4 DEF ReplaceChain, Replaceable
    <3>2. Len(candidate) \in (Len(chain[n]) + 1)..Len(candidate)
      BY <2>3, <3>1, ChainFacts DEF CrashInv, BaseInv
    <3>3. Shaped(saved)
      BY <2>3, <3>2, SavedShaped DEF CrashInv
    <3> HIDE DEF saved
    <3> QED
      BY <1>1, <3>1, <3>3
  <2>5. CASE UNCHANGED blocks_tree
    BY <1>1, <2>5
  <2> QED
    BY <2>2, <2>4, <2>5 DEF candidate
<1> QED
  BY <1>3, <1>4, <1>5

LEMMA NextStore == CrashInv /\ [Next]_vars => StoreInv'
PROOF
<1> SUFFICES ASSUME CrashInv, [Next]_vars PROVE StoreInv'
  OBVIOUS
<1>1. ASSUME NEW n \in Node, NodeStep(n) PROVE \A m \in Node : Apart(mempool_tree'[m])
  <2>1. CASE ConsoleSend(n)
    <3>1. PICK to \in Wallet, amount \in Amounts, fee \in Fees : Send(n, to, amount, fee)
      BY <2>1 DEF ConsoleSend
    <3> QED
      BY <3>1, SendStores, NodeAssumption
  <2>2. CASE RunSend(n)
    <3> DEFINE c == Head(cmds[n])
    <3>1. cmds[n] \in Seq(Payload) /\ cmds[n] # <<>>
      BY <2>2 DEF CrashInv, BaseInv, LoopInv, RunSend
    <3>2. c \in Payload
      BY <3>1
    <3>3. Send(n, c.to, c.amount, c.fee) \/ UNCHANGED mempool_tree
      BY <2>2 DEF RunSend
    <3> HIDE DEF c
    <3>4. c.fee \in Nat
      BY <3>2 DEF Payload
    <3> QED
      BY <3>3, <3>4, SendStores DEF CrashInv, StoreInv
  <2>3. CASE UNCHANGED mempool_tree
    BY <2>3 DEF CrashInv, StoreInv
  <2>4. ConsoleSend(n) \/ RunSend(n) \/ UNCHANGED mempool_tree
    BY <1>1 DEF NodeStep, PostSend, MineCollect, MineFees, MineAppend, NewBlock,
                BlocksBatch, DrainBuffer, NewTx, MempoolTxs, AddNext, Subscribed,
                Unsynchronised, store
  <2> QED
    BY <2>1, <2>2, <2>3, <2>4
<1>2. ASSUME NEW n \in Node, NodeStep(n) PROVE \A m \in Node : Shaped(blocks_tree'[m])
  <2>1. CASE UNCHANGED blocks_tree
    BY <2>1 DEF CrashInv, StoreInv
  <2>2. MineAppend(n) \/ NewBlock(n) \/ BlocksBatch(n) \/ UNCHANGED blocks_tree
    BY <1>2 DEF NodeStep, ConsoleSend, PostSend, RunSend, MineCollect, MineFees,
                DrainBuffer, NewTx, MempoolTxs, AddNext, Subscribed, Unsynchronised,
                store
  <2> QED
    BY <2>1, <2>2, BlocksStore
<1>3. CASE UNCHANGED vars
  BY <1>3 DEF vars, store, CrashInv, StoreInv
<1> QED
  BY <1>1, <1>2, <1>3 DEF Next, StoreInv

LEMMA InitCrash == Init => CrashInv
PROOF
<1>1. Init => StoreInv
  <2>1. Apart({})
    BY FS_EmptySet DEF Apart
  <2> QED
    BY <2>1, GenesisFacts DEF Init, StoreInv
<1> QED
  BY <1>1, InitBase DEF CrashInv

LEMMA NextCrash == CrashInv /\ [CrashNext]_vars => CrashInv'
PROOF
<1>1. CrashInv /\ [Next]_vars => CrashInv'
  BY NextBase, NextStore DEF CrashInv
<1>2. ASSUME CrashInv, NEW n \in Node, Crash(n) \/ CrashInReplace(n) \/ CrashInSave(n)
      PROVE  CrashInv'
  BY <1>2, CrashLeaves, RestartStep
<1> QED
  BY <1>1, <1>2 DEF CrashNext

LEMMA SpecCrash == CrashSpec => []CrashInv
PROOF
  BY InitCrash, NextCrash, PTL DEF CrashSpec

\* What a crash leaves behind are payments: a restart takes no coinbase.
LEMMA RestartPaid ==
    ASSUME CrashInv, PaidInv, NEW n \in Node, NEW blocks,
           NEW entries \in SUBSET Entry, Apart(entries), Restart(n, blocks, entries)
    PROVE  PaidInv'
PROOF
<1>1. PICK pool \in Restored(entries, blocks) : mempool' = [mempool EXCEPT ![n] = pool]
  BY DEF Restart
<1>2. PoolTxs(pool) \subseteq Paid
  BY RestoredKeeps DEF PoolTxs, Entry, Paid
<1>3. \A m \in Node : PoolTxs(mempool'[m]) \subseteq Paid
  BY <1>1, <1>2 DEF PaidInv, CrashInv, BaseInv, PoolInv
<1>4. UNCHANGED <<new_txs, mempool_txs>>
  BY DEF Restart
<1>5. todo' \in [Node -> Seq(Paid)] /\ tx_buffer' \in [Node -> Seq(Paid)]
  BY DEF Restart, PaidInv
<1> QED
  BY <1>3, <1>4, <1>5 DEF PaidInv

LEMMA CrashPaid == CrashInv /\ PaidInv /\ [CrashNext]_vars => PaidInv'
PROOF
<1>1. CrashInv /\ PaidInv /\ [Next]_vars => PaidInv'
  BY NextPaid DEF CrashInv
<1>2. ASSUME CrashInv, PaidInv, NEW n \in Node,
             Crash(n) \/ CrashInReplace(n) \/ CrashInSave(n)
      PROVE  PaidInv'
  BY <1>2, CrashLeaves, RestartPaid
<1> QED
  BY <1>1, <1>2 DEF CrashNext

\* The store always has as many blocks as the chain and its tip, for nodes that
\* crash at any point, too: a restart finds the tip (save_block, load_chain).
THEOREM CrashesKeepTip == CrashSpec => []TipStored
PROOF
<1>1. CrashInv => TipStored
  BY DEF CrashInv, BaseInv, ShapeInv
<1> QED
  BY <1>1, SpecCrash, PTL

\* A mempool that a restart rebuilds from what a crash left of it, inside a save or
\* not, holds no double spend, reserves what its entries spend and is in the order
\* of fees (save_mempool, load_mempool, Blockchain::new).
THEOREM CrashesKeepPools == CrashSpec => []PoolsConsistent
PROOF
<1>1. CrashInv => PoolsConsistent
  BY DEF CrashInv, BaseInv, PoolInv
<1> QED
  BY <1>1, SpecCrash, PTL

\* No step and no crash takes height away.
LEMMA HeightsKept ==
    ASSUME CrashInv, CrashNext, NEW m \in Node
    PROVE  Len(chain'[m]) >= Len(chain[m])
PROOF
<1>1. Len(chain[m]) \in Nat
  BY ChainFacts DEF CrashInv, BaseInv
<1>2. CASE chain'[m] = chain[m]
  BY <1>1, <1>2
<1>3. CASE Next /\ chain'[m] # chain[m]
  <2>1. Len(chain'[m]) > Len(chain[m])
    BY <1>3, StepLengthens DEF CrashInv
  <2>2. CrashInv'
    BY NextCrash
  <2>3. Len(chain'[m]) \in Nat
    BY <2>2 DEF CrashInv, BaseInv, ShapeInv
  <2> QED
    BY <1>1, <2>1, <2>3
<1>4. ASSUME NEW n \in Node, Crash(n) \/ CrashInReplace(n) \/ CrashInSave(n)
      PROVE  Len(chain'[m]) >= Len(chain[m])
  <2>1. PICK blocks \in Seq(Block), entries \in SUBSET Entry :
           Len(blocks) >= Len(chain[n]) /\ Restart(n, blocks, entries)
    BY <1>4, CrashLeaves
  <2>2. chain' = [chain EXCEPT ![n] = blocks]
    BY <2>1 DEF Restart
  <2>3. chain'[m] = IF m = n THEN blocks ELSE chain[m]
    BY <2>2 DEF CrashInv, BaseInv, ShapeInv
  <2>4. CASE m = n
    BY <2>1, <2>3, <2>4
  <2>5. CASE m # n
    BY <1>1, <2>3, <2>5
  <2> QED
    BY <2>4, <2>5
<1> QED
  BY <1>2, <1>3, <1>4 DEF CrashNext

\* No step and no crash takes height away, not even a crash between the saves of a
\* reorganisation (try_replace_chain, save_block, load_chain).
THEOREM CrashesKeepHeight == CrashSpec => HeightKept
PROOF
<1>1. ASSUME CrashInv, [CrashNext]_vars
      PROVE  [\A n \in Node : Len(chain'[n]) >= Len(chain[n])]_vars
  BY <1>1, HeightsKept
<1> QED
  BY <1>1, SpecCrash, PTL DEF CrashSpec, HeightKept

-----------------------------------------------------------------------------
\* A node that runs alone. Its chain only grows by what it mines, so what is valid
\* when it becomes pending stays valid until a block takes it.

\* What a block under way has taken: pending transactions, once each.
Taken(n, txs) ==
    /\ txs \in Seq(Tx)
    /\ \A i, j \in DOMAIN txs : i # j => txs[i] # txs[j]
    /\ \A i \in DOMAIN txs : PoolContains(mempool[n], txs[i])

TakenInv(n) ==
    /\ pc[n] = "collected" => Taken(n, job[n].transactions)
    /\ pc[n] = "mining" =>
          \E coinbase \in Tx : \E txs \in Seq(Tx) :
              /\ IsCoinbase(coinbase)
              /\ Taken(n, txs)
              /\ job[n].transactions = <<coinbase>> \o txs

ValidInv(n) ==
    \A tx \in PoolTxs(mempool[n]) : ValidateAgainst(tx, BuildUtxoSet(chain[n]))

\* Nobody has a longer chain to offer, and the store holds the chain itself.
OwnInv(n) ==
    /\ blocks_tree[n] = chain[n]
    /\ \A c \in published : Len(c) <= Len(chain[n])

AloneInv(n) == CrashInv /\ PaidInv /\ OwnInv(n) /\ ValidInv(n) /\ TakenInv(n)

\* A merge with a chain that is not longer is not longer either.
LEMMA MergeNoLonger ==
    ASSUME NEW own \in Seq(Block), NEW c \in Seq(Block), NEW s \in 1..Len(c),
           Len(c) <= Len(own)
    PROVE  Len(Merge(own, c, s)) <= Len(own)
PROOF
<1>1. Len(own) \in Nat
  OBVIOUS
<1> QED
  BY <1>1, MergeShape DEF Spliced

\* The chain changes only when a block of the node is appended.
LEMMA AloneMoves ==
    ASSUME CrashInv, NEW n \in Node, OwnInv(n), NodeStep(n)
    PROVE  \/ UNCHANGED <<chain, difficulty, blocks_tree, published>> /\ ~NewBlock(n)
           \/ /\ MineAppend(n)
              /\ AppendBlock(n, job[n])
              /\ mempool' = [mempool EXCEPT ![n] =
                               PurgeConfirmed(@, Range(Tail(job[n].transactions)))]
PROOF
<1>1. BaseInv /\ ShapeInv
  BY DEF CrashInv, BaseInv
<1>2. Len(chain[n]) \in Nat /\ chain[n] \in Seq(Block)
  BY <1>1, ChainFacts
<1>3. ~NewBlock(n)
  <2> SUFFICES ASSUME NewBlock(n) PROVE FALSE
    OBVIOUS
  <2>1. PICK c \in published : AppendBlock(n, Last(c))
    BY DEF NewBlock
  <2>2. c \in Seq(Block) /\ Shaped(c) /\ Len(c) <= Len(chain[n])
    BY <1>1 DEF ShapeInv, OwnInv
  <2>3. Len(c) \in Nat /\ Len(c) > 0 /\ Last(c).index = Len(c) - 1
    BY <2>2 DEF Shaped, Indexed, Last
  <2>4. Last(c).index = Len(chain[n])
    BY <2>1 DEF AppendBlock, Appendable
  <2> QED
    BY <1>2, <2>2, <2>3, <2>4
<1>4. CASE BlocksBatch(n)
  <2>1. PICK c \in published : \E s \in 1..Len(c) :
           \/ ReplaceChain(n, Merge(chain[n], c, s))
           \/ UNCHANGED <<chain, difficulty, blocks_tree, published>>
    BY <1>4 DEF BlocksBatch
  <2>2. PICK s \in 1..Len(c) :
           \/ ReplaceChain(n, Merge(chain[n], c, s))
           \/ UNCHANGED <<chain, difficulty, blocks_tree, published>>
    BY <2>1
  <2>3. c \in Seq(Block) /\ Len(c) <= Len(chain[n])
    BY <1>1 DEF ShapeInv, OwnInv
  <2>4. Merge(chain[n], c, s) \in Seq(Block)
    BY <1>1, <1>2, <2>3, ChainFacts, PublishedBlocks, MergeKeeps DEF Shaped
  <2>5. Len(Merge(chain[n], c, s)) <= Len(chain[n]) /\ Len(Merge(chain[n], c, s)) \in Nat
    BY <1>2, <2>3, <2>4, MergeNoLonger
  <2>6. ~ReplaceChain(n, Merge(chain[n], c, s))
    BY <1>2, <2>5 DEF ReplaceChain, Replaceable
  <2> QED
    BY <1>3, <2>2, <2>6
<1>5. CASE MineAppend(n)
  BY <1>3, <1>5 DEF MineAppend, blockchain
<1>6. \/ BlocksBatch(n) \/ MineAppend(n) \/ NewBlock(n)
      \/ UNCHANGED <<chain, difficulty, blocks_tree, published>>
  BY DEF NodeStep, ConsoleSend, RunSend, Send, PostSend, MineCollect, MineFees,
         DrainBuffer, NewTx, MempoolTxs, AddNext, Subscribed, Unsynchronised, blockchain,
         store, gossip
<1> QED
  BY <1>3, <1>4, <1>5, <1>6

\* Two pending transactions spend nothing in common.
LEMMA PendingDisjoint ==
    ASSUME NEW pool, Consistent(pool), NEW s \in PoolTxs(pool), NEW t \in PoolTxs(pool),
           s # t
    PROVE  Inputs(s) \cap Inputs(t) = {}
PROOF
<1>1. PICK i \in DOMAIN pool.entries : pool.entries[i].tx = s
  BY DEF PoolTxs, Range
<1>2. PICK j \in DOMAIN pool.entries : pool.entries[j].tx = t
  BY DEF PoolTxs, Range
<1> QED
  BY <1>1, <1>2 DEF Consistent

\* What is unspent in a chain is not what a coinbase spends.
LEMMA UnspentIsReal ==
    ASSUME NEW c \in Seq(Block), NEW op \in BuildUtxoSet(c)
    PROVE  op # NullOutPoint
PROOF
<1>1. PICK p \in Positions(c) : op \in Outputs(TxAt(c, p))
  BY DEF BuildUtxoSet
<1> QED
  BY <1>1, PositionsHoldTxs, OutputsAreReal

\* A coinbase and different pending transactions, all valid in a chain, are valid
\* one after the other: none spends what another has spent.
LEMMA TakenApplies ==
    ASSUME NEW c \in Seq(Block), NEW pool, Consistent(pool),
           NEW coinbase, IsCoinbase(coinbase), NEW txs \in Seq(Tx),
           \A i, j \in DOMAIN txs : i # j => txs[i] # txs[j],
           \A i \in DOMAIN txs : /\ txs[i] \in PoolTxs(pool)
                                 /\ ~IsCoinbase(txs[i])
                                 /\ ValidateAgainst(txs[i], BuildUtxoSet(c))
    PROVE  TxsApply(<<coinbase>> \o txs, BuildUtxoSet(c))
PROOF
<1> DEFINE new == <<coinbase>> \o txs
           U == BuildUtxoSet(c)
<1>1. /\ DOMAIN new = 1..(Len(txs) + 1) /\ Len(txs) \in Nat
      /\ new[1] = coinbase
      /\ \A k \in DOMAIN new \ {1} : k - 1 \in DOMAIN txs /\ new[k] = txs[k - 1]
  OBVIOUS
<1> HIDE DEF new
<1>2. ASSUME NEW j \in DOMAIN new, j # 1
      PROVE  ValidateAgainst(new[j], UtxosAt(U, new, j))
  <2> DEFINE tx == txs[j - 1]
  <2>1. new[j] = tx /\ j - 1 \in DOMAIN txs
    BY <1>1, <1>2
  <2>2. /\ tx \in PoolTxs(pool) /\ ~IsCoinbase(tx) /\ ValidateAgainst(tx, U)
    BY <2>1
  <2>3. \A op \in Inputs(tx) : op \in U
    BY <2>2 DEF ValidateAgainst
  <2>4. ASSUME NEW op \in Inputs(tx), NEW k \in 1..(j - 1), op \in Inputs(new[k])
        PROVE  FALSE
    <3>1. CASE k = 1
      <4>1. op = NullOutPoint
        BY <1>1, <2>4, <3>1 DEF Inputs, Range, IsCoinbase
      <4> QED
        BY <2>3, <4>1, UnspentIsReal
    <3>2. CASE k # 1
      <4>1. k \in DOMAIN new \ {1} /\ k - 1 \in DOMAIN txs /\ k - 1 # j - 1
        BY <1>1, <3>2
      <4>2. new[k] = txs[k - 1] /\ txs[k - 1] # tx /\ txs[k - 1] \in PoolTxs(pool)
        BY <1>1, <2>1, <4>1
      <4> QED
        BY <2>2, <2>4, <4>2, PendingDisjoint
    <3> QED
      BY <3>1, <3>2
  <2>5. \A op \in Inputs(tx) : op \in UtxosAt(U, new, j)
    BY <2>3, <2>4 DEF UtxosAt
  <2> QED
    BY <2>1, <2>2, <2>5 DEF ValidateAgainst
<1> QED
  BY <1>1, <1>2 DEF TxsApply, new

\* A new block takes away from the unspent outputs only what its payments spend.
LEMMA AppendUnspent ==
    ASSUME NEW c \in Seq(Block), NEW b \in Block, NEW op \in BuildUtxoSet(c),
           \A j \in DOMAIN b.transactions :
               IsCoinbase(b.transactions[j]) \/ op \notin Inputs(b.transactions[j])
    PROVE  op \in BuildUtxoSet(Append(c, b))
PROOF
<1> DEFINE d == Append(c, b)
<1>1. /\ \A q : q \in Positions(d) <=>
            \/ q \in Positions(c)
            \/ \E j \in DOMAIN b.transactions : q = <<Len(c) + 1, j>>
      /\ \A q \in Positions(c) : TxAt(d, q) = TxAt(c, q)
      /\ \A j \in DOMAIN b.transactions :
            TxAt(d, <<Len(c) + 1, j>>) = b.transactions[j]
  BY AppendPositions
<1> HIDE DEF d
<1>2. PICK p \in Positions(c) : op \in Outputs(TxAt(c, p))
  BY DEF BuildUtxoSet
<1>3. p \in Positions(d) /\ op \in Outputs(TxAt(d, p))
  BY <1>1, <1>2
<1>4. \A q \in Positions(c) : IsCoinbase(TxAt(c, q)) \/ op \notin Inputs(TxAt(c, q))
  BY DEF BuildUtxoSet
<1>5. \A q \in Positions(d) : IsCoinbase(TxAt(d, q)) \/ op \notin Inputs(TxAt(d, q))
  BY <1>1, <1>4
<1> QED
  BY <1>3, <1>5 DEF BuildUtxoSet, d

\* What stays pending when a block has taken its transactions stays valid.
LEMMA RestValid ==
    ASSUME NEW c \in Seq(Block), NEW b \in Block, NEW pool \in Pool,
           Consistent(pool), Sorted(pool),
           NEW coinbase, IsCoinbase(coinbase), NEW txs \in Seq(Tx),
           b.transactions = <<coinbase>> \o txs,
           \A i \in DOMAIN txs : txs[i] \in PoolTxs(pool),
           \A tx \in PoolTxs(pool) : ~IsCoinbase(tx) /\ ValidateAgainst(tx, BuildUtxoSet(c)),
           NEW tx \in PoolTxs(PurgeConfirmed(pool, Range(txs)))
    PROVE  ValidateAgainst(tx, BuildUtxoSet(Append(c, b)))
PROOF
<1>1. tx \in PoolTxs(pool) /\ tx \notin Range(txs)
  BY PurgeKeeps DEF PoolTxs
<1>2. ~IsCoinbase(tx) /\ ValidateAgainst(tx, BuildUtxoSet(c))
  BY <1>1
<1>3. ASSUME NEW op \in Inputs(tx) PROVE op \in BuildUtxoSet(Append(c, b))
  <2>1. op \in BuildUtxoSet(c)
    BY <1>2 DEF ValidateAgainst
  <2>2. ASSUME NEW j \in DOMAIN b.transactions
        PROVE  IsCoinbase(b.transactions[j]) \/ op \notin Inputs(b.transactions[j])
    <3>1. CASE j = 1
      BY <3>1
    <3>2. CASE j # 1
      <4>1. j - 1 \in DOMAIN txs /\ b.transactions[j] = txs[j - 1]
        BY <3>2
      <4>2. txs[j - 1] \in PoolTxs(pool) /\ txs[j - 1] # tx
        BY <1>1, <4>1 DEF Range
      <4> QED
        BY <1>1, <4>1, <4>2, PendingDisjoint
    <3> QED
      BY <3>1, <3>2
  <2> QED
    BY <2>1, <2>2, AppendUnspent
<1> QED
  BY <1>2, <1>3 DEF ValidateAgainst

\* A step that leaves the chain alone drops nothing from the mempool and adds only
\* what is valid.
LEMMA PoolGrows ==
    ASSUME CrashInv, PaidInv, NEW n \in Node, ValidInv(n), NodeStep(n), ~NewBlock(n),
           UNCHANGED chain
    PROVE  /\ ValidInv(n)'
           /\ \A tx : PoolContains(mempool[n], tx) => PoolContains(mempool'[n], tx)
PROOF
<1>1. BaseInv /\ mempool[n] \in Pool /\ Consistent(mempool[n])
  BY DEF CrashInv, BaseInv, PoolInv, PoolsConsistent
<1>2. CASE mempool'[n] = mempool[n]
  BY <1>2 DEF ValidInv
<1>3. CASE Accepts(n)
  <2>1. PICK tx \in Paid, fee \in Nat :
           /\ CanAdd(mempool[n], tx)
           /\ ValidateAgainst(tx, BuildUtxoSet(chain[n]))
           /\ mempool'[n] = Add(mempool[n], tx, fee)
    BY <1>3 DEF Accepts
  <2>2. Range(mempool'[n].entries)
          = Range(mempool[n].entries) \cup {[tx |-> tx, fee |-> fee]}
    BY <1>1, <2>1, AddKeeps DEF Paid
  <2>3. PoolTxs(mempool'[n]) = PoolTxs(mempool[n]) \cup {tx}
    <3> DEFINE R == Range(mempool[n].entries)
               S == Range(mempool'[n].entries)
    <3>1. PoolTxs(mempool[n]) = {e.tx : e \in R} /\ PoolTxs(mempool'[n]) = {e.tx : e \in S}
      BY DEF PoolTxs
    <3>2. S = R \cup {[tx |-> tx, fee |-> fee]} /\ [tx |-> tx, fee |-> fee].tx = tx
      BY <2>2
    <3> HIDE DEF R, S
    <3> QED
      BY <3>1, <3>2
  <2> QED
    BY <2>1, <2>3 DEF ValidInv, PoolContains
<1>4. CASE MineAppend(n)
  <2>1. ~AppendBlock(n, job[n])
    <3>1. AppendBlock(n, job[n]) => chain'[n] = Append(chain[n], job[n])
      BY <1>1 DEF AppendBlock, BaseInv, ShapeInv
    <3>2. chain[n] \in Seq(Block)
      BY <1>1, ChainFacts DEF BaseInv
    <3>3. Append(chain[n], job[n]) # chain[n]
      BY <3>2
    <3> QED
      BY <3>1, <3>3
  <2> QED
    BY <1>2, <1>4, <2>1 DEF MineAppend, blockchain
<1> QED
  BY <1>1, <1>2, <1>3, <1>4, StepsOfPools

LEMMA AloneStep ==
    ASSUME NEW n \in Node, AloneInv(n), NodeStep(n)
    PROVE  OwnInv(n)' /\ ValidInv(n)' /\ TakenInv(n)'
PROOF
<1>1. /\ CrashInv /\ PaidInv /\ OwnInv(n) /\ ValidInv(n) /\ TakenInv(n)
      /\ BaseInv /\ ShapeInv /\ LoopInv
  BY DEF AloneInv, CrashInv, BaseInv
<1>2. chain[n] \in Seq(Block) /\ Len(chain[n]) \in Nat /\ job[n] \in Block
  BY <1>1, ChainFacts DEF LoopInv
<1>3. /\ mempool \in [Node -> Pool] /\ Consistent(mempool[n]) /\ Sorted(mempool[n])
      /\ \A tx \in PoolTxs(mempool[n]) : tx \in Paid
  BY <1>1 DEF BaseInv, PoolInv, PoolsConsistent, PaidInv
<1>4. CASE /\ MineAppend(n)
           /\ AppendBlock(n, job[n])
           /\ mempool' = [mempool EXCEPT ![n] =
                            PurgeConfirmed(@, Range(Tail(job[n].transactions)))]
  <2> DEFINE d == Append(chain[n], job[n])
  <2>1. /\ chain'[n] = d
        /\ blocks_tree'[n] = Append(blocks_tree[n], job[n])
        /\ published' = published \cup {d}
    BY <1>1, <1>4 DEF AppendBlock, ShapeInv
  <2>2. Len(d) = Len(chain[n]) + 1
    BY <1>2
  <2>3. OwnInv(n)'
    <3>1. ASSUME NEW c \in published PROVE Len(c) <= Len(d)
      <4>1. c \in Seq(Block) /\ Len(c) \in Nat /\ Len(c) <= Len(chain[n])
        BY <1>1 DEF ShapeInv, OwnInv
      <4> QED
        BY <1>2, <2>2, <4>1
    <3>2. Len(d) <= Len(d)
      BY <1>2, <2>2
    <3> HIDE DEF d
    <3> QED
      BY <1>1, <2>1, <3>1, <3>2 DEF OwnInv, d
  <2>4. PICK coinbase \in Tx, txs \in Seq(Tx) :
           /\ IsCoinbase(coinbase)
           /\ Taken(n, txs)
           /\ job[n].transactions = <<coinbase>> \o txs
    BY <1>1, <1>4 DEF MineAppend, TakenInv
  <2>5. Tail(job[n].transactions) = txs
    BY <2>4
  <2>6. mempool'[n] = PurgeConfirmed(mempool[n], Range(txs))
    BY <1>3, <1>4, <2>5
  <2>7. ValidInv(n)'
    <3> SUFFICES ASSUME NEW tx \in PoolTxs(mempool'[n])
                 PROVE  ValidateAgainst(tx, BuildUtxoSet(d))
      BY <2>1 DEF ValidInv
    <3>1. \A i \in DOMAIN txs : txs[i] \in PoolTxs(mempool[n])
      BY <2>4 DEF Taken, PoolContains
    <3>2. \A t \in PoolTxs(mempool[n]) :
             ~IsCoinbase(t) /\ ValidateAgainst(t, BuildUtxoSet(chain[n]))
      BY <1>1, <1>3 DEF ValidInv, Paid
    <3> QED
      BY <1>2, <1>3, <2>4, <2>6, <3>1, <3>2, RestValid
  <2>8. pc'[n] = "idle"
    BY <1>1, <1>4 DEF MineAppend, LoopInv
  <2> QED
    BY <2>3, <2>7, <2>8 DEF TakenInv
<1>5. CASE UNCHANGED <<chain, blocks_tree, published>> /\ ~NewBlock(n)
  <2>1. OwnInv(n)'
    BY <1>1, <1>5 DEF OwnInv
  <2>2. /\ ValidInv(n)'
        /\ \A tx : PoolContains(mempool[n], tx) => PoolContains(mempool'[n], tx)
    BY <1>1, <1>5, PoolGrows
  <2>3. ASSUME NEW txs, Taken(n, txs) PROVE Taken(n, txs)'
    BY <2>2, <2>3 DEF Taken
  <2>4. CASE MineCollect(n)
    <3>1. /\ pc'[n] = "collected"
          /\ mempool' = mempool
          /\ job'[n].transactions = CollectForBlock(mempool[n], BlockLimit)
      BY <1>1, <2>4 DEF MineCollect, blockchain, LoopInv
    <3>2. BlockLimit \in Nat
      BY NodeAssumption
    <3>3. CollectForBlock(mempool[n], BlockLimit) \in Seq(Tx)
      BY <1>3, <3>2, CollectType
    <3>4. Taken(n, CollectForBlock(mempool[n], BlockLimit))
      BY <1>3, <3>2, <3>3, CollectsPending DEF Taken
    <3>5. Taken(n, CollectForBlock(mempool[n], BlockLimit))'
      BY <3>1, <3>4 DEF Taken
    <3> QED
      BY <2>1, <2>2, <3>1, <3>5 DEF TakenInv
  <2>5. CASE MineFees(n)
    <3> DEFINE value == job[n].reward + TotalFees(mempool[n], BlockLimit)
               coinbase == Coinbase(job[n].hash, WalletOf[n], value)
    <3>1. PICK txs : txs = job[n].transactions
      OBVIOUS
    <3>2. /\ pc[n] = "collected" /\ pc'[n] = "mining"
          /\ value \in Value
          /\ job'[n].transactions = <<coinbase>> \o txs
      BY SMTT(30), <1>1, <2>5, <3>1 DEF MineFees, LoopInv, Block
    <3>3. txs \in Seq(Tx) /\ Taken(n, txs)
      BY <1>1, <3>1, <3>2 DEF TakenInv, Taken
    <3>4. Taken(n, txs)'
      BY <2>3, <3>3
    <3>5. PICK paid : paid = coinbase
      OBVIOUS
    <3>6. paid \in Tx /\ IsCoinbase(paid) /\ job'[n].transactions = <<paid>> \o txs
      <4>1. job[n].hash \in Nat /\ WalletOf[n] \in Owner
        BY <1>2, NodeAssumption DEF Block, Owner
      <4> HIDE DEF value
      <4>2. coinbase \in Tx
        BY <3>2, <4>1, CoinbaseType
      <4>3. IsCoinbase(coinbase)
        BY DEF Coinbase, IsCoinbase
      <4> HIDE DEF coinbase
      <4> QED
        BY <3>2, <3>5, <4>2, <4>3
    <3> HIDE DEF value, coinbase
    <3> QED
      BY <2>1, <2>2, <3>2, <3>3, <3>4, <3>6 DEF TakenInv
  <2>6. CASE pc'[n] \notin {"collected", "mining"}
    BY <2>1, <2>2, <2>6 DEF TakenInv
  <2>7. CASE pc'[n] = pc[n] /\ job'[n] = job[n]
    BY <1>1, <2>1, <2>2, <2>3, <2>7 DEF TakenInv
  <2> QED
    BY <1>1, <2>4, <2>5, <2>6, <2>7, JobSteps
<1> QED
  BY <1>1, <1>4, <1>5, AloneMoves

\* A restart finds the chain itself, and rebuilds a mempool that is valid in it.
LEMMA LoneRestart ==
    ASSUME NEW n \in Node, AloneInv(n), Crash(n) \/ CrashInReplace(n) \/ CrashInSave(n)
    PROVE  /\ OwnInv(n)' /\ ValidInv(n)' /\ TakenInv(n)'
           /\ chain' = chain
           /\ difficulty'[n] = Tip(n).difficulty
PROOF
<1>1. /\ CrashInv /\ PaidInv /\ OwnInv(n) /\ ValidInv(n) /\ TakenInv(n)
      /\ BaseInv /\ ShapeInv /\ LoopInv
  BY DEF AloneInv, CrashInv, BaseInv
<1>2. chain[n] \in Seq(Block) /\ Len(chain[n]) \in Nat
  BY <1>1, ChainFacts
<1>3. PICK blocks \in Seq(Block), entries \in SUBSET Entry :
         Apart(entries) /\ Restart(n, blocks, entries)
  BY <1>1, CrashLeaves
<1>4. /\ chain' = [chain EXCEPT ![n] = blocks]
      /\ blocks_tree' = [blocks_tree EXCEPT ![n] = blocks]
      /\ published' = published \cup {blocks}
      /\ pc' = [pc EXCEPT ![n] = "idle"]
      /\ difficulty' = [difficulty EXCEPT ![n] = Last(blocks).difficulty]
  BY <1>3 DEF Restart
<1>5. chain'[n] = blocks
  BY <1>1, <1>4 DEF ShapeInv
<1>6. ~CrashInReplace(n)
  <2> SUFFICES ASSUME CrashInReplace(n) PROVE FALSE
    OBVIOUS
  <2>1. PICK c \in published : \E s \in 1..Len(c) : Replaceable(n, Merge(chain[n], c, s))
    BY DEF CrashInReplace
  <2>2. PICK s \in 1..Len(c) : Replaceable(n, Merge(chain[n], c, s))
    BY <2>1
  <2>3. c \in Seq(Block) /\ Len(c) <= Len(chain[n])
    BY <1>1 DEF ShapeInv, OwnInv
  <2>4. Merge(chain[n], c, s) \in Seq(Block)
    BY <1>1, <1>2, <2>3, ChainFacts, PublishedBlocks, MergeKeeps DEF Shaped
  <2>5. Len(Merge(chain[n], c, s)) <= Len(chain[n]) /\ Len(Merge(chain[n], c, s)) \in Nat
    BY <1>2, <2>3, <2>4, MergeNoLonger
  <2> QED
    BY <1>2, <2>2, <2>5 DEF Replaceable
<1>7. blocks = chain[n]
  <2>1. PICK left : Restart(n, blocks_tree[n], left)
    BY <1>6 DEF Crash, CrashInSave
  <2>2. chain'[n] = blocks_tree[n]
    BY <1>1, <2>1 DEF Restart, ShapeInv
  <2> QED
    BY <1>1, <1>5, <2>2 DEF OwnInv
<1>8. OwnInv(n)'
  <2>1. blocks_tree'[n] = blocks
    BY <1>1, <1>4 DEF ShapeInv
  <2>2. published' = published
    BY <1>1, <1>4, <1>7 DEF ShapeInv
  <2> QED
    BY <1>1, <1>5, <1>7, <2>1, <2>2 DEF OwnInv
<1>9. ValidInv(n)'
  <2>1. PICK pool \in Restored(entries, blocks) : mempool' = [mempool EXCEPT ![n] = pool]
    BY <1>3 DEF Restart
  <2>2. mempool'[n] = pool
    BY <1>1, <2>1 DEF BaseInv, PoolInv
  <2>3. \A tx \in PoolTxs(pool) : ValidateAgainst(tx, BuildUtxoSet(blocks))
    BY <1>3, RestoredKeeps DEF PoolTxs
  <2> QED
    BY <1>5, <2>2, <2>3 DEF ValidInv
<1>10. TakenInv(n)'
  BY <1>1, <1>4 DEF TakenInv, LoopInv
<1>11. chain' = chain /\ difficulty'[n] = Tip(n).difficulty
  BY <1>1, <1>4, <1>7 DEF ShapeInv, Tip
<1> QED
  BY <1>8, <1>9, <1>10, <1>11

LEMMA InitAlone ==
    ASSUME NEW n \in Node
    PROVE  Init => AloneInv(n)
PROOF
<1> SUFFICES ASSUME Init PROVE AloneInv(n)
  OBVIOUS
<1>1. CrashInv /\ PaidInv
  BY InitCrash, InitPaid
<1>2. OwnInv(n)
  <2>1. chain[n] = <<Genesis>> /\ blocks_tree[n] = <<Genesis>> /\ published = {<<Genesis>>}
    BY DEF Init
  <2> QED
    BY <2>1 DEF OwnInv
<1>3. ValidInv(n)
  BY DEF Init, ValidInv, PoolTxs, NewPool, Range
<1>4. TakenInv(n)
  BY DEF Init, TakenInv
<1> QED
  BY <1>1, <1>2, <1>3, <1>4 DEF AloneInv

LEMMA NextAlone ==
    ASSUME NEW n, Node = {n}
    PROVE  AloneInv(n) /\ [CrashNext]_vars => AloneInv(n)'
PROOF
<1> SUFFICES ASSUME AloneInv(n), [CrashNext]_vars PROVE AloneInv(n)'
  OBVIOUS
<1>1. CrashInv' /\ PaidInv'
  BY NextCrash, CrashPaid DEF AloneInv
<1>2. CASE NodeStep(n)
  BY <1>1, <1>2, AloneStep DEF AloneInv
<1>3. CASE Crash(n) \/ CrashInReplace(n) \/ CrashInSave(n)
  BY <1>1, <1>3, LoneRestart DEF AloneInv
<1>4. CASE UNCHANGED vars
  BY <1>1, <1>4 DEF vars, blockchain, store, loop, gossip, AloneInv, OwnInv, ValidInv,
                    TakenInv, Taken
<1> QED
  BY <1>2, <1>3, <1>4 DEF CrashNext, Next

LEMMA SpecAlone ==
    ASSUME NEW n, Node = {n}
    PROVE  CrashSpec => []AloneInv(n)
PROOF
<1>1. n \in Node
  OBVIOUS
<1> QED
  BY <1>1, InitAlone, NextAlone, PTL DEF CrashSpec

\* A node that runs alone, crashing at any point, can always make a block of what is
\* pending: everything its mempool holds spends outputs that are unspent in its chain
\* (collect_for_block, add_transaction_to_mempool, load_mempool).
THEOREM AlonePendingSpendable ==
    ASSUME NEW n, Node = {n}
    PROVE  CrashSpec => []PendingSpendable
PROOF
<1>1. AloneInv(n) => PendingSpendable
  <2> SUFFICES ASSUME AloneInv(n), NEW tx \in PoolTxs(mempool[n]), NEW op \in Inputs(tx)
               PROVE  op \in BuildUtxoSet(chain[n])
    BY DEF PendingSpendable
  <2>1. ~IsCoinbase(tx) /\ ValidateAgainst(tx, BuildUtxoSet(chain[n]))
    BY DEF AloneInv, ValidInv, PaidInv, Paid
  <2> QED
    BY <2>1 DEF ValidateAgainst
<1> QED
  BY <1>1, SpecAlone, PTL

\* A node that runs alone, crashing at any point, has nothing pending that its chain
\* has confirmed: what is pending spends outputs that are unspent, and what the chain
\* has confirmed spends outputs that no longer are (purge_confirmed, load_mempool).
THEOREM AloneConfirmedNotPending ==
    ASSUME NEW n, Node = {n}
    PROVE  CrashSpec => []ConfirmedNotPending
PROOF
<1>1. AloneInv(n) => ConfirmedNotPending
  <2> SUFFICES ASSUME AloneInv(n), NEW p \in Positions(chain[n]),
                      PoolContains(mempool[n], TxAt(chain[n], p))
               PROVE  FALSE
    BY DEF ConfirmedNotPending
  <2> DEFINE tx == TxAt(chain[n], p)
  <2>1. tx \in PoolTxs(mempool[n])
    BY DEF PoolContains
  <2>2. tx \in Tx /\ ~IsCoinbase(tx) /\ ValidateAgainst(tx, BuildUtxoSet(chain[n]))
    BY <2>1 DEF AloneInv, ValidInv, PaidInv, Paid
  <2>3. PICK op : op \in Inputs(tx)
    <3>1. tx.vin \in Seq(OutPoint) /\ tx.vin # <<>>
      BY <2>2 DEF ValidateAgainst, Tx
    <3> HIDE DEF tx
    <3>2. 1 \in DOMAIN tx.vin
      BY <3>1
    <3> QED
      BY <3>2 DEF Inputs, Range
  <2>4. op \in BuildUtxoSet(chain[n])
    BY <2>2, <2>3 DEF ValidateAgainst
  <2> QED
    BY <2>2, <2>3, <2>4 DEF BuildUtxoSet
<1> QED
  BY <1>1, SpecAlone, PTL

\* What a lone node has mined passes every check of its own chain but, at a retarget,
\* that of the difficulty.
LEMMA OwnBlockFits ==
    ASSUME NEW n \in Node, AloneInv(n), pc[n] = "mining",
           ExpectedDifficulty(n) = difficulty[n]
    PROVE  Appendable(n, job[n])
PROOF
<1>1. /\ CrashInv /\ PaidInv /\ OwnInv(n) /\ ValidInv(n) /\ TakenInv(n)
      /\ BaseInv /\ ShapeInv /\ JobFresh
  BY DEF AloneInv, CrashInv, BaseInv
<1>2. chain[n] \in Seq(Block) /\ Consistent(mempool[n])
  BY <1>1, ChainFacts DEF BaseInv, PoolInv, PoolsConsistent
<1>3. PICK coinbase \in Tx, txs \in Seq(Tx) :
         /\ IsCoinbase(coinbase)
         /\ Taken(n, txs)
         /\ job[n].transactions = <<coinbase>> \o txs
  BY <1>1 DEF TakenInv
<1>4. \A i \in DOMAIN txs : /\ txs[i] \in PoolTxs(mempool[n])
                            /\ ~IsCoinbase(txs[i])
                            /\ ValidateAgainst(txs[i], BuildUtxoSet(chain[n]))
  BY <1>1, <1>3 DEF Taken, PoolContains, ValidInv, PaidInv, Paid
<1>5. TxsApply(job[n].transactions, BuildUtxoSet(chain[n]))
  BY <1>2, <1>3, <1>4, TakenApplies DEF Taken
<1> QED
  BY <1>1, <1>5 DEF JobFresh, Appendable

\* The only block of its own that a lone node refuses is the one it mines at a
\* retarget that changes the difficulty: the event loop mines with the difficulty of
\* the tip, try_append_block asks for the next one (node.rs,
\* Blockchain::compute_current_difficulty).
THEOREM AloneRefusedAtRetarget ==
    ASSUME NEW n, Node = {n}
    PROVE  CrashSpec => []RefusedAtRetargetOnly
PROOF
<1>1. ASSUME AloneInv(n)
      PROVE  RefusedAtRetargetOnly
  <2> SUFFICES ASSUME pc[n] = "mining", ~Appendable(n, job[n])
               PROVE  /\ IsRetargetBlock(Len(chain[n]))
                      /\ ExpectedDifficulty(n) # difficulty[n]
    BY DEF RefusedAtRetargetOnly
  <2>1. ExpectedDifficulty(n) # difficulty[n]
    BY <1>1, OwnBlockFits
  <2> QED
    BY <2>1 DEF ExpectedDifficulty
<1> QED
  BY <1>1, SpecAlone, PTL

=============================================================================
