----------------------------- MODULE MoneyProofs -----------------------------
(***************************************************************************)
(* Proofs about amounts: fees, rewards, histories and the supply.          *)
(*                                                                         *)
(* A mempool entry keeps the surplus of its transaction as its fee         *)
(* (ExactInv), through sends, gossip and restarts. What a miner has        *)
(* collected is still pending when it sums the fees (MinerInv), and the    *)
(* sum goes over the entries that pay most.                                *)
(*                                                                         *)
(* The reward after k halvings is described without a recursive function,  *)
(* as the value every sequence of halvings reaches; it falls with k, and a *)
(* node halves only where its chain reaches the next k.                    *)
(*                                                                         *)
(* A chain that replays and repeats no coinbase (Sound) has an account     *)
(* book: what its transactions created, less what its payments used, is    *)
(* what is unspent, for all outputs and for those of each owner.           *)
(***************************************************************************)
EXTENDS CrashProofs, NodeChainProofs, Queries

-----------------------------------------------------------------------------
\* Amounts of transactions.

LEMMA SequenceElement ==
    ASSUME NEW E, NEW s \in Seq(E), NEW i \in DOMAIN s
    PROVE  s[i] \in E
PROOF
  OBVIOUS

LEMMA SequenceFinite ==
    ASSUME NEW E, NEW s \in Seq(E)
    PROVE  IsFiniteSet(DOMAIN s) /\ IsFiniteSet(Range(s))
PROOF
<1>1. s \in [1..Len(s) -> Range(s)] /\ Len(s) \in Nat
  BY DEF Range
<1>2. IsFiniteSet(1..Len(s))
  BY <1>1, FS_Interval
<1>3. s \in Surjection(1..Len(s), Range(s))
  BY <1>1 DEF Surjection, Range
<1> QED
  BY <1>1, <1>2, <1>3, FS_Surjection

\* What a set of outputs is worth, for any function that tells their values.
LEMMA TotalAs ==
    ASSUME NEW ops, IsFiniteSet(ops), NEW f,
           \A op \in ops : f[op] \in Int /\ f[op] = OutputOf(op).value
    PROVE  Total(ops) = Sum(f, ops)
PROOF
<1> DEFINE g == [op \in ops |-> OutputOf(op).value]
<1>1. DOMAIN g = ops /\ \A op \in ops : f[op] \in Int /\ f[op] = g[op]
  OBVIOUS
<1>2. Total(ops) = Sum(g, ops)
  BY DEF Total, SumFunction, Sum
<1> HIDE DEF g
<1>3. Sum(f, ops) = Sum(g, ops)
  BY <1>1, SumsAgree
<1> QED
  BY <1>2, <1>3

LEMMA TotalNat ==
    ASSUME NEW ops, IsFiniteSet(ops), \A op \in ops : OutputOf(op).value \in Nat
    PROVE  Total(ops) \in Nat
PROOF
<1> DEFINE g == [op \in ops |-> OutputOf(op).value]
<1>1. \A op \in ops : g[op] \in Nat /\ g[op] = OutputOf(op).value /\ g[op] \in Int
  OBVIOUS
<1> HIDE DEF g
<1>2. Total(ops) = Sum(g, ops)
  BY <1>1, TotalAs
<1> QED
  BY <1>1, <1>2, SumNat

LEMMA OutputTotalAs ==
    ASSUME NEW tx, IsFiniteSet(DOMAIN tx.vout), NEW f,
           \A i \in DOMAIN tx.vout : f[i] \in Int /\ f[i] = tx.vout[i].value
    PROVE  OutputTotal(tx) = Sum(f, DOMAIN tx.vout)
PROOF
<1> DEFINE g == [i \in DOMAIN tx.vout |-> tx.vout[i].value]
           S == DOMAIN tx.vout
<1>1. DOMAIN g = S /\ \A i \in S : f[i] \in Int /\ f[i] = g[i]
  OBVIOUS
<1>2. OutputTotal(tx) = Sum(g, S)
  BY DEF OutputTotal, SumFunction, Sum
<1> HIDE DEF g, S
<1>3. IsFiniteSet(S)
  BY DEF S
<1>4. Sum(f, S) = Sum(g, S)
  BY <1>1, <1>3, SumsAgree
<1> QED
  BY <1>2, <1>4 DEF S

LEMMA OutputTotalNat ==
    ASSUME NEW tx \in Tx
    PROVE  OutputTotal(tx) \in Nat
PROOF
<1> DEFINE S == DOMAIN tx.vout
           f == [i \in S |-> tx.vout[i].value]
<1>1. tx.vout \in Seq([value : Value, owner : Owner])
  BY DEF Tx
<1>2. IsFiniteSet(S)
  BY <1>1, SequenceFinite
<1>3. \A i \in S : f[i] \in Nat /\ f[i] \in Int /\ f[i] = tx.vout[i].value
  <2> SUFFICES ASSUME NEW i \in S PROVE tx.vout[i].value \in Nat
    OBVIOUS
  <2>1. tx.vout[i] \in [value : Value, owner : Owner]
    BY <1>1, SequenceElement
  <2> QED
    BY <2>1, LedgerAssumption DEF Value
<1> HIDE DEF f
<1>4. OutputTotal(tx) = Sum(f, S)
  BY <1>2, <1>3, OutputTotalAs
<1> HIDE DEF S
<1> QED
  BY <1>2, <1>3, <1>4, SumNat

\* A payment hands out the amount and the change.
LEMMA PaymentTotal ==
    ASSUME NEW from, NEW vin, NEW to, NEW amount \in Nat, NEW change \in Nat
    PROVE  OutputTotal(Payment(from, vin, to, amount, change)) = amount + change
PROOF
<1> DEFINE tx == Payment(from, vin, to, amount, change)
           S == DOMAIN tx.vout
           f == [i \in {1, 2} |-> IF i = 1 THEN amount ELSE change]
<1>1. f[1] = amount /\ f[2] = change
  OBVIOUS
<1>2. CASE change = 0
  <2>1. tx.vout = <<[value |-> amount, owner |-> to]>>
    BY <1>2 DEF Payment
  <2>2. S = {1} /\ \A i \in S : f[i] \in Int /\ f[i] = tx.vout[i].value
    BY <2>1
  <2>3. OutputTotal(tx) = Sum(f, S)
    <3>1. IsFiniteSet(S)
      BY <2>2, FS_Singleton
    <3> HIDE DEF tx, f
    <3> QED
      BY <2>2, <3>1, OutputTotalAs
  <2>4. Sum(f, {1}) = f[1]
    BY <1>1, SumOfOne
  <2> QED
    BY <1>1, <1>2, <2>2, <2>3, <2>4
<1>3. CASE change # 0
  <2>1. tx.vout = <<[value |-> amount, owner |-> to], [value |-> change, owner |-> from]>>
    BY <1>3 DEF Payment
  <2>2. S = {1, 2}
    BY <2>1
  <2>5. \A i \in S : f[i] \in Int /\ f[i] = tx.vout[i].value
    BY <2>1
  <2>3. OutputTotal(tx) = Sum(f, S)
    <3>1. {1} \cup {2} = {1, 2} /\ IsFiniteSet({1}) /\ IsFiniteSet({2})
      BY FS_Singleton
    <3>2. IsFiniteSet({1} \cup {2})
      BY ONLY <3>1, FS_Union
    <3>3. IsFiniteSet(S)
      BY ONLY <2>2, <3>1, <3>2 DEF S
    <3> HIDE DEF tx, f
    <3> QED
      BY <2>5, <3>3, OutputTotalAs
  <2>4. Sum(f, {1, 2}) = f[1] + f[2]
    BY <1>1, SumOfTwo
  <2> QED
    BY <1>1, <2>2, <2>3, <2>4
<1> QED
  BY <1>2, <1>3

\* The outputs of a chain have values and owners.
LEMMA OutputsTyped ==
    ASSUME NEW tx \in Tx, NEW op \in Outputs(tx)
    PROVE  OutputOf(op).value \in Nat /\ OutputOf(op).owner \in Owner
PROOF
<1>1. tx.vout \in Seq([value : Value, owner : Owner])
  BY DEF Tx
<1>2. PICK i \in DOMAIN tx.vout : op = [tx |-> tx, index |-> i]
  BY DEF Outputs
<1>3. OutputOf(op) = tx.vout[i]
  BY <1>2 DEF OutputOf
<1>4. tx.vout[i] \in [value : Value, owner : Owner]
  BY <1>1, SequenceElement
<1> QED
  BY <1>3, <1>4, LedgerAssumption DEF Value

LEMMA ChainOutputsTyped ==
    ASSUME NEW c \in Seq(Block), NEW op \in AllOutputs(c)
    PROVE  OutputOf(op).value \in Nat /\ OutputOf(op).owner \in Owner
PROOF
<1>1. PICK p \in Positions(c) : op \in Outputs(TxAt(c, p))
  BY DEF AllOutputs
<1> QED
  BY <1>1, PositionsHoldTxs, OutputsTyped

\* What a payment leaves to the miner.
Surplus(tx) == Total(Inputs(tx)) - OutputTotal(tx)

\* Inputs that are unspent in a chain have a total.
LEMMA InputsTotalNat ==
    ASSUME NEW c \in Seq(Block), NEW tx \in Tx, Inputs(tx) \subseteq BuildUtxoSet(c)
    PROVE  IsFiniteSet(Inputs(tx)) /\ Total(Inputs(tx)) \in Nat
PROOF
<1>1. tx.vin \in Seq(OutPoint)
  BY DEF Tx
<1>2. IsFiniteSet(Inputs(tx))
  BY <1>1, SequenceFinite DEF Inputs
<1>3. Inputs(tx) \subseteq AllOutputs(c)
  BY DEF BuildUtxoSet, AllOutputs
<1>4. \A op \in Inputs(tx) : OutputOf(op).value \in Nat
  BY <1>3, ChainOutputsTyped
<1> QED
  BY <1>2, <1>4, TotalNat

\* The fee a node computes for a payment that it accepts.
LEMMA FeeOfPayment ==
    ASSUME NEW c \in Seq(Block), NEW tx \in Paid, ValidateAgainst(tx, BuildUtxoSet(c))
    PROVE  Fee(tx) = Surplus(tx) /\ Fee(tx) \in Nat
PROOF
<1>1. tx \in Tx /\ ~IsCoinbase(tx)
  BY DEF Paid
<1>2. Inputs(tx) \subseteq BuildUtxoSet(c) /\ Total(Inputs(tx)) >= OutputTotal(tx)
  BY <1>1 DEF ValidateAgainst
<1>3. Total(Inputs(tx)) \in Nat /\ OutputTotal(tx) \in Nat
  BY <1>1, <1>2, InputsTotalNat, OutputTotalNat
<1>4. Surplus(tx) \in Nat
  BY <1>2, <1>3 DEF Surplus
<1> QED
  BY <1>1, <1>4 DEF Fee, Surplus

\* The fee of what a node creates is the one it was asked for: selection covers
\* it, and what it exceeds goes into the change.
LEMMA FeeOfCreated ==
    ASSUME BaseInv, NEW n \in Node, NEW to, NEW amount \in Nat, NEW fee \in Nat,
           NEW tx \in Creatable(n, to, amount, fee) \cap Tx
    PROVE  fee = Surplus(tx)
PROOF
<1>1. PICK vin \in Selections(Spendable(n), amount + fee) :
         tx = Payment(WalletOf[n], vin, to, amount, Total(Range(vin)) - amount - fee)
  BY DEF Creatable
<1>2. tx.vin = vin /\ Inputs(tx) = Range(vin)
  BY <1>1 DEF Payment, Inputs
<1>3. PICK k \in 1..Cardinality(Spendable(n)) : vin \in [1..k -> Spendable(n)]
  BY DEF Selections
<1>4. Total({vin[i] : i \in 1..Len(vin)}) >= amount + fee
  BY DEF Selections
<1>5. {vin[i] : i \in 1..Len(vin)} = Range(vin)
  <2>1. vin \in Seq(OutPoint)
    BY <1>2 DEF Tx
  <2> QED
    BY <2>1 DEF Range
<1>6. Range(vin) \subseteq BuildUtxoSet(chain[n])
  BY <1>3 DEF Range, Spendable
<1>7. Total(Range(vin)) \in Nat
  <2>1. chain[n] \in Seq(Block)
    BY ChainFacts DEF BaseInv
  <2> QED
    BY <1>2, <1>6, <2>1, InputsTotalNat
<1> DEFINE change == Total(Range(vin)) - amount - fee
<1>8. change \in Nat
  <2>1. Total(Range(vin)) >= amount + fee
    BY <1>4, <1>5
  <2> QED
    BY <1>7, <2>1
<1>9. OutputTotal(tx) = amount + change
  BY <1>1, <1>8, PaymentTotal
<1> QED
  BY <1>2, <1>7, <1>9 DEF Surplus

\* The fee at which a node adds a payment is the surplus of the payment.
LEMMA PricedExactly ==
    ASSUME BaseInv, NEW n \in Node, NEW tx \in Paid, NEW fee \in Nat,
           ValidateAgainst(tx, BuildUtxoSet(chain[n])), Priced(n, tx, fee)
    PROVE  fee = Surplus(tx)
PROOF
<1>1. CASE fee = Fee(tx)
  <2>1. chain[n] \in Seq(Block)
    BY ChainFacts DEF BaseInv
  <2> QED
    BY <1>1, <2>1, FeeOfPayment
<1>2. CASE \E to \in Wallet : \E amount \in Nat : tx \in Creatable(n, to, amount, fee)
  <2>1. PICK to \in Wallet, amount \in Nat : tx \in Creatable(n, to, amount, fee)
    BY <1>2
  <2>2. tx \in Tx
    BY DEF Paid
  <2> QED
    BY <2>1, <2>2, FeeOfCreated
<1> QED
  BY <1>1, <1>2 DEF Priced

-----------------------------------------------------------------------------
\* Fees.

Exact(entries) == \A e \in entries : e.fee = Surplus(e.tx)

\* The entries of the mempools and of what is stored of them have their fees.
ExactInv ==
    \A n \in Node : Exact(Range(mempool[n].entries)) /\ Exact(mempool_tree[n])

LEMMA AddExact ==
    ASSUME NEW pool \in Pool, Consistent(pool), Exact(Range(pool.entries)),
           NEW tx \in Tx, NEW fee \in Nat, CanAdd(pool, tx), fee = Surplus(tx)
    PROVE  Exact(Range(Add(pool, tx, fee).entries))
PROOF
<1>1. Range(Add(pool, tx, fee).entries)
        = Range(pool.entries) \cup {[tx |-> tx, fee |-> fee]}
  BY AddKeeps
<1> QED
  BY <1>1 DEF Exact

LEMMA StepKeepsExact ==
    ASSUME BaseInv, PaidInv, ExactInv, NEW n \in Node, NodeStep(n)
    PROVE  ExactInv'
PROOF
<1>1. mempool[n] \in Pool /\ Consistent(mempool[n]) /\ Sorted(mempool[n])
  BY DEF BaseInv, PoolInv, PoolsConsistent
<1>2. Exact(Range(mempool'[n].entries))
  <2>1. CASE mempool'[n] = mempool[n]
    BY <2>1 DEF ExactInv
  <2>2. CASE Accepts(n)
    <3>1. PICK tx \in Paid, fee \in Nat :
             /\ CanAdd(mempool[n], tx)
             /\ ValidateAgainst(tx, BuildUtxoSet(chain[n]))
             /\ Priced(n, tx, fee)
             /\ mempool'[n] = Add(mempool[n], tx, fee)
      BY <2>2 DEF Accepts
    <3>2. fee = Surplus(tx)
      BY <3>1, PricedExactly
    <3> QED
      BY <1>1, <3>1, <3>2, AddExact DEF ExactInv, Paid
  <2>3. CASE Purges(n)
    <3>1. PICK ids : mempool'[n] = PurgeConfirmed(mempool[n], ids)
      BY <2>3 DEF Purges
    <3>2. Range(mempool'[n].entries) \subseteq Range(mempool[n].entries)
      BY <1>1, <3>1, PurgeKeeps
    <3> QED
      BY <3>2 DEF Exact, ExactInv
  <2> QED
    BY <2>1, <2>2, <2>3, StepsOfPools
<1>3. \A m \in Node : Exact(Range(mempool'[m].entries))
  BY <1>2, StepsOfPools DEF ExactInv
<1>4. \/ mempool_tree' = [mempool_tree EXCEPT ![n] = Range(mempool'[n].entries)]
      \/ UNCHANGED mempool_tree
  BY DEF NodeStep, ConsoleSend, RunSend, Send, PostSend, MineCollect, MineFees,
         MineAppend, NewBlock, BlocksBatch, DrainBuffer, NewTx, MempoolTxs, AddNext,
         Subscribed, Unsynchronised, store
<1>5. \A m \in Node : Exact(mempool_tree'[m])
  BY <1>2, <1>4 DEF ExactInv, BaseInv, LoopInv
<1> QED
  BY <1>3, <1>5 DEF ExactInv

\* What a crash salvages has its fees.
LEMMA SalvagedExact ==
    ASSUME BaseInv, ExactInv, NEW n \in Node, NEW entries, Salvaged(n, entries)
    PROVE  Exact(entries)
PROOF
<1>1. CASE entries \subseteq mempool_tree[n]
  BY <1>1 DEF Exact, ExactInv
<1>2. CASE \E to \in Wallet, amount \in Amounts, fee \in Fees :
              \E tx \in Creatable(n, to, amount, fee) \cap Tx :
                 entries \subseteq Range(Add(mempool[n], tx, fee).entries)
  <2>1. PICK to \in Wallet, amount \in Amounts, fee \in Fees :
           \E tx \in Creatable(n, to, amount, fee) \cap Tx :
              entries \subseteq Range(Add(mempool[n], tx, fee).entries)
    BY <1>2
  <2>2. PICK tx \in Creatable(n, to, amount, fee) \cap Tx :
           entries \subseteq Range(Add(mempool[n], tx, fee).entries)
    BY <2>1
  <2>3. amount \in Nat /\ fee \in Nat
    BY NodeAssumption
  <2>4. tx \in Tx /\ CanAdd(mempool[n], tx) /\ fee = Surplus(tx)
    BY <2>3, CreatedArePaid, FeeOfCreated
  <2>5. mempool[n] \in Pool /\ Consistent(mempool[n])
    BY DEF BaseInv, PoolInv, PoolsConsistent
  <2>6. Exact(Range(Add(mempool[n], tx, fee).entries))
    BY <2>3, <2>4, <2>5, AddExact DEF ExactInv
  <2> QED
    BY <2>2, <2>6 DEF Exact
<1> QED
  BY <1>1, <1>2 DEF Salvaged

\* A restart lists some of the entries it finds.
LEMMA RestartExact ==
    ASSUME CrashInv, ExactInv, NEW n \in Node, NEW blocks,
           NEW entries \in SUBSET Entry, Apart(entries), Exact(entries),
           Restart(n, blocks, entries)
    PROVE  ExactInv'
PROOF
<1>1. PICK pool \in Restored(entries, blocks) : mempool' = [mempool EXCEPT ![n] = pool]
  BY DEF Restart
<1>2. Range(pool.entries) \subseteq {e \in entries : ~IsCoinbase(e.tx)}
  BY RestoredKeeps
<1>3. \A m \in Node : mempool'[m] = IF m = n THEN pool ELSE mempool[m]
  BY <1>1 DEF CrashInv, BaseInv, PoolInv
<1>4. Exact(Range(pool.entries))
  BY <1>2 DEF Exact
<1>5. \A m \in Node : mempool_tree'[m] = IF m = n THEN entries ELSE mempool_tree[m]
  BY DEF Restart, CrashInv, BaseInv, LoopInv
<1> QED
  BY <1>3, <1>4, <1>5 DEF ExactInv

FeesInv == CrashInv /\ PaidInv /\ ExactInv

LEMMA InitFees == Init => FeesInv
PROOF
<1>1. Init => ExactInv
  <2>1. Range(NewPool.entries) = {}
    BY DEF NewPool, Range
  <2> QED
    BY <2>1 DEF Init, ExactInv, Exact
<1> QED
  BY <1>1, InitCrash, InitPaid DEF FeesInv

LEMMA NextFees == FeesInv /\ [CrashNext]_vars => FeesInv'
PROOF
<1> SUFFICES ASSUME FeesInv, [CrashNext]_vars PROVE FeesInv'
  OBVIOUS
<1>1. CrashInv /\ BaseInv /\ PaidInv /\ ExactInv
  BY DEF FeesInv, CrashInv
<1>2. CrashInv' /\ PaidInv'
  BY <1>1, NextCrash, CrashPaid
<1>3. ExactInv'
  <2>1. CASE UNCHANGED vars
    BY <1>1, <2>1 DEF vars, blockchain, store, ExactInv
  <2>2. ASSUME NEW n \in Node, NodeStep(n) PROVE ExactInv'
    BY <1>1, <2>2, StepKeepsExact
  <2>3. ASSUME NEW n \in Node, Crash(n) \/ CrashInReplace(n) \/ CrashInSave(n)
        PROVE  ExactInv'
    <3>1. PICK blocks \in Seq(Block), entries \in SUBSET Entry :
             Apart(entries) /\ Salvaged(n, entries) /\ Restart(n, blocks, entries)
      BY <1>1, <2>3, CrashLeaves
    <3>2. Exact(entries)
      BY <1>1, <3>1, SalvagedExact
    <3> QED
      BY <1>1, <3>1, <3>2, RestartExact
  <2> QED
    BY <2>1, <2>2, <2>3 DEF CrashNext, Next
<1> QED
  BY <1>2, <1>3 DEF FeesInv

LEMMA SpecFees == CrashSpec => []FeesInv
PROOF
  BY InitFees, NextFees, PTL DEF CrashSpec

\* The fee of an entry is what its transaction leaves to the miner: created here,
\* received, or reloaded after a crash (create_transaction, calculate_fee,
\* load_mempool).
THEOREM FeesAreExact == CrashSpec => []FeesExact
PROOF
<1>1. FeesInv => FeesExact
  BY DEF FeesInv, ExactInv, Exact, Surplus, FeesExact
<1> QED
  BY <1>1, SpecFees, PTL

-----------------------------------------------------------------------------
\* Coinbases.

\* Distinct pending transactions, no more than a block takes, bring their miner
\* no more than what the first entries do: the mempool is in the order of fees.
LEMMA FeesOfPending ==
    ASSUME NEW pool \in Pool, Sorted(pool), Exact(Range(pool.entries)),
           PoolTxs(pool) \subseteq Paid, NEW limit \in Nat,
           NEW txs \in Seq(Tx), Len(txs) <= limit,
           \A i, j \in DOMAIN txs : i # j => txs[i] # txs[j],
           \A i \in DOMAIN txs : PoolContains(pool, txs[i]),
           NEW g, \A i \in DOMAIN txs : g[i] = Fee(txs[i])
    PROVE  /\ \A i \in DOMAIN txs : Fee(txs[i]) \in Nat
           /\ Sum(g, DOMAIN txs) \in Nat
           /\ Sum(g, DOMAIN txs) <= TotalFees(pool, limit)
           /\ TotalFees(pool, limit) \in Nat
PROOF
<1> DEFINE es == pool.entries
           L == Len(txs)
           S == 1..L
           b == [i \in S |-> CHOOSE j \in DOMAIN es : es[j].tx = txs[i]]
           K == {b[i] : i \in S}
           f == [j \in DOMAIN es |-> es[j].fee]
<1>1. L \in Nat /\ DOMAIN txs = S /\ IsFiniteSet(S) /\ Cardinality(S) = L
  <2>1. L \in Nat /\ DOMAIN txs = S
    OBVIOUS
  <2> QED
    BY <2>1, UpToFinite
<1>2. es \in Seq(Entry)
  BY DEF Pool
<1>3. \A i \in S : b[i] \in DOMAIN es /\ es[b[i]].tx = txs[i]
  <2> SUFFICES ASSUME NEW i \in S
               PROVE  \E j \in DOMAIN es : es[j].tx = txs[i]
    OBVIOUS
  <2>1. PoolContains(pool, txs[i])
    BY <1>1
  <2> QED
    BY <2>1 DEF PoolContains, PoolTxs, Range
<1>4. \A j \in DOMAIN es : f[j] = es[j].fee /\ f[j] \in Nat
  <2> SUFFICES ASSUME NEW j \in DOMAIN es PROVE es[j].fee \in Nat
    OBVIOUS
  <2>1. es[j] \in Entry
    BY <1>2, SequenceElement
  <2> QED
    BY <2>1 DEF Entry
<1> HIDE DEF b, f
<1>5. \A i \in S : Fee(txs[i]) = f[b[i]]
  <2> SUFFICES ASSUME NEW i \in S PROVE Fee(txs[i]) = f[b[i]]
    OBVIOUS
  <2>1. b[i] \in DOMAIN es /\ es[b[i]].tx = txs[i]
    BY <1>3
  <2>2. es[b[i]] \in Range(es)
    BY <2>1 DEF Range
  <2>3. es[b[i]].fee = Surplus(txs[i])
    BY <2>1, <2>2 DEF Exact
  <2>4. es[b[i]].fee \in Nat /\ f[b[i]] = es[b[i]].fee
    BY <1>4, <2>1
  <2>5. ~IsCoinbase(txs[i])
    <3>1. txs[i] \in PoolTxs(pool)
      BY <2>1, <2>2 DEF PoolTxs
    <3> QED
      BY <3>1 DEF Paid
  <2> QED
    BY <2>3, <2>4, <2>5 DEF Fee, Surplus
<1>6. \A i, j \in S : i # j => b[i] # b[j]
  BY <1>1, <1>3
<1>7. \A i \in S : g[i] \in Nat /\ g[i] \in Int /\ g[i] = f[b[i]]
  BY <1>1, <1>3, <1>4, <1>5
<1>8. K \in SUBSET (DOMAIN es)
  BY <1>3
<1>9. Cardinality(K) <= limit
  <2>1. [i \in S |-> b[i]] \in Surjection(S, K)
    BY DEF Surjection
  <2>2. Cardinality(K) <= Cardinality(S)
    BY <1>1, <2>1, FS_Surjection
  <2>3. Cardinality(K) \in Nat
    BY <1>1, <2>1, FS_Surjection, FS_CardinalityType
  <2> QED
    BY <1>1, <2>2, <2>3
<1> HIDE DEF S
<1>10. Sum(g, S) = Sum(f, K)
  <2>1. IsFiniteSet(S)
    BY <1>1
  <2>2. \A i \in S : g[i] \in Int /\ g[i] = f[b[i]]
    BY <1>7
  <2>3. Sum(g, S) = Sum(f, {b[i] : i \in S})
    BY ONLY <1>6, <2>1, <2>2, SumRenamed
  <2> QED
    BY <2>3
<1>11. Sum(g, S) \in Nat
  BY <1>1, <1>7, SumNat
<1>12. Sum(f, K) <= TotalFees(pool, limit)
  <2> HIDE DEF K
  <2> QED
    BY <1>4, <1>8, <1>9, FirstEntriesPayMost
<1>13. TotalFees(pool, limit) \in Nat
  <2> DEFINE T == FirstEntries(pool, limit)
             h == [i \in T |-> es[i].fee]
  <2>1. T \subseteq DOMAIN es /\ IsFiniteSet(T)
    <3> DEFINE k == IF Len(es) < limit THEN Len(es) ELSE limit
    <3>1. k \in Nat /\ k <= Len(es) /\ DOMAIN es = 1..Len(es) /\ Len(es) \in Nat
      BY <1>2
    <3>2. T = 1..k
      BY DEF FirstEntries
    <3> HIDE DEF k, T
    <3>3. T \subseteq DOMAIN es
      BY <3>1, <3>2
    <3> QED
      BY <3>1, <3>2, <3>3, UpToFinite
  <2>2. \A i \in T : h[i] \in Nat
    BY <1>4, <2>1
  <2>3. TotalFees(pool, limit) = Sum(h, T)
    BY DEF TotalFees, SumFunction, Sum
  <2> HIDE DEF h, T
  <2> QED
    BY <2>1, <2>2, <2>3, SumNat
<1> QED
  BY <1>1, <1>5, <1>7, <1>10, <1>11, <1>12, <1>13

\* The transactions behind a coinbase are those it was put in front of.
LEMMA FeesBehindCoinbase ==
    ASSUME NEW coinbase, NEW txs \in Seq(Tx),
           \A i \in DOMAIN txs : Fee(txs[i]) \in Nat,
           NEW g, \A i \in DOMAIN txs : g[i] = Fee(txs[i])
    PROVE  FeesOf(<<coinbase>> \o txs) = Sum(g, DOMAIN txs)
PROOF
<1> DEFINE new == <<coinbase>> \o txs
           S == DOMAIN txs
           f == [i \in 2..Len(new) |-> Fee(new[i])]
           b == [i \in S |-> i + 1]
<1>1. /\ S = 1..Len(txs) /\ Len(txs) \in Nat
      /\ Len(new) = Len(txs) + 1
      /\ \A i \in S : new[i + 1] = txs[i]
  OBVIOUS
<1>2. FeesOf(new) = Sum(f, 2..Len(new))
  BY DEF FeesOf, SumFunction, Sum
<1>3. \A i \in S : b[i] = i + 1 /\ b[i] \in 2..Len(new)
  BY <1>1
<1>4. \A i \in S : f[b[i]] = Fee(txs[i])
  BY <1>1, <1>3
<1>5. \A i, j \in S : i # j => b[i] # b[j]
  BY <1>1
<1>6. {b[i] : i \in S} = 2..Len(new)
  <2>1. ASSUME NEW k \in 2..Len(new) PROVE k - 1 \in S /\ b[k - 1] = k
    BY <1>1
  <2> QED
    BY <1>3, <2>1
<1>7. IsFiniteSet(S)
  BY <1>1, UpToFinite
<1> HIDE DEF b, f, S
<1>8. \A i \in S : g[i] \in Int /\ g[i] = f[b[i]]
  BY <1>4 DEF S
<1>9. Sum(g, S) = Sum(f, {b[i] : i \in S})
  BY <1>5, <1>7, <1>8, SumRenamed
<1> QED
  BY <1>2, <1>6, <1>9 DEF S

\* Between the two locks of mining: what the block takes is still pending, once
\* each, and no more than a block takes; the reward has not moved.
Collected(n) ==
    /\ job[n].reward = mining_reward[n]
    /\ Len(job[n].transactions) <= BlockLimit
    /\ \A i, j \in DOMAIN job[n].transactions :
          i # j => job[n].transactions[i] # job[n].transactions[j]
    /\ \A i \in DOMAIN job[n].transactions :
          PoolContains(mempool[n], job[n].transactions[i])

MinerInv ==
    /\ \A n \in Node : pc[n] = "collected" => Collected(n)
    /\ MinerNotUnderpaid

MoneyInv == FeesInv /\ MinerInv

LEMMA MineFeesPays ==
    ASSUME FeesInv, MinerInv, NEW n \in Node, MineFees(n)
    PROVE  job'[n].reward >= mining_reward'[n] + FeesOf(job'[n].transactions)
PROOF
<1> DEFINE pool == mempool[n]
           txs == job[n].transactions
           g == [i \in DOMAIN txs |-> Fee(txs[i])]
           value == job[n].reward + TotalFees(pool, BlockLimit)
<1>1. /\ pool \in Pool /\ Sorted(pool)
      /\ Exact(Range(pool.entries))
      /\ PoolTxs(pool) \subseteq Paid
      /\ BlockLimit \in Nat
  BY NodeAssumption DEF FeesInv, CrashInv, BaseInv, PoolInv, PoolsConsistent, PaidInv,
                        ExactInv
<1>2. job[n] \in Block /\ job \in [Node -> Block]
  BY DEF FeesInv, CrashInv, BaseInv, LoopInv
<1>3. txs \in Seq(Tx) /\ job[n].reward \in Nat
  BY <1>2, LedgerAssumption DEF Block, Value
<1>4. /\ job[n].reward = mining_reward[n]
      /\ Len(txs) <= BlockLimit
      /\ \A i, j \in DOMAIN txs : i # j => txs[i] # txs[j]
      /\ \A i \in DOMAIN txs : PoolContains(pool, txs[i])
  BY DEF MineFees, MinerInv, Collected
<1>5. \A i \in DOMAIN txs : g[i] = Fee(txs[i])
  OBVIOUS
<1>6. PICK now \in Times :
         job' = [job EXCEPT ![n].reward = value, ![n].timestamp = now,
                   ![n].transactions =
                      <<Coinbase(job[n].hash, WalletOf[n], value)>> \o @]
  BY DEF MineFees
<1>7. UNCHANGED mining_reward
  BY DEF MineFees, blockchain
<1> DEFINE coinbase == Coinbase(job[n].hash, WalletOf[n], value)
<1> HIDE DEF value, coinbase
<1>8. job'[n].reward = value /\ job'[n].transactions = <<coinbase>> \o txs
  BY <1>2, <1>6 DEF Block, coinbase
<1> HIDE DEF g, txs, pool
<1>9. /\ \A i \in DOMAIN txs : Fee(txs[i]) \in Nat
      /\ Sum(g, DOMAIN txs) \in Nat
      /\ Sum(g, DOMAIN txs) <= TotalFees(pool, BlockLimit)
      /\ TotalFees(pool, BlockLimit) \in Nat
  BY <1>1, <1>3, <1>4, <1>5, FeesOfPending
<1>10. FeesOf(<<coinbase>> \o txs) = Sum(g, DOMAIN txs)
  BY <1>3, <1>5, <1>9, FeesBehindCoinbase
<1> QED
  BY <1>3, <1>4, <1>7, <1>8, <1>9, <1>10 DEF value

\* The other nodes are left alone.
LEMMA OthersMine ==
    ASSUME BaseInv, NEW n \in Node, NodeStep(n), NEW m \in Node, m # n
    PROVE  /\ pc'[m] = pc[m]
           /\ job'[m] = job[m]
           /\ mining_reward'[m] = mining_reward[m]
PROOF
<1>1. /\ \/ \E v : pc' = [pc EXCEPT ![n] = v]
         \/ UNCHANGED pc
      /\ \/ \E v : mining_reward' = [mining_reward EXCEPT ![n] = v]
         \/ UNCHANGED mining_reward
  BY DEF NodeStep, ConsoleSend, RunSend, PostSend, MineCollect, MineFees, MineAppend,
         NewBlock, BlocksBatch, DrainBuffer, NewTx, MempoolTxs, AddNext, Subscribed,
         Unsynchronised, loop, blockchain
<1>2. job'[m] = job[m]
  <2>1. CASE MineCollect(n)
    BY <2>1 DEF MineCollect, BaseInv, LoopInv
  <2>2. CASE MineFees(n)
    BY <2>2 DEF MineFees, BaseInv, LoopInv
  <2>3. CASE MineAppend(n)
    BY <2>3 DEF MineAppend, BaseInv, LoopInv
  <2>4. MineCollect(n) \/ MineFees(n) \/ MineAppend(n) \/ UNCHANGED job
    BY DEF NodeStep, ConsoleSend, RunSend, PostSend, NewBlock, BlocksBatch, DrainBuffer,
           NewTx, MempoolTxs, AddNext, Subscribed, Unsynchronised, loop
  <2> QED
    BY <2>1, <2>2, <2>3, <2>4
<1> QED
  BY <1>1, <1>2 DEF BaseInv, LoopInv

LEMMA StepKeepsMiner ==
    ASSUME FeesInv, MinerInv, NEW n \in Node, NodeStep(n)
    PROVE  MinerInv'
PROOF
<1>1. BaseInv /\ PaidInv
  BY DEF FeesInv, CrashInv
<1>2. ASSUME NEW m \in Node, m # n
      PROVE  /\ pc'[m] = pc[m] /\ job'[m] = job[m]
             /\ mining_reward'[m] = mining_reward[m] /\ mempool'[m] = mempool[m]
  BY <1>1, <1>2, OthersMine, StepsOfPools
<1>3. CASE MineCollect(n)
  <2>1. /\ pc'[n] = "collected"
        /\ job'[n].reward = mining_reward'[n]
        /\ job'[n].transactions = CollectForBlock(mempool'[n], BlockLimit)
        /\ mempool'[n] \in Pool /\ Consistent(mempool'[n])
    BY <1>1, <1>3 DEF MineCollect, blockchain, BaseInv, LoopInv, PoolInv, PoolsConsistent
  <2>2. BlockLimit \in Nat
    BY NodeAssumption
  <2>3. Collected(n)'
    <3> DEFINE txs == CollectForBlock(mempool'[n], BlockLimit)
    <3>1. /\ Len(txs) <= BlockLimit
          /\ \A i, j \in DOMAIN txs : i # j => txs[i] # txs[j]
          /\ \A i \in DOMAIN txs : PoolContains(mempool'[n], txs[i])
      BY <2>1, <2>2, CollectsPending
    <3> HIDE DEF txs
    <3> QED
      BY <2>1, <3>1 DEF Collected, txs
  <2> QED
    BY <1>2, <2>1, <2>3 DEF MinerInv, Collected, MinerNotUnderpaid
<1>4. CASE MineFees(n)
  <2>1. pc'[n] = "mining"
    BY <1>1, <1>4 DEF MineFees, BaseInv, LoopInv
  <2>2. job'[n].reward >= mining_reward'[n] + FeesOf(job'[n].transactions)
    BY <1>4, MineFeesPays
  <2> QED
    BY <1>2, <2>1, <2>2 DEF MinerInv, Collected, MinerNotUnderpaid
<1>5. CASE pc'[n] \notin {"collected", "mining"}
  BY <1>2, <1>5 DEF MinerInv, Collected, MinerNotUnderpaid
<1>6. CASE pc'[n] = pc[n] /\ job'[n] = job[n] /\ mining_reward'[n] = mining_reward[n]
  <2>1. ASSUME pc[n] = "collected", NEW tx, PoolContains(mempool[n], tx)
        PROVE  PoolContains(mempool'[n], tx)
    <3>1. CASE mempool'[n] = mempool[n]
      BY <2>1, <3>1
    <3>2. CASE Accepts(n)
      <4>1. PICK t \in Paid, fee \in Nat :
               CanAdd(mempool[n], t) /\ mempool'[n] = Add(mempool[n], t, fee)
        BY <3>2 DEF Accepts
      <4>2. mempool[n] \in Pool /\ Consistent(mempool[n]) /\ t \in Tx
        BY <1>1 DEF BaseInv, PoolInv, PoolsConsistent, Paid
      <4>3. Range(Add(mempool[n], t, fee).entries)
              = Range(mempool[n].entries) \cup {[tx |-> t, fee |-> fee]}
        BY <4>1, <4>2, AddKeeps
      <4>4. Range(mempool[n].entries) \subseteq Range(mempool'[n].entries)
        BY <4>1, <4>3
      <4> QED
        BY <2>1, <4>4 DEF PoolContains, PoolTxs
    <3> QED
      BY <1>1, <2>1, <3>1, <3>2, StepsOfPools DEF MineAppend, NewBlock, Idle
  <2> QED
    BY <1>2, <1>6, <2>1 DEF MinerInv, Collected, MinerNotUnderpaid
<1>7. \/ MineCollect(n) \/ MineFees(n)
      \/ pc'[n] \notin {"collected", "mining"}
      \/ pc'[n] = pc[n] /\ job'[n] = job[n] /\ mining_reward'[n] = mining_reward[n]
  BY <1>1, JobSteps
<1> QED
  BY <1>3, <1>4, <1>5, <1>6, <1>7

LEMMA InitMoney == Init => MoneyInv
PROOF
<1>1. Init => MinerInv
  BY DEF Init, MinerInv, MinerNotUnderpaid
<1> QED
  BY <1>1, InitFees DEF MoneyInv

LEMMA NextMoney == MoneyInv /\ [CrashNext]_vars => MoneyInv'
PROOF
<1> SUFFICES ASSUME MoneyInv, [CrashNext]_vars PROVE MoneyInv'
  OBVIOUS
<1>1. FeesInv /\ MinerInv /\ CrashInv /\ BaseInv
  BY DEF MoneyInv, FeesInv, CrashInv
<1>2. FeesInv'
  BY <1>1, NextFees
<1>3. CASE UNCHANGED vars
  BY <1>1, <1>2, <1>3 DEF vars, blockchain, loop, MinerInv, Collected, MinerNotUnderpaid,
                         MoneyInv
<1>4. ASSUME NEW n \in Node, NodeStep(n) PROVE MoneyInv'
  BY <1>1, <1>2, <1>4, StepKeepsMiner DEF MoneyInv
<1>5. ASSUME NEW n \in Node, Crash(n) \/ CrashInReplace(n) \/ CrashInSave(n)
      PROVE  MoneyInv'
  <2>1. PICK blocks \in Seq(Block), entries \in SUBSET Entry : Restart(n, blocks, entries)
    BY <1>1, <1>5, CrashLeaves
  <2>2. PICK pool : mempool' = [mempool EXCEPT ![n] = pool]
    BY <2>1 DEF Restart
  <2>3. \A m \in Node : m # n => /\ pc'[m] = pc[m] /\ job'[m] = job[m]
                                /\ mining_reward'[m] = mining_reward[m]
                                /\ mempool'[m] = mempool[m]
    BY <1>1, <2>1, <2>2 DEF Restart, BaseInv, LoopInv, PoolInv
  <2>4. pc'[n] = "idle"
    BY <1>1, <2>1 DEF Restart, BaseInv, LoopInv
  <2>5. MinerInv'
    BY <1>1, <2>3, <2>4 DEF MinerInv, Collected, MinerNotUnderpaid
  <2> QED
    BY <1>2, <2>5 DEF MoneyInv
<1> QED
  BY <1>3, <1>4, <1>5 DEF CrashNext, Next

LEMMA SpecMoney == CrashSpec => []MoneyInv
PROOF
  BY InitMoney, NextMoney, PTL DEF CrashSpec

\* The coinbase pays at least the reward and the fees of its block, although POST
\* /send may add dearer transactions between the two locks: the first entries then
\* pay more than what the block took, never less ("mine", collect_for_block,
\* total_fees).
THEOREM MinersNotUnderpaid == CrashSpec => []MinerNotUnderpaid
PROOF
<1>1. MoneyInv => MinerNotUnderpaid
  BY DEF MoneyInv, MinerInv
<1> QED
  BY <1>1, SpecMoney, PTL

-----------------------------------------------------------------------------
\* The schedule of rewards.

\* The first rewards of the schedule, up to the one after m halvings.
Halves(h, m) ==
    /\ h = [k \in 0..m |-> h[k]]
    /\ h[0] = InitialReward
    /\ \A k \in 1..m : h[k] = h[k - 1] \div 2

LEMMA HalvesExist ==
    ASSUME NEW m \in Nat
    PROVE  \E h : Halves(h, m)
PROOF
<1> DEFINE S == {i \in Nat : ~\E h : Halves(h, i)}
<1>1. CASE S = {}
  BY <1>1
<1>2. CASE S # {}
  <2>1. PICK i \in S : \A j \in S : i <= j
    BY <1>2, LeastNatural
  <2>2. CASE i = 0
    <3> DEFINE h == [k \in 0..0 |-> InitialReward]
    <3>1. Halves(h, 0)
      BY DEF Halves
    <3> QED
      BY <2>1, <2>2, <3>1
  <2>3. CASE i # 0
    <3>1. i \in Nat /\ i - 1 \in Nat /\ i - 1 \notin S
      BY <2>1, <2>3
    <3>2. PICK g : Halves(g, i - 1)
      BY <3>1
    <3> DEFINE h == [k \in 0..i |-> IF k = i THEN g[i - 1] \div 2 ELSE g[k]]
    <3>3. h = [k \in 0..i |-> h[k]] /\ h[0] = InitialReward
      BY <2>3, <3>1, <3>2 DEF Halves
    <3>4. ASSUME NEW k \in 1..i PROVE h[k] = h[k - 1] \div 2
      <4>1. k - 1 \in 0..(i - 1) /\ k - 1 # i /\ (k # i => k \in 1..(i - 1))
        BY <3>1
      <4>2. h[k - 1] = g[k - 1]
        BY <3>1, <4>1
      <4>3. CASE k = i
        BY <3>1, <4>2, <4>3
      <4>4. CASE k # i
        <5>1. h[k] = g[k]
          BY <3>1, <4>4
        <5>2. g[k] = g[k - 1] \div 2
          BY <3>2, <4>1, <4>4 DEF Halves
        <5> QED
          BY <4>2, <5>1, <5>2
      <4> QED
        BY <4>3, <4>4
    <3> HIDE DEF h
    <3>5. Halves(h, i)
      BY <3>3, <3>4 DEF Halves
    <3> QED
      BY <2>1, <3>5
  <2> QED
    BY <2>2, <2>3
<1> QED
  BY <1>1, <1>2

LEMMA HalvesUnique ==
    ASSUME NEW m \in Nat, NEW g, Halves(g, m), NEW l \in Nat, NEW h, Halves(h, l),
           NEW k \in Nat, k <= m, k <= l
    PROVE  g[k] = h[k]
PROOF
<1> DEFINE S == {i \in Nat : i <= m /\ i <= l /\ g[i] # h[i]}
<1>1. CASE S = {}
  BY <1>1
<1>2. CASE S # {}
  <2>1. PICK i \in S : \A j \in S : i <= j
    BY <1>2, LeastNatural
  <2>2. i # 0
    BY <2>1 DEF Halves
  <2>3. i - 1 \in Nat /\ i - 1 \notin S /\ i \in 1..m /\ i \in 1..l
    BY <2>1, <2>2
  <2>4. g[i - 1] = h[i - 1]
    BY <2>3
  <2> QED
    BY <2>1, <2>3, <2>4 DEF Halves
<1> QED
  BY <1>1, <1>2

\* The schedule is what its definition says.
LEMMA HalvedIs ==
    /\ Halved[0] = InitialReward
    /\ \A k \in Nat : Halved[k + 1] = Halved[k] \div 2
PROOF
<1> DEFINE part(k) == CHOOSE h : Halves(h, k)
           H == [k \in Nat |-> part(k)[k]]
<1>1. \A k \in Nat : Halves(part(k), k)
  BY HalvesExist
<1> HIDE DEF part
<1>2. H[0] = InitialReward
  BY <1>1 DEF Halves
<1>3. ASSUME NEW k \in Nat, k # 0 PROVE H[k] = H[k - 1] \div 2
  <2>1. k - 1 \in Nat /\ k - 1 <= k /\ k \in 1..k
    BY <1>3
  <2>2. part(k)[k] = part(k)[k - 1] \div 2
    BY <1>1, <2>1 DEF Halves
  <2>3. part(k)[k - 1] = part(k - 1)[k - 1]
    BY <1>1, <2>1, HalvesUnique
  <2> QED
    BY <2>1, <2>2, <2>3
<1>4. H = [k \in Nat |-> IF k = 0 THEN InitialReward ELSE H[k - 1] \div 2]
  <2>1. \A k \in Nat : H[k] = IF k = 0 THEN InitialReward ELSE H[k - 1] \div 2
    BY <1>2, <1>3
  <2>2. H = [k \in Nat |-> H[k]]
    OBVIOUS
  <2> HIDE DEF H
  <2> QED
    BY <2>1, <2>2
<1> HIDE DEF H
<1>5. Halved = [k \in Nat |-> IF k = 0 THEN InitialReward ELSE Halved[k - 1] \div 2]
  BY <1>4 DEF Halved
<1> HIDE DEF Halved
<1>6. Halved[0] = InitialReward
  BY <1>5
<1>7. ASSUME NEW k \in Nat PROVE Halved[k + 1] = Halved[k] \div 2
  <2>1. k + 1 \in Nat /\ k + 1 # 0 /\ (k + 1) - 1 = k
    OBVIOUS
  <2> QED
    BY <1>5, <2>1
<1> QED
  BY <1>6, <1>7

\* It never rises.
LEMMA HalvedFalls ==
    /\ \A k \in Nat : Halved[k] \in Nat
    /\ \A j, k \in Nat : j <= k => Halved[k] <= Halved[j]
PROOF
<1>1. ASSUME NEW j \in Nat, Halved[j] \in Nat, NEW k \in Nat, j <= k
      PROVE  Halved[k] \in Nat /\ Halved[k] <= Halved[j]
  <2> DEFINE Good(i) == Halved[i] \in Nat /\ Halved[i] <= Halved[j]
             S == {i \in Nat : j <= i /\ ~Good(i)}
  <2>1. CASE S = {}
    BY <1>1, <2>1
  <2>2. CASE S # {}
    <3>1. PICK i \in S : \A l \in S : i <= l
      BY <2>2, LeastNatural
    <3>2. i # j
      BY <1>1, <3>1
    <3>3. i - 1 \in Nat /\ j <= i - 1 /\ i - 1 \notin S /\ (i - 1) + 1 = i
      BY <3>1, <3>2
    <3>4. Halved[i - 1] \in Nat /\ Halved[i - 1] <= Halved[j]
      BY <3>3
    <3>5. Halved[i] = Halved[i - 1] \div 2
      BY <3>3, HalvedIs
    <3>6. Halved[i] \in Nat /\ Halved[i] <= Halved[i - 1]
      BY <3>4, <3>5
    <3>7. Good(i)
      BY <1>1, <3>4, <3>6
    <3> QED
      BY <3>1, <3>7
  <2> QED
    BY <2>1, <2>2
<1>2. Halved[0] \in Nat
  BY HalvedIs, NodeAssumption, LedgerAssumption DEF Value
<1>3. \A k \in Nat : Halved[k] \in Nat
  BY <1>1, <1>2
<1> QED
  BY <1>1, <1>3

\* Places in the schedule.
LEMMA Boundaries ==
    ASSUME NEW h \in Nat
    PROVE  /\ h \div HalvingInterval \in Nat
           /\ (h + 1) % HalvingInterval = 0 =>
                 (h + 1) \div HalvingInterval = (h \div HalvingInterval) + 1
           /\ \A k \in Nat : h <= k => h \div HalvingInterval <= k \div HalvingInterval
           /\ (h + 1) % HalvingInterval # 0 =>
                 (h + 1) \div HalvingInterval = h \div HalvingInterval
PROOF
<1> DEFINE b == HalvingInterval
<1>1. b \in Nat \ {0}
  BY NodeAssumption
<1> HIDE DEF b
<1>2. h \div b \in Nat
  BY <1>1
<1>3. (h + 1) % b = 0 => (h + 1) \div b = (h \div b) + 1
  BY <1>1
<1>4. \A k \in Nat : h <= k => h \div b <= k \div b
  BY <1>1
<1>5. (h + 1) % b # 0 => (h + 1) \div b = h \div b
  BY <1>1
<1> QED
  BY <1>2, <1>3, <1>4, <1>5 DEF b

\* The reward a node has kept while its chain grew is no less than the schedule's.
LEMMA LongerPaysLess ==
    ASSUME NEW h \in Nat, NEW k \in Nat, h <= k, NEW reward \in Nat,
           reward >= Halved[h \div HalvingInterval]
    PROVE  reward >= Halved[k \div HalvingInterval]
PROOF
<1>1. /\ h \div HalvingInterval \in Nat /\ k \div HalvingInterval \in Nat
      /\ h \div HalvingInterval <= k \div HalvingInterval
  BY Boundaries
<1> DEFINE i == h \div HalvingInterval
           j == k \div HalvingInterval
<1> HIDE DEF i, j
<1>2. i \in Nat /\ j \in Nat /\ i <= j /\ reward >= Halved[i]
  BY <1>1 DEF i, j
<1>3. Halved[j] <= Halved[i] /\ Halved[j] \in Nat /\ Halved[i] \in Nat
  BY <1>2, HalvedFalls
<1> QED
  BY <1>2, <1>3 DEF j

\* The reward after a block has been mined.
LEMMA HalvingInTime ==
    ASSUME BaseInv, NEW n \in Node, mining_reward[n] >= Halved[Len(chain[n]) \div HalvingInterval]
    PROVE  /\ RewardAfter(n) \in Nat
           /\ RewardAfter(n) >= Halved[(Len(chain[n]) + 1) \div HalvingInterval]
PROOF
<1> DEFINE h == Len(chain[n])
           r == mining_reward[n]
<1>1. h \in Nat /\ r \in Nat
  BY ChainFacts, LedgerAssumption DEF BaseInv, LoopInv, Value
<1>2. RewardAfter(n) = IF (h + 1) % HalvingInterval = 0 /\ r > 1 THEN r \div 2 ELSE r
  BY DEF RewardAfter
<1> HIDE DEF h, r
<1>3. CASE (h + 1) % HalvingInterval = 0 /\ r > 1
  <2> DEFINE k == h \div HalvingInterval
  <2>1. k \in Nat /\ (h + 1) \div HalvingInterval = k + 1 /\ r >= Halved[k]
    BY <1>1, <1>3, Boundaries DEF h, r
  <2> HIDE DEF k
  <2>2. Halved[k + 1] = Halved[k] \div 2 /\ Halved[k] \in Nat
    BY <2>1, HalvedIs, HalvedFalls
  <2>3. r \div 2 >= Halved[k] \div 2 /\ r \div 2 \in Nat
    BY <1>1, <2>1, <2>2
  <2> QED
    BY <1>2, <1>3, <2>1, <2>2, <2>3 DEF h
<1>4. CASE ~((h + 1) % HalvingInterval = 0 /\ r > 1)
  <2>1. h + 1 \in Nat /\ h <= h + 1 /\ r >= Halved[h \div HalvingInterval]
    BY <1>1 DEF h, r
  <2>2. r >= Halved[(h + 1) \div HalvingInterval]
    BY <1>1, <2>1, LongerPaysLess
  <2> QED
    BY <1>1, <1>2, <1>4, <2>2 DEF h
<1> QED
  BY <1>3, <1>4

LEMMA NextReward ==
    CrashInv /\ RewardNeverEarly /\ [CrashNext]_vars => RewardNeverEarly'
PROOF
<1> SUFFICES ASSUME CrashInv, RewardNeverEarly, [CrashNext]_vars, NEW m \in Node
             PROVE  mining_reward'[m] >= Halved[Len(chain'[m]) \div HalvingInterval]
  BY DEF RewardNeverEarly
<1>1. BaseInv /\ Len(chain[m]) \in Nat /\ mining_reward[m] \in Nat
  BY ChainFacts, LedgerAssumption DEF CrashInv, BaseInv, LoopInv, Value
<1>2. Len(chain'[m]) \in Nat
  BY NextCrash, ChainFacts DEF CrashInv, BaseInv, ShapeInv
<1>3. Len(chain'[m]) >= Len(chain[m])
  BY <1>1, HeightsKept DEF vars, blockchain
<1>4. CASE mining_reward'[m] = mining_reward[m]
  BY <1>1, <1>2, <1>3, <1>4, LongerPaysLess DEF RewardNeverEarly
<1>5. CASE mining_reward'[m] = InitialReward
  <2> DEFINE k == Len(chain'[m]) \div HalvingInterval
  <2>1. k \in Nat
    BY <1>2, Boundaries
  <2> HIDE DEF k
  <2>2. Halved[k] <= Halved[0]
    BY <2>1, HalvedFalls
  <2>3. Halved[k] <= InitialReward /\ Halved[k] \in Nat /\ InitialReward \in Nat
    BY <2>1, <2>2, HalvedIs, HalvedFalls, NodeAssumption, LedgerAssumption DEF Value
  <2> QED
    BY <1>5, <2>3 DEF k
<1>6. CASE /\ mining_reward'[m] = RewardAfter(m)
           /\ Len(chain'[m]) = Len(chain[m]) + 1
  BY <1>1, <1>6, HalvingInTime DEF RewardNeverEarly
<1>7. ASSUME NEW n \in Node, NodeStep(n)
      PROVE  \/ mining_reward'[m] = mining_reward[m]
             \/ /\ mining_reward'[m] = RewardAfter(m)
                /\ Len(chain'[m]) = Len(chain[m]) + 1
  <2>1. CASE mining_reward' = mining_reward
    BY <2>1
  <2>2. CASE MineAppend(n) /\ AppendBlock(n, job[n])
                           /\ mining_reward' = [mining_reward EXCEPT ![n] = RewardAfter(n)]
    <3>1. chain' = [chain EXCEPT ![n] = Append(@, job[n])]
      BY <2>2 DEF AppendBlock
    <3>2. chain[n] \in Seq(Block) /\ job[n] \in Block
      BY <1>1, ChainFacts DEF BaseInv, LoopInv
    <3>3. Len(Append(chain[n], job[n])) = Len(chain[n]) + 1
      BY <3>2
    <3> QED
      BY <1>1, <2>2, <3>1, <3>3 DEF BaseInv, LoopInv, ShapeInv
  <2>3. \/ mining_reward' = mining_reward
        \/ MineAppend(n) /\ AppendBlock(n, job[n])
                         /\ mining_reward' = [mining_reward EXCEPT ![n] = RewardAfter(n)]
    BY <1>7 DEF NodeStep, ConsoleSend, RunSend, PostSend, MineCollect, MineFees,
                MineAppend, NewBlock, BlocksBatch, DrainBuffer, NewTx, MempoolTxs,
                AddNext, Subscribed, Unsynchronised, blockchain
  <2> QED
    BY <2>1, <2>2, <2>3
<1>8. ASSUME NEW n \in Node, Crash(n) \/ CrashInReplace(n) \/ CrashInSave(n)
      PROVE  mining_reward'[m] = mining_reward[m] \/ mining_reward'[m] = InitialReward
  <2>1. PICK blocks \in Seq(Block), entries \in SUBSET Entry : Restart(n, blocks, entries)
    BY <1>8, CrashLeaves
  <2> QED
    BY <1>1, <2>1 DEF Restart, BaseInv, LoopInv
<1>9. CASE UNCHANGED vars
  BY <1>4, <1>9 DEF vars, blockchain
<1> QED
  BY <1>4, <1>5, <1>6, <1>7, <1>8, <1>9 DEF CrashNext, Next

\* No node mines for less than the schedule of its chain, whatever reorganisations,
\* crashes and restarts its reward goes through (mining_reward, Blockchain::new).
THEOREM RewardsNeverEarly == CrashSpec => []RewardNeverEarly
PROOF
<1>1. Init => RewardNeverEarly
  <2> SUFFICES ASSUME Init, NEW n \in Node
               PROVE  mining_reward[n] >= Halved[Len(chain[n]) \div HalvingInterval]
    BY DEF RewardNeverEarly
  <2>1. mining_reward[n] = InitialReward /\ Len(chain[n]) = 1
    BY DEF Init
  <2> DEFINE k == 1 \div HalvingInterval
  <2>2. k \in Nat
    BY Boundaries
  <2> HIDE DEF k
  <2>3. Halved[k] <= Halved[0]
    BY <2>2, HalvedFalls
  <2>4. Halved[k] <= InitialReward /\ Halved[k] \in Nat /\ InitialReward \in Nat
    BY <2>2, <2>3, HalvedIs, HalvedFalls, NodeAssumption, LedgerAssumption DEF Value
  <2> QED
    BY <2>1, <2>4 DEF k
<1> QED
  BY <1>1, NextReward, SpecCrash, PTL DEF CrashSpec

-----------------------------------------------------------------------------
\* The account book of a chain.

\* What every published chain is (NodeChainProofs).
Sound(c) == c \in Seq(Block) /\ ChainReplays(c) /\ UniqueCoinbases(c)

Payments(c) == {p \in Positions(c) : ~IsCoinbase(TxAt(c, p))}

Spent(c) == UNION {Inputs(TxAt(c, p)) : p \in Payments(c)}

Worth(c) == [op \in AllOutputs(c) |-> OutputOf(op).value]

LEMMA PositionsFinite ==
    ASSUME NEW c \in Seq(Block)
    PROVE  IsFiniteSet(Positions(c)) /\ IsFiniteSet(Payments(c))
PROOF
<1> DEFINE row == [i \in DOMAIN c |-> {<<i, j>> : j \in DOMAIN c[i].transactions}]
<1>1. IsFiniteSet(DOMAIN c)
  BY SequenceFinite
<1>2. ASSUME NEW i \in DOMAIN c PROVE IsFiniteSet(row[i])
  <2> DEFINE S == DOMAIN c[i].transactions
             b == [j \in S |-> <<i, j>>]
  <2>1. c[i] \in Block
    BY SequenceElement
  <2>2. c[i].transactions \in Seq(Tx)
    BY <2>1 DEF Block
  <2>3. IsFiniteSet(S)
    BY <2>2, SequenceFinite
  <2>4. row[i] = {b[j] : j \in S}
    OBVIOUS
  <2> HIDE DEF S, b, row
  <2> QED
    BY <2>3, <2>4, ImageFinite
<1>3. Positions(c) = UNION {row[i] : i \in DOMAIN c}
  BY DEF Positions
<1> HIDE DEF row
<1>4. IsFiniteSet({row[i] : i \in DOMAIN c})
  BY <1>1, ImageFinite
<1>5. IsFiniteSet(Positions(c))
  BY <1>2, <1>3, <1>4, FS_UNION
<1>6. IsFiniteSet(Payments(c))
  BY <1>5, FS_Subset DEF Payments
<1> QED
  BY <1>5, <1>6

LEMMA OutputsFinite ==
    ASSUME NEW tx \in Tx
    PROVE  IsFiniteSet(Outputs(tx)) /\ OutputTotal(tx) = Total(Outputs(tx))
PROOF
<1> DEFINE S == DOMAIN tx.vout
           b == [i \in S |-> [tx |-> tx, index |-> i]]
           f == [op \in Outputs(tx) |-> OutputOf(op).value]
           g == [i \in S |-> tx.vout[i].value]
<1>1. tx.vout \in Seq([value : Value, owner : Owner])
  BY DEF Tx
<1>2. IsFiniteSet(S)
  BY <1>1, SequenceFinite
<1>3. Outputs(tx) = {b[i] : i \in S}
  BY DEF Outputs
<1>4. \A i \in S : b[i] \in Outputs(tx) /\ OutputOf(b[i]) = tx.vout[i]
  BY DEF Outputs, OutputOf
<1>5. \A i, j \in S : i # j => b[i] # b[j]
  <2> SUFFICES ASSUME NEW i \in S, NEW j \in S, b[i] = b[j] PROVE i = j
    OBVIOUS
  <2>1. b[i].index = i /\ b[j].index = j
    OBVIOUS
  <2> QED
    BY <2>1
<1>6. \A op \in Outputs(tx) : f[op] = OutputOf(op).value /\ f[op] \in Nat
  BY OutputsTyped
<1>7. \A i \in S : g[i] = tx.vout[i].value
  OBVIOUS
<1> HIDE DEF b, f, g, S
<1>8. IsFiniteSet(Outputs(tx))
  BY <1>2, <1>3, ImageFinite
<1>9. \A i \in S : g[i] \in Int /\ g[i] = f[b[i]]
  BY <1>4, <1>6, <1>7
<1>10. Sum(g, S) = Sum(f, {b[i] : i \in S})
  BY <1>2, <1>5, <1>9, SumRenamed
<1>11. OutputTotal(tx) = Sum(g, S)
  BY <1>2, <1>7, <1>9, OutputTotalAs DEF S
<1>12. \A op \in Outputs(tx) : f[op] \in Int /\ f[op] = OutputOf(op).value
  BY <1>6
<1>13. Total(Outputs(tx)) = Sum(f, Outputs(tx))
  BY <1>8, <1>12, TotalAs
<1> QED
  BY <1>3, <1>8, <1>10, <1>11, <1>13

\* Every output is created at one place.
LEMMA BookOutputs ==
    ASSUME NEW c, Sound(c)
    PROVE  /\ IsFiniteSet(AllOutputs(c))
           /\ \A p \in Positions(c) : /\ IsFiniteSet(Outputs(TxAt(c, p)))
                                      /\ Outputs(TxAt(c, p)) \subseteq AllOutputs(c)
           /\ \A p, q \in Positions(c) :
                 p # q => Outputs(TxAt(c, p)) \cap Outputs(TxAt(c, q)) = {}
PROOF
<1> DEFINE made == [p \in Positions(c) |-> Outputs(TxAt(c, p))]
<1>1. c \in Seq(Block) /\ ChainReplays(c) /\ UniqueCoinbases(c)
  BY DEF Sound
<1>2. \A p \in Positions(c) : IsFiniteSet(Outputs(TxAt(c, p)))
  BY <1>1, PositionsHoldTxs, OutputsFinite
<1>3. \A p \in Positions(c) : Outputs(TxAt(c, p)) \subseteq AllOutputs(c)
  BY DEF AllOutputs
<1>4. ASSUME NEW p \in Positions(c), NEW q \in Positions(c), p # q,
             NEW op \in Outputs(TxAt(c, p)), op \in Outputs(TxAt(c, q))
      PROVE  FALSE
  <2>1. op.tx = TxAt(c, p) /\ op.tx = TxAt(c, q)
    BY <1>4 DEF Outputs
  <2>2. Clash(c, p, q) /\ Clash(c, q, p)
    BY <2>1 DEF Clash
  <2>3. Before(p, q) \/ Before(q, p)
    BY <1>1, <1>4, PositionsOrdered
  <2> QED
    BY <1>1, <2>2, <2>3, NoClash
<1>5. AllOutputs(c) = UNION {made[p] : p \in Positions(c)}
  BY DEF AllOutputs
<1>6. \A p \in Positions(c) : IsFiniteSet(made[p])
  BY <1>2
<1> HIDE DEF made
<1>7. IsFiniteSet({made[p] : p \in Positions(c)})
  BY <1>1, PositionsFinite, ImageFinite
<1>8. IsFiniteSet(AllOutputs(c))
  BY <1>5, <1>6, <1>7, FS_UNION
<1> QED
  BY <1>2, <1>3, <1>4, <1>8

\* Outputs of a chain are worth a natural number.
LEMMA WorthOf ==
    ASSUME NEW c, Sound(c), NEW ops \in SUBSET AllOutputs(c)
    PROVE  /\ IsFiniteSet(ops)
           /\ \A op \in ops : Worth(c)[op] \in Nat
           /\ Total(ops) = Sum(Worth(c), ops) /\ Total(ops) \in Nat
           /\ \A owner : /\ TotalOf(owner, ops)
                             = Sum(Worth(c), {op \in ops : OutputOf(op).owner = owner})
                        /\ TotalOf(owner, ops) \in Nat
PROOF
<1>1. IsFiniteSet(ops) /\ c \in Seq(Block)
  BY BookOutputs, FS_Subset DEF Sound
<1>2. \A op \in ops : Worth(c)[op] \in Nat /\ Worth(c)[op] = OutputOf(op).value
  BY <1>1, ChainOutputsTyped DEF Worth
<1>3. ASSUME NEW some \in SUBSET ops
      PROVE  Total(some) = Sum(Worth(c), some) /\ Total(some) \in Nat
  <2>1. IsFiniteSet(some)
    BY <1>1, FS_Subset
  <2>2. \A op \in some : /\ Worth(c)[op] \in Int /\ Worth(c)[op] \in Nat
                         /\ Worth(c)[op] = OutputOf(op).value
    BY <1>2
  <2>3. Total(some) = Sum(Worth(c), some)
    BY <2>1, <2>2, TotalAs
  <2> QED
    BY <2>1, <2>2, <2>3, SumNat
<1>4. ASSUME NEW owner
      PROVE  /\ TotalOf(owner, ops)
                   = Sum(Worth(c), {op \in ops : OutputOf(op).owner = owner})
             /\ TotalOf(owner, ops) \in Nat
  <2> DEFINE some == {op \in ops : OutputOf(op).owner = owner}
  <2>1. TotalOf(owner, ops) = Total(some)
    BY DEF TotalOf
  <2>2. some \in SUBSET ops
    OBVIOUS
  <2> HIDE DEF some
  <2>3. Total(some) = Sum(Worth(c), some) /\ Total(some) \in Nat
    BY <1>3, <2>2
  <2>4. TotalOf(owner, ops) = Sum(Worth(c), some) /\ TotalOf(owner, ops) \in Nat
    BY <2>1, <2>3
  <2> QED
    BY <2>4 DEF some
<1>5. Total(ops) = Sum(Worth(c), ops) /\ Total(ops) \in Nat
  BY <1>3
<1> QED
  BY <1>1, <1>2, <1>4, <1>5

\* A payment spends outputs of its signer, worth what it hands out or more.
LEMMA BookInputs ==
    ASSUME NEW c, Sound(c), NEW p \in Payments(c)
    PROVE  LET tx == TxAt(c, p) IN
           /\ tx \in Tx
           /\ Inputs(tx) \subseteq AllOutputs(c)
           /\ \A op \in Inputs(tx) : OutputOf(op).owner = tx.signer
           /\ OutputTotal(tx) \in Nat /\ OutputTotal(tx) > 0
           /\ Total(Inputs(tx)) >= OutputTotal(tx)
PROOF
<1> DEFINE tx == TxAt(c, p)
<1>1. c \in Seq(Block) /\ ChainReplays(c) /\ p \in Positions(c) /\ ~IsCoinbase(tx)
  BY DEF Sound, Payments
<1>2. tx \in Tx
  BY <1>1, PositionsHoldTxs
<1>3. ValidateAgainst(tx, ReplayUtxos(c, p))
  BY <1>1 DEF ChainReplays
<1>4. ReplayUtxos(c, p) \subseteq AllOutputs(c)
  BY DEF ReplayUtxos, AllOutputs
<1> HIDE DEF tx
<1>5. /\ Inputs(tx) \subseteq AllOutputs(c)
      /\ \A op \in Inputs(tx) : OutputOf(op).owner = tx.signer
      /\ Total(Inputs(tx)) >= OutputTotal(tx)
  BY <1>1, <1>3, <1>4 DEF ValidateAgainst
<1>6. OutputTotal(tx) \in Nat /\ OutputTotal(tx) > 0
  <2> DEFINE S == DOMAIN tx.vout
             f == [i \in S |-> tx.vout[i].value]
  <2>1. tx.vout \in Seq([value : Value, owner : Owner]) /\ tx.vout # <<>>
    BY <1>2, <1>3 DEF Tx, ValidateAgainst, VerifyBasic
  <2>2. IsFiniteSet(S)
    BY <2>1, SequenceFinite
  <2>3. 1 \in S
    BY <2>1
  <2>4. \A i \in S : f[i] \in Nat /\ f[i] > 0 /\ f[i] = tx.vout[i].value
    <3> SUFFICES ASSUME NEW i \in S PROVE tx.vout[i].value \in Nat /\ tx.vout[i].value > 0
      OBVIOUS
    <3>1. tx.vout[i] \in [value : Value, owner : Owner]
      BY <2>1, SequenceElement
    <3> QED
      BY <1>3, <3>1, LedgerAssumption DEF Value, ValidateAgainst, VerifyBasic
  <2> HIDE DEF f
  <2>5. \A i \in S : f[i] \in Int /\ f[i] = tx.vout[i].value
    BY <2>4
  <2>6. OutputTotal(tx) = Sum(f, S)
    BY <2>2, <2>5, OutputTotalAs
  <2> HIDE DEF S
  <2>7. Sum(f, S) = f[1] + Sum(f, S \ {1})
    BY <2>2, <2>3, <2>5, SumTakesAny
  <2>8. Sum(f, S \ {1}) \in Nat
    <3>1. IsFiniteSet(S \ {1}) /\ \A i \in S \ {1} : f[i] \in Nat
      BY <2>2, <2>4, FS_Subset
    <3> QED
      BY <3>1, SumNat
  <2> QED
    BY <2>3, <2>4, <2>6, <2>7, <2>8
<1> QED
  BY <1>2, <1>5, <1>6 DEF tx

\* Every output is spent by one payment at most; what is not spent is unspent.
LEMMA BookSpent ==
    ASSUME NEW c, Sound(c)
    PROVE  /\ Spent(c) \subseteq AllOutputs(c)
           /\ BuildUtxoSet(c) = AllOutputs(c) \ Spent(c)
           /\ \A p, q \in Payments(c) :
                 p # q => Inputs(TxAt(c, p)) \cap Inputs(TxAt(c, q)) = {}
PROOF
<1>1. Spent(c) \subseteq AllOutputs(c)
  BY BookInputs DEF Spent
<1>2. BuildUtxoSet(c) = AllOutputs(c) \ Spent(c)
  BY DEF BuildUtxoSet, AllOutputs, Spent, Payments
<1>3. ASSUME NEW p \in Payments(c), NEW q \in Payments(c), p # q,
             NEW op, op \in Inputs(TxAt(c, p)), op \in Inputs(TxAt(c, q))
      PROVE  FALSE
  <2>1. Clash(c, p, q) /\ Clash(c, q, p)
    BY <1>3 DEF Clash, Payments
  <2>2. Before(p, q) \/ Before(q, p)
    BY <1>3, PositionsOrdered DEF Sound, Payments
  <2> QED
    BY <2>1, <2>2, NoClash DEF Sound, Payments
<1> QED
  BY <1>1, <1>2, <1>3

\* What some outputs add to a part of the outputs of a chain.
WorthIn(c, mine, ops) == Sum(Worth(c), ops \cap mine)

\* Disjoint sets of outputs of a chain, added up.
LEMMA WorthOfParts ==
    ASSUME NEW c, Sound(c), NEW I, IsFiniteSet(I), NEW all \in SUBSET AllOutputs(c),
           NEW parts, \A i \in I : parts[i] \subseteq all,
           \A op \in all : \E i \in I : op \in parts[i],
           \A i, j \in I : i # j => parts[i] \cap parts[j] = {},
           NEW f, \A i \in I : f[i] = Sum(Worth(c), parts[i])
    PROVE  Sum(f, I) = Sum(Worth(c), all)
PROOF
<1> DEFINE w == Worth(c)
<1>1. ASSUME NEW i \in I PROVE IsFiniteSet(parts[i]) /\ \A op \in parts[i] : w[op] \in Int
  <2>1. parts[i] \in SUBSET AllOutputs(c)
    OBVIOUS
  <2>2. IsFiniteSet(parts[i]) /\ \A op \in parts[i] : w[op] \in Nat
    BY <2>1, WorthOf
  <2> QED
    BY <2>2
<1> HIDE DEF w
<1>2. \A i \in I : IsFiniteSet(parts[i])
  BY <1>1
<1>3. \A i \in I : \A op \in parts[i] : w[op] \in Int
  BY <1>1
<1>4. \A i \in I : f[i] = Sum(w, parts[i])
  BY DEF w
<1>5. Sum(f, I) = Sum(w, all)
  <2>1. IsFiniteSet(I)
    OBVIOUS
  <2>2. \A i, j \in I : i # j => parts[i] \cap parts[j] = {}
    OBVIOUS
  <2>3. \A op \in all : \E i \in I : op \in parts[i]
    OBVIOUS
  <2>4. \A i \in I : parts[i] \subseteq all
    OBVIOUS
  <2> QED
    BY ONLY SMTT(30), <1>2, <1>3, <1>4, <2>1, <2>2, <2>3, <2>4, SumOfSums
<1> QED
  BY <1>5 DEF w

\* What is in a part of the outputs, added up by the place that created it,
LEMMA MadeAddsUp ==
    ASSUME NEW c, Sound(c), NEW mine,
           NEW f, \A p \in Positions(c) : f[p] = WorthIn(c, mine, Outputs(TxAt(c, p)))
    PROVE  Sum(f, Positions(c)) = WorthIn(c, mine, AllOutputs(c))
PROOF
<1> DEFINE I == Positions(c)
           parts == [p \in I |-> Outputs(TxAt(c, p)) \cap mine]
           all == AllOutputs(c) \cap mine
<1>1. IsFiniteSet(I)
  BY PositionsFinite DEF Sound
<1>2. \A p \in I : parts[p] \subseteq all
  BY BookOutputs
<1>3. \A op \in all : \E p \in I : op \in parts[p]
  BY DEF AllOutputs
<1>4. \A p, q \in I : p # q => parts[p] \cap parts[q] = {}
  BY BookOutputs
<1>5. \A p \in I : f[p] = Sum(Worth(c), parts[p])
  BY DEF WorthIn
<1>6. all \in SUBSET AllOutputs(c) /\ WorthIn(c, mine, AllOutputs(c)) = Sum(Worth(c), all)
  BY DEF WorthIn
<1> HIDE DEF I, parts, all
<1>7. Sum(f, I) = Sum(Worth(c), all)
  BY <1>1, <1>2, <1>3, <1>4, <1>5, <1>6, WorthOfParts
<1> QED
  BY <1>6, <1>7 DEF I

\* by the payment that spent it,
LEMMA UsedAddsUp ==
    ASSUME NEW c, Sound(c), NEW mine,
           NEW f, \A p \in Payments(c) : f[p] = WorthIn(c, mine, Inputs(TxAt(c, p)))
    PROVE  Sum(f, Payments(c)) = WorthIn(c, mine, Spent(c))
PROOF
<1> DEFINE I == Payments(c)
           parts == [p \in I |-> Inputs(TxAt(c, p)) \cap mine]
           all == Spent(c) \cap mine
<1>1. IsFiniteSet(I)
  BY PositionsFinite DEF Sound
<1>2. \A p \in I : parts[p] \subseteq all
  BY DEF Spent
<1>3. \A op \in all : \E p \in I : op \in parts[p]
  BY DEF Spent
<1>4. \A p, q \in I : p # q => parts[p] \cap parts[q] = {}
  BY BookSpent
<1>5. \A p \in I : f[p] = Sum(Worth(c), parts[p])
  BY DEF WorthIn
<1>6. all \in SUBSET AllOutputs(c) /\ WorthIn(c, mine, Spent(c)) = Sum(Worth(c), all)
  BY BookSpent DEF WorthIn
<1> HIDE DEF I, parts, all
<1>7. Sum(f, I) = Sum(Worth(c), all)
  BY <1>1, <1>2, <1>3, <1>4, <1>5, <1>6, WorthOfParts
<1> QED
  BY <1>6, <1>7 DEF I

\* or by whether it is spent.
LEMMA LeftAddsUp ==
    ASSUME NEW c, Sound(c), NEW mine
    PROVE  /\ WorthIn(c, mine, AllOutputs(c))
                = WorthIn(c, mine, BuildUtxoSet(c)) + WorthIn(c, mine, Spent(c))
           /\ WorthIn(c, mine, BuildUtxoSet(c)) \in Nat
           /\ WorthIn(c, mine, Spent(c)) \in Nat
PROOF
<1> DEFINE w == Worth(c)
           left == BuildUtxoSet(c) \cap mine
           gone == Spent(c) \cap mine
           all == AllOutputs(c) \cap mine
<1>1. /\ left \in SUBSET AllOutputs(c) /\ gone \in SUBSET AllOutputs(c)
      /\ left \cap gone = {} /\ left \cup gone = all
  BY BookSpent
<1>2. /\ WorthIn(c, mine, AllOutputs(c)) = Sum(w, all)
      /\ WorthIn(c, mine, BuildUtxoSet(c)) = Sum(w, left)
      /\ WorthIn(c, mine, Spent(c)) = Sum(w, gone)
  BY DEF WorthIn
<1> HIDE DEF left, gone, all
<1>3. /\ IsFiniteSet(left) /\ IsFiniteSet(gone)
      /\ (\A op \in left : w[op] \in Nat) /\ (\A op \in gone : w[op] \in Nat)
  BY <1>1, WorthOf
<1> HIDE DEF w
<1>4. Sum(w, left \cup gone) = Sum(w, left) + Sum(w, gone)
  <2>1. \A op \in left \cup gone : w[op] \in Int
    BY <1>3
  <2> QED
    BY <1>1, <1>3, <2>1, SumSplits
<1>5. Sum(w, left) \in Nat /\ Sum(w, gone) \in Nat
  BY <1>3, SumNat
<1> QED
  BY <1>1, <1>2, <1>4, <1>5

\* The two amounts that classify_tx computes for an owner.
Received(c, p, owner) == TotalOf(owner, Outputs(TxAt(c, p)))

Paying(c, p, owner) ==
    IF IsCoinbase(TxAt(c, p)) THEN 0
    ELSE TotalOf(owner, Inputs(TxAt(c, p)) \cap AllOutputs(c))

OwnedBy(c, owner) == {op \in AllOutputs(c) : OutputOf(op).owner = owner}

LEMMA AmountsOf ==
    ASSUME NEW c, Sound(c), NEW p \in Positions(c), NEW owner
    PROVE  /\ Received(c, p, owner) \in Nat
           /\ Received(c, p, owner)
                = WorthIn(c, OwnedBy(c, owner), Outputs(TxAt(c, p)))
           /\ Paying(c, p, owner) \in Nat
           /\ p \in Payments(c) => Paying(c, p, owner)
                = WorthIn(c, OwnedBy(c, owner), Inputs(TxAt(c, p)))
           /\ p \notin Payments(c) => Paying(c, p, owner) = 0
PROOF
<1> DEFINE mine == OwnedBy(c, owner)
           outs == Outputs(TxAt(c, p))
           ins == Inputs(TxAt(c, p)) \cap AllOutputs(c)
<1>1. outs \in SUBSET AllOutputs(c) /\ ins \in SUBSET AllOutputs(c)
  BY BookOutputs
<1>2. {op \in outs : OutputOf(op).owner = owner} = outs \cap mine
  BY <1>1 DEF OwnedBy
<1>3. {op \in ins : OutputOf(op).owner = owner} = Inputs(TxAt(c, p)) \cap mine
  BY DEF OwnedBy
<1>4. /\ TotalOf(owner, outs) = Sum(Worth(c), {op \in outs : OutputOf(op).owner = owner})
      /\ TotalOf(owner, outs) \in Nat
  BY <1>1, WorthOf
<1>5. /\ TotalOf(owner, ins) = Sum(Worth(c), {op \in ins : OutputOf(op).owner = owner})
      /\ TotalOf(owner, ins) \in Nat
  BY <1>1, WorthOf
<1>6. Received(c, p, owner) = TotalOf(owner, outs)
  BY DEF Received
<1>7. Paying(c, p, owner) = IF p \in Payments(c) THEN TotalOf(owner, ins) ELSE 0
  BY DEF Paying, Payments
<1>8. outs = Outputs(TxAt(c, p))
  OBVIOUS
<1> HIDE DEF outs, ins
<1>9. /\ Received(c, p, owner) \in Nat
      /\ Received(c, p, owner) = WorthIn(c, mine, Outputs(TxAt(c, p)))
  BY <1>2, <1>4, <1>6, <1>8 DEF WorthIn
<1>10. CASE p \in Payments(c)
  <2>1. Paying(c, p, owner) = WorthIn(c, mine, Inputs(TxAt(c, p)))
    BY <1>3, <1>5, <1>7, <1>10 DEF WorthIn
  <2> QED
    BY <1>5, <1>7, <1>9, <1>10, <2>1
<1>11. CASE p \notin Payments(c)
  BY <1>7, <1>9, <1>11
<1> QED
  BY <1>10, <1>11

LEMMA NetIs ==
    ASSUME NEW c, Sound(c), NEW p \in Positions(c), NEW owner
    PROVE  /\ Classify(c, p, owner).net = Received(c, p, owner) - Paying(c, p, owner)
           /\ p \in Involving(c, owner) <=>
                 Received(c, p, owner) # 0 \/ Paying(c, p, owner) # 0
           /\ Classify(c, p, owner).direction # "received" <=> Paying(c, p, owner) # 0
           /\ Classify(c, p, owner).fee = FeeIn(c, TxAt(c, p))
PROOF
<1>1. Received(c, p, owner) \in Nat /\ Paying(c, p, owner) \in Nat
  BY AmountsOf
<1>2. Classify(c, p, owner) =
        [direction |-> IF Paying(c, p, owner) = 0 THEN "received"
                       ELSE IF Received(c, p, owner) = Paying(c, p, owner) THEN "self"
                       ELSE "sent",
         net |-> IF Received(c, p, owner) = Paying(c, p, owner) THEN 0
                 ELSE Received(c, p, owner) - Paying(c, p, owner),
         fee |-> FeeIn(c, TxAt(c, p)), confirmations |-> Len(c) - p[1] + 1]
  BY DEF Classify, Received, Paying
<1>3. p \in Involving(c, owner) <=>
         Received(c, p, owner) # 0 \/ Paying(c, p, owner) # 0
  BY DEF Involving, Received, Paying
<1>4. Classify(c, p, owner).net = Received(c, p, owner) - Paying(c, p, owner)
  BY <1>1, <1>2
<1>5. Classify(c, p, owner).direction # "received" <=> Paying(c, p, owner) # 0
  BY <1>2
<1>6. Classify(c, p, owner).fee = FeeIn(c, TxAt(c, p))
  BY <1>2
<1> QED
  BY <1>3, <1>4, <1>5, <1>6

\* What an owner has received less what they have spent is what is left to them.
LEMMA HistoryAddsUp ==
    ASSUME NEW c, Sound(c), NEW owner
    PROVE  SumFunction([p \in Involving(c, owner) |-> Classify(c, p, owner).net])
              = AddressBalance(c, owner)
PROOF
<1> DEFINE mine == OwnedBy(c, owner)
           P == Positions(c)
           I == Involving(c, owner)
           made == [p \in P |-> Received(c, p, owner)]
           used == [p \in P |-> Paying(c, p, owner)]
           net == [p \in P |-> made[p] - used[p]]
           history == [p \in I |-> Classify(c, p, owner).net]
<1>1. IsFiniteSet(P) /\ I \in SUBSET P /\ Payments(c) \in SUBSET P
  BY PositionsFinite DEF Sound, Involving, Payments
<1>2. \A p \in P : made[p] \in Nat /\ used[p] \in Nat
  BY AmountsOf
<1>3. \A p \in P : made[p] = WorthIn(c, mine, Outputs(TxAt(c, p)))
  BY AmountsOf
<1>4. \A p \in Payments(c) : used[p] = WorthIn(c, mine, Inputs(TxAt(c, p)))
  BY <1>1, AmountsOf
<1>5. \A p \in P \ Payments(c) : used[p] = 0
  BY AmountsOf
<1>6. \A p \in P : net[p] = made[p] - used[p] /\ net[p] \in Int
  BY <1>2
<1>7. \A p \in I : history[p] = net[p]
  BY <1>1, NetIs
<1>8. \A p \in P \ I : net[p] = 0
  BY NetIs
<1>9. SumFunction(history) = Sum(history, I)
  BY DEF SumFunction, Sum
<1>10. WorthIn(c, mine, BuildUtxoSet(c)) = AddressBalance(c, owner)
  <2>1. BuildUtxoSet(c) \in SUBSET AllOutputs(c)
    BY BookSpent
  <2>2. BuildUtxoSet(c) \cap mine = {op \in BuildUtxoSet(c) : OutputOf(op).owner = owner}
    BY <2>1 DEF OwnedBy
  <2>3. TotalOf(owner, BuildUtxoSet(c))
          = Sum(Worth(c), {op \in BuildUtxoSet(c) : OutputOf(op).owner = owner})
    BY <2>1, WorthOf
  <2> QED
    BY <2>2, <2>3 DEF AddressBalance, WorthIn
<1> HIDE DEF made, used, net, history, mine
<1>12. /\ Sum(made, P) - Sum(used, Payments(c)) = AddressBalance(c, owner)
       /\ Sum(made, P) \in Nat /\ Sum(used, Payments(c)) \in Nat
  <2>1. Sum(made, P) = WorthIn(c, mine, AllOutputs(c))
    BY <1>3, MadeAddsUp
  <2>2. Sum(used, Payments(c)) = WorthIn(c, mine, Spent(c))
    BY <1>4, UsedAddsUp
  <2>3. /\ WorthIn(c, mine, AllOutputs(c))
             = WorthIn(c, mine, BuildUtxoSet(c)) + WorthIn(c, mine, Spent(c))
        /\ WorthIn(c, mine, BuildUtxoSet(c)) \in Nat
        /\ WorthIn(c, mine, Spent(c)) \in Nat
    BY LeftAddsUp
  <2> QED
    BY <1>10, <2>1, <2>2, <2>3
<1> HIDE DEF P, I
<1>13. Sum(used, P) = Sum(used, Payments(c))
  BY <1>1, <1>2, <1>5, SumOfSubset
<1>14. Sum(net, P) = Sum(made, P) - Sum(used, P)
  BY <1>1, <1>2, <1>6, SumOfDifferences
<1>15. Sum(net, P) = Sum(net, I)
  BY <1>1, <1>6, <1>8, SumOfSubset
<1>16. Sum(history, I) = Sum(net, I)
  <2>1. IsFiniteSet(I) /\ \A p \in I : history[p] \in Int /\ history[p] = net[p]
    BY <1>1, <1>6, <1>7, FS_Subset
  <2> QED
    BY <2>1, SumsAgree
<1> QED
  BY <1>9, <1>12, <1>13, <1>14, <1>15, <1>16 DEF history, I

LEMMA HeldSound ==
    ASSUME Inv, BranchInv, SpendInv, NEW n \in Node
    PROVE  Sound(chain[n])
PROOF
<1>1. chain[n] \in published
  BY DEF Inv, BaseInv, ShapeInv
<1> QED
  BY <1>1, PublishedUnique DEF Sound

\* The net amounts of a history add up to the balance, on the chain of every node
\* (classify_tx, build_history, build_utxo_set, get_address).
THEOREM HistoriesExplainBalances == Spec => []HistoryExplainsBalance
PROOF
<1>1. ASSUME Inv, BranchInv, SpendInv PROVE HistoryExplainsBalance
  BY <1>1, HeldSound, HistoryAddsUp DEF HistoryExplainsBalance
<1> QED
  BY <1>1, SpecSpend, PTL

Signed(c, owner) == {p \in Payments(c) : TxAt(c, p).signer = owner}

\* What a payment leaves to the miner, as fee_in_chain computes it.
LEMMA FeeInIs ==
    ASSUME NEW c, Sound(c), NEW p \in Payments(c)
    PROVE  LET tx == TxAt(c, p) IN
           /\ FeeIn(c, tx) = Total(Inputs(tx)) - OutputTotal(tx)
           /\ OutputTotal(tx) \in Nat
           /\ Total(Inputs(tx)) \in Nat /\ Total(Inputs(tx)) > 0
           /\ Total(Inputs(tx)) = WorthIn(c, AllOutputs(c), Inputs(tx))
PROOF
<1> DEFINE tx == TxAt(c, p)
<1>1. /\ tx \in Tx /\ Inputs(tx) \subseteq AllOutputs(c)
      /\ OutputTotal(tx) \in Nat /\ OutputTotal(tx) > 0
      /\ Total(Inputs(tx)) >= OutputTotal(tx)
      /\ ~IsCoinbase(tx)
  BY BookInputs DEF Payments
<1> HIDE DEF tx
<1>2. Inputs(tx) \cap AllOutputs(c) = Inputs(tx) /\ Inputs(tx) \in SUBSET AllOutputs(c)
  BY <1>1
<1>3. Total(Inputs(tx)) \in Nat /\ Total(Inputs(tx)) = Sum(Worth(c), Inputs(tx))
  BY <1>2, WorthOf
<1>4. FeeIn(c, tx) = Total(Inputs(tx)) - OutputTotal(tx)
  BY <1>1, <1>2, <1>3 DEF FeeIn
<1>5. Total(Inputs(tx)) = WorthIn(c, AllOutputs(c), Inputs(tx))
  BY <1>2, <1>3 DEF WorthIn
<1>6. Total(Inputs(tx)) > 0
  BY <1>1, <1>3
<1> QED
  BY <1>1, <1>3, <1>4, <1>5, <1>6 DEF tx

\* Only the signer of a payment pays its fee.
LEMMA PayerSigns ==
    ASSUME NEW c, Sound(c), NEW owner
    PROVE  {p \in Involving(c, owner) : Classify(c, p, owner).direction # "received"}
             = Signed(c, owner)
PROOF
<1>1. ASSUME NEW p \in Positions(c)
      PROVE  Paying(c, p, owner) # 0 <=> p \in Signed(c, owner)
  <2> DEFINE tx == TxAt(c, p)
             mine == OwnedBy(c, owner)
  <2>1. CASE p \notin Payments(c)
    BY <2>1, AmountsOf DEF Signed
  <2>2. CASE p \in Payments(c)
    <3>1. /\ Inputs(tx) \subseteq AllOutputs(c)
          /\ \A op \in Inputs(tx) : OutputOf(op).owner = tx.signer
      BY <2>2, BookInputs
    <3>2. Paying(c, p, owner) = Sum(Worth(c), Inputs(tx) \cap mine)
      BY <2>2, AmountsOf DEF WorthIn
    <3>3. CASE tx.signer = owner
      <4>1. Inputs(tx) \cap mine = Inputs(tx) \cap AllOutputs(c)
        BY <3>1, <3>3 DEF OwnedBy
      <4>2. /\ Total(Inputs(tx)) = Sum(Worth(c), Inputs(tx) \cap AllOutputs(c))
            /\ Total(Inputs(tx)) \in Nat /\ Total(Inputs(tx)) > 0
        BY <2>2, FeeInIs DEF WorthIn
      <4>3. Paying(c, p, owner) # 0
        BY <3>2, <4>1, <4>2
      <4> QED
        BY <2>2, <3>3, <4>3 DEF Signed
    <3>4. CASE tx.signer # owner
      <4>1. Inputs(tx) \cap mine = {}
        BY <3>1, <3>4 DEF OwnedBy
      <4>2. Paying(c, p, owner) = 0
        BY <3>2, <4>1, SumOfNone
      <4> QED
        BY <3>4, <4>2 DEF Signed
    <3> QED
      BY <3>3, <3>4
  <2> QED
    BY <2>1, <2>2
<1>2. Involving(c, owner) \subseteq Positions(c) /\ Signed(c, owner) \subseteq Positions(c)
  BY DEF Involving, Signed, Payments
<1> QED
  BY <1>1, <1>2, NetIs

\* The fees in the history of an owner.
LEMMA FeesPaidIs ==
    ASSUME NEW c, Sound(c), NEW owner,
           NEW fee, \A p \in Payments(c) : fee[p] \in Int /\ fee[p] = FeeIn(c, TxAt(c, p))
    PROVE  FeesPaid(c, owner) = Sum(fee, Signed(c, owner))
PROOF
<1> DEFINE S == {p \in Involving(c, owner) : Classify(c, p, owner).direction # "received"}
           f == [p \in S |-> Classify(c, p, owner).fee]
<1>1. FeesPaid(c, owner) = Sum(f, S)
  BY DEF FeesPaid, SumFunction, Sum
<1>2. S = Signed(c, owner)
  BY PayerSigns
<1>3. S \subseteq Positions(c)
  BY DEF Involving
<1>4. \A p \in S : f[p] = FeeIn(c, TxAt(c, p))
  BY <1>3, NetIs
<1> HIDE DEF S, f
<1>5. \A p \in S : fee[p] \in Int /\ fee[p] = f[p]
  BY <1>2, <1>4 DEF Signed
<1>6. IsFiniteSet(S)
  BY <1>3, PositionsFinite, FS_Subset DEF Sound
<1>7. Sum(fee, S) = Sum(f, S)
  BY <1>5, <1>6, SumsAgree
<1> QED
  BY <1>1, <1>2, <1>7

LEMMA OwnersFinite == IsFiniteSet(Owner)
PROOF
<1>1. IsFiniteSet(Wallet) /\ IsFiniteSet({NoWallet})
  BY LedgerAssumption, FS_Singleton
<1> QED
  BY <1>1, FS_Union DEF Owner

\* All balances.
LEMMA BalancesAddUp ==
    ASSUME NEW c, Sound(c), NEW f, \A owner \in Owner : f[owner] = AddressBalance(c, owner)
    PROVE  /\ Sum(f, Owner) = WorthIn(c, AllOutputs(c), BuildUtxoSet(c))
           /\ \A owner \in Owner : f[owner] \in Nat
PROOF
<1> DEFINE all == BuildUtxoSet(c)
           parts == [owner \in Owner |-> {op \in all : OutputOf(op).owner = owner}]
<1>1. all \in SUBSET AllOutputs(c) /\ all \cap AllOutputs(c) = all
  BY BookSpent
<1>2. \A owner \in Owner : parts[owner] \subseteq all
  OBVIOUS
<1>3. \A op \in all : \E owner \in Owner : op \in parts[owner]
  <2> SUFFICES ASSUME NEW op \in all PROVE OutputOf(op).owner \in Owner
    OBVIOUS
  <2> QED
    BY <1>1, ChainOutputsTyped DEF Sound
<1>4. \A o1, o2 \in Owner : o1 # o2 => parts[o1] \cap parts[o2] = {}
  OBVIOUS
<1>5. \A owner \in Owner : f[owner] = Sum(Worth(c), parts[owner])
  BY <1>1, WorthOf DEF AddressBalance
<1>6. WorthIn(c, AllOutputs(c), all) = Sum(Worth(c), all)
  BY <1>1 DEF WorthIn
<1>7. \A owner \in Owner : f[owner] \in Nat
  <2>1. \A owner \in Owner : f[owner] = TotalOf(owner, all)
    BY DEF AddressBalance
  <2> HIDE DEF all
  <2>2. \A owner : TotalOf(owner, all) \in Nat
    BY <1>1, WorthOf
  <2> QED
    BY ONLY <2>1, <2>2
<1> HIDE DEF all, parts
<1>8. Sum(f, Owner) = Sum(Worth(c), all)
  BY <1>1, <1>2, <1>3, <1>4, <1>5, OwnersFinite, WorthOfParts
<1> QED
  BY <1>6, <1>7, <1>8 DEF all

\* All fees that owners have paid are the fees of all payments.
LEMMA FeesAddUp ==
    ASSUME NEW c, Sound(c),
           NEW fee, \A p \in Payments(c) : fee[p] \in Int /\ fee[p] = FeeIn(c, TxAt(c, p)),
           NEW f, \A owner \in Owner : f[owner] = FeesPaid(c, owner)
    PROVE  /\ Sum(f, Owner) = Sum(fee, Payments(c))
           /\ \A owner \in Owner : f[owner] \in Int
PROOF
<1> DEFINE all == Payments(c)
           parts == [owner \in Owner |-> Signed(c, owner)]
<1>1. IsFiniteSet(all)
  BY PositionsFinite DEF Sound
<1>2. \A owner \in Owner : parts[owner] \subseteq all
  BY DEF Signed
<1>3. \A p \in all : \E owner \in Owner : p \in parts[owner]
  <2> SUFFICES ASSUME NEW p \in all PROVE TxAt(c, p).signer \in Owner
    BY DEF Signed
  <2>1. TxAt(c, p) \in Tx
    BY BookInputs
  <2> QED
    BY <2>1 DEF Tx
<1>4. \A o1, o2 \in Owner : o1 # o2 => parts[o1] \cap parts[o2] = {}
  BY DEF Signed
<1>5. \A owner \in Owner : f[owner] = Sum(fee, parts[owner])
  BY FeesPaidIs
<1>6. \A p \in all : fee[p] \in Int
  OBVIOUS
<1> HIDE DEF all, parts
<1>7. \A owner \in Owner : IsFiniteSet(parts[owner])
  BY <1>1, <1>2, FS_Subset
<1>8. \A owner \in Owner : \A p \in parts[owner] : fee[p] \in Int
  BY <1>2, <1>6
<1>9. Sum(f, Owner) = Sum(fee, all)
  <2>1. IsFiniteSet(Owner)
    BY OwnersFinite
  <2> QED
    BY ONLY <1>2, <1>3, <1>4, <1>5, <1>7, <1>8, <2>1, SumOfSums, SMTT(60)
<1>10. \A owner \in Owner : f[owner] \in Int
  BY <1>5, <1>7, <1>8, SumType
<1> QED
  BY <1>9, <1>10 DEF all

\* The supply is in the balances and in the fees that were paid.
LEMMA SupplyAddsUp ==
    ASSUME NEW c, Sound(c)
    PROVE  TotalSupply(c) = SumFunction([owner \in Owner |->
                               AddressBalance(c, owner) + FeesPaid(c, owner)])
PROOF
<1> DEFINE P == Positions(c)
           mints == {p \in P : IsCoinbase(TxAt(c, p))}
           made == [p \in P |-> OutputTotal(TxAt(c, p))]
           minted == [p \in mints |-> OutputTotal(TxAt(c, p))]
           used == [p \in Payments(c) |-> Total(Inputs(TxAt(c, p)))]
           fee == [p \in Payments(c) |-> FeeIn(c, TxAt(c, p))]
           bal == [owner \in Owner |-> AddressBalance(c, owner)]
           paid == [owner \in Owner |-> FeesPaid(c, owner)]
           both == [owner \in Owner |-> AddressBalance(c, owner) + FeesPaid(c, owner)]
<1>1. /\ IsFiniteSet(P) /\ IsFiniteSet(Payments(c))
      /\ mints \in SUBSET P /\ mints \cap Payments(c) = {}
      /\ mints \cup Payments(c) = P
  BY PositionsFinite DEF Sound, Payments
<1>2. \A p \in P : /\ made[p] \in Nat
                   /\ made[p] = WorthIn(c, AllOutputs(c), Outputs(TxAt(c, p)))
  <2> SUFFICES ASSUME NEW p \in P
               PROVE  /\ OutputTotal(TxAt(c, p)) \in Nat
                      /\ OutputTotal(TxAt(c, p))
                           = WorthIn(c, AllOutputs(c), Outputs(TxAt(c, p)))
    OBVIOUS
  <2> DEFINE tx == TxAt(c, p)
             outs == Outputs(tx)
  <2>1. tx \in Tx
    BY PositionsHoldTxs DEF Sound
  <2>2. OutputTotal(tx) \in Nat /\ OutputTotal(tx) = Total(outs)
    BY <2>1, OutputTotalNat, OutputsFinite
  <2>3. outs \in SUBSET AllOutputs(c) /\ outs \cap AllOutputs(c) = outs
    BY BookOutputs
  <2> HIDE DEF outs
  <2>4. Total(outs) = Sum(Worth(c), outs)
    BY <2>3, WorthOf
  <2> QED
    BY <2>2, <2>3, <2>4 DEF WorthIn, outs
<1>3. \A p \in mints : minted[p] = made[p]
  OBVIOUS
<1>4. \A p \in Payments(c) : /\ used[p] \in Nat
                            /\ used[p] = WorthIn(c, AllOutputs(c), Inputs(TxAt(c, p)))
                            /\ fee[p] = used[p] - made[p]
                            /\ fee[p] = FeeIn(c, TxAt(c, p))
  BY <1>1, FeeInIs
<1>5. \A owner \in Owner : /\ bal[owner] = AddressBalance(c, owner)
                          /\ paid[owner] = FeesPaid(c, owner)
                          /\ both[owner] = bal[owner] + paid[owner]
  OBVIOUS
<1>6. TotalSupply(c) = Sum(minted, mints)
  BY DEF TotalSupply, SumFunction, Sum
<1>7. SumFunction(both) = Sum(both, Owner)
  BY DEF SumFunction, Sum
<1> HIDE DEF mints, made, minted, used, fee, bal, paid, both
<1>8. Sum(made, P) = WorthIn(c, AllOutputs(c), AllOutputs(c))
  BY <1>2, MadeAddsUp
<1>9. Sum(used, Payments(c)) = WorthIn(c, AllOutputs(c), Spent(c))
  BY <1>4, UsedAddsUp
<1>10. /\ Sum(bal, Owner) = WorthIn(c, AllOutputs(c), BuildUtxoSet(c))
       /\ \A owner \in Owner : bal[owner] \in Nat
  BY <1>5, BalancesAddUp
<1>11. \A p \in Payments(c) : fee[p] \in Int /\ made[p] \in Nat
  BY <1>1, <1>2, <1>4
<1>12. /\ Sum(paid, Owner) = Sum(fee, Payments(c))
       /\ \A owner \in Owner : paid[owner] \in Int
  <2>1. \A p \in Payments(c) : fee[p] \in Int /\ fee[p] = FeeIn(c, TxAt(c, p))
    BY <1>4, <1>11
  <2> QED
    BY <1>5, <2>1, FeesAddUp
<1>13. Sum(both, Owner) = Sum(bal, Owner) + Sum(paid, Owner)
  BY <1>5, <1>10, <1>12, OwnersFinite, SumOfPairs
<1>14. Sum(fee, Payments(c)) = Sum(used, Payments(c)) - Sum(made, Payments(c))
  BY <1>1, <1>4, <1>11, SumOfDifferences
<1> HIDE DEF P
<1>15. IsFiniteSet(mints) /\ \A p \in P : made[p] \in Int
  BY <1>1, <1>2, FS_Subset
<1>16. Sum(made, P) = Sum(made, mints) + Sum(made, Payments(c))
  <2>1. Sum(made, mints \cup Payments(c)) = Sum(made, mints) + Sum(made, Payments(c))
    BY <1>1, <1>15, SumSplits
  <2> QED
    BY <1>1, <2>1
<1>17. Sum(minted, mints) = Sum(made, mints)
  <2>1. \A p \in mints : minted[p] \in Int /\ minted[p] = made[p]
    BY <1>1, <1>3, <1>15
  <2> QED
    BY <1>15, <2>1, SumsAgree
<1>18. /\ WorthIn(c, AllOutputs(c), AllOutputs(c))
             = WorthIn(c, AllOutputs(c), BuildUtxoSet(c)) + WorthIn(c, AllOutputs(c), Spent(c))
       /\ WorthIn(c, AllOutputs(c), BuildUtxoSet(c)) \in Nat
       /\ WorthIn(c, AllOutputs(c), Spent(c)) \in Nat
  BY LeftAddsUp
<1>19. Sum(made, mints) \in Int /\ Sum(made, Payments(c)) \in Int
  BY <1>1, <1>11, <1>15, SumType
<1>20. Sum(minted, mints) = Sum(both, Owner)
  <2>1. Sum(made, P) = Sum(bal, Owner) + Sum(used, Payments(c))
    BY ONLY <1>8, <1>9, <1>10, <1>18
  <2>2. Sum(bal, Owner) \in Nat /\ Sum(used, Payments(c)) \in Nat
    BY ONLY <1>9, <1>10, <1>18
  <2>3. Sum(both, Owner) = Sum(bal, Owner) + Sum(used, Payments(c)) - Sum(made, Payments(c))
    BY ONLY <1>12, <1>13, <1>14, <1>19, <2>2
  <2> QED
    BY ONLY <1>16, <1>17, <1>19, <2>1, <2>2, <2>3
<1> QED
  BY <1>6, <1>7, <1>20 DEF both

\* No value appears or disappears unreported: the supply of get_info is what all
\* owners have and the fees their histories say they paid, on the chain of every
\* node.
THEOREM SuppliesExplained == Spec => []SupplyExplained
PROOF
<1>1. ASSUME Inv, BranchInv, SpendInv PROVE SupplyExplained
  BY <1>1, HeldSound, SupplyAddsUp DEF SupplyExplained
<1> QED
  BY <1>1, SpecSpend, PTL
=============================================================================
