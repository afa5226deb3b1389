-------------------------------- MODULE Node --------------------------------
(***************************************************************************)
(* Austro nodes: each one keeps a chain, a mempool and a block store, mines *)
(* and sends on request, and gossips with the others.                      *)
(* models/blockchain.rs, models/storage.rs, network/node.rs and the        *)
(* sending handler of api/routes.rs.                                       *)
(*                                                                         *)
(* A node runs one event loop (run_node), which handles one event at a     *)
(* time, and API handlers on other threads. Both lock the Blockchain for   *)
(* each step; pc[n] says where the loop is between two steps:              *)
(*   idle       waiting in select!                                         *)
(*   collected  "mine": the pending transactions are read, the fees not yet *)
(*   mining     "mine": the block is being hashed by spawn_blocking        *)
(*   drain      a batch synchronised the node, the tx_buffer is next       *)
(*   adding     a loop over transactions (todo) holds the lock             *)
(***************************************************************************)
EXTENDS MempoolOps, SyncOps, Difficulty

CONSTANTS
    Node,
    WalletOf,           \* the wallet each node has selected
    GenesisDifficulty, InitialReward, HalvingInterval, BlockLimit,
    Amounts, Fees,      \* what users ask to send, and the fees they offer
    Times,              \* what clocks read
    MaxStamp,           \* bound: the number of blocks mined, plus one
    MaxTxs,             \* bound: the transactions pending or ever broadcast
    MaxQueue,           \* bound: the commands waiting for the event loop
    MaxBuffer           \* bound: the transactions in a tx_buffer

ASSUME NodeAssumption ==
    /\ WalletOf \in [Node -> Wallet]
    /\ GenesisDifficulty \in Nat
    /\ InitialReward \in Value
    /\ HalvingInterval \in Nat \ {0}
    /\ BlockLimit \in Nat
    /\ Amounts \subseteq Nat
    /\ Fees \subseteq Nat
    /\ Times \subseteq Nat
    /\ MaxStamp \in Nat

VARIABLES
    chain,          \* chain[n]: the blocks, genesis first
    difficulty,     \* difficulty[n]: of the tip
    mempool,        \* mempool[n]: entries and reserved inputs
    mining_reward,  \* mining_reward[n]: what the next coinbase pays, plus fees
    blocks_tree,    \* blocks_tree[n]: the stored blocks; place i holds index i - 1
    mempool_tree,   \* mempool_tree[n]: the set of stored entries, keyed by id
    pc,             \* pc[n]: where the event loop is
    job,            \* job[n]: the block being made
    todo,           \* todo[n]: what the loop that holds the lock has left to add
    synced,         \* synced[n]: no periodic GetBlocks, invalid NewTx dropped
    tx_buffer,      \* tx_buffer[n]: invalid NewTx kept until a batch arrives
    cmds,           \* cmds[n]: ApiCommand::Send waiting for the event loop
    published,      \* every chain a node has held: what a BlocksBatch is a suffix
                    \* of, and what a NewBlock is the last block of
    new_txs,        \* every NewTx ever published
    mempool_txs,    \* every MempoolTxs ever published
    stamp           \* the last token given to a block and its coinbase

blockchain == <<chain, difficulty, mempool, mining_reward>>
store      == <<blocks_tree, mempool_tree>>
loop       == <<pc, job, todo, synced, tx_buffer>>
gossip     == <<published, new_txs, mempool_txs>>
vars       == <<blockchain, store, loop, cmds, gossip, stamp>>

Genesis ==
    [index |-> 0, hash |-> 1, previous_hash |-> 0,
     transactions |-> <<Coinbase(0, NoWallet, InitialReward)>>,
     reward |-> InitialReward, difficulty |-> GenesisDifficulty, timestamp |-> 0]

NoJob == [Genesis EXCEPT !.hash = 0]

Payload == [to : Wallet, amount : Nat, fee : Nat]

TypeOK ==
    /\ chain \in [Node -> Seq(Block)]
    /\ difficulty \in [Node -> Nat]
    /\ mempool \in [Node -> Pool]
    /\ mining_reward \in [Node -> Value]
    /\ blocks_tree \in [Node -> Seq(Block)]
    /\ mempool_tree \in [Node -> SUBSET Entry]
    /\ pc \in [Node -> {"idle", "collected", "mining", "drain", "adding"}]
    /\ job \in [Node -> Block]
    /\ todo \in [Node -> Seq(Tx)]
    /\ synced \in [Node -> BOOLEAN]
    /\ tx_buffer \in [Node -> Seq(Tx)]
    /\ cmds \in [Node -> Seq(Payload)]
    /\ published \subseteq Seq(Block)
    /\ new_txs \subseteq Tx
    /\ mempool_txs \subseteq Seq(Tx)
    /\ stamp \in Nat

Init ==
    /\ chain = [n \in Node |-> <<Genesis>>]
    /\ difficulty = [n \in Node |-> GenesisDifficulty]
    /\ mempool = [n \in Node |-> NewPool]
    /\ mining_reward = [n \in Node |-> InitialReward]
    /\ blocks_tree = [n \in Node |-> <<Genesis>>]
    /\ mempool_tree = [n \in Node |-> {}]
    /\ pc = [n \in Node |-> "idle"]
    /\ job = [n \in Node |-> NoJob]
    /\ todo = [n \in Node |-> <<>>]
    /\ synced = [n \in Node |-> FALSE]
    /\ tx_buffer = [n \in Node |-> <<>>]
    /\ cmds = [n \in Node |-> <<>>]
    /\ published = {<<Genesis>>}
    /\ new_txs = {}
    /\ mempool_txs = {}
    /\ stamp = 1

Idle(n) == pc[n] = "idle"

-----------------------------------------------------------------------------
\* The chain of a node (blockchain.rs).

Tip(n) == Last(chain[n])

\* compute_current_difficulty; timestamps are subtracted with saturation.
ExpectedDifficulty(n) ==
    LET height == Len(chain[n])
        first  == chain[n][height - RetargetInterval + 1]
        span   == Tip(n).timestamp - first.timestamp
    IN  IF IsRetargetBlock(height)
          THEN CalculateNextDifficulty(difficulty[n], IF span < 1 THEN 1 ELSE span)
          ELSE difficulty[n]

\* Mutant of Appendable: the transactions are not validated.
AppendableUnchecked(n, block) ==
    /\ block.index = Len(chain[n])
    /\ block.previous_hash = Tip(n).hash
    /\ block.difficulty = ExpectedDifficulty(n)

\* The checks of try_append_block. Hash and proof of work are not modelled: the
\* blocks here come from mine(), which makes both hold.
Appendable(n, block) ==
    /\ block.index = Len(chain[n])
    /\ block.previous_hash = Tip(n).hash
    /\ block.difficulty = ExpectedDifficulty(n)
    /\ TxsApply(block.transactions, BuildUtxoSet(chain[n]))

\* Mutant of AppendBlock: the block is not saved.
AppendUnsaved(n, block) ==
    /\ Appendable(n, block)
    /\ difficulty' = [difficulty EXCEPT ![n] = block.difficulty]
    /\ chain' = [chain EXCEPT ![n] = Append(@, block)]
    /\ published' = published \cup {Append(chain[n], block)}
    /\ UNCHANGED blocks_tree

AppendBlock(n, block) ==
    /\ Appendable(n, block)
    /\ difficulty' = [difficulty EXCEPT ![n] = block.difficulty]
    /\ blocks_tree' = [blocks_tree EXCEPT ![n] = Append(@, block)]
    /\ chain' = [chain EXCEPT ![n] = Append(@, block)]
    /\ published' = published \cup {Append(chain[n], block)}

\* Mutant of Replaceable: a chain of the same length is adopted.
ReplaceableByEqual(n, candidate) ==
    /\ candidate # chain[n]
    /\ Len(candidate) >= Len(chain[n])
    /\ candidate[1].hash = chain[n][1].hash
    /\ Linked(candidate)
    /\ ChainReplays(candidate)

\* Mutant of Replaceable: the links are not checked.
ReplaceableUnlinked(n, candidate) ==
    /\ Len(candidate) > Len(chain[n])
    /\ candidate[1].hash = chain[n][1].hash
    /\ ChainReplays(candidate)

\* The checks of try_replace_chain.
Replaceable(n, candidate) ==
    /\ Len(candidate) > Len(chain[n])
    /\ candidate[1].hash = chain[n][1].hash
    /\ Linked(candidate)
    /\ ChainReplays(candidate)

\* Mutant of SaveSuffix: the loop stops before the last block.
SaveAllButLast(n, candidate, k) ==
    SubSeq(blocks_tree[n], 1, Len(chain[n]))
      \o SubSeq(candidate, Len(chain[n]) + 1, k - 1)

\* save_block for candidate[old_height..], up to and including place k.
SaveSuffix(n, candidate, k) ==
    SubSeq(blocks_tree[n], 1, Len(chain[n]))
      \o SubSeq(candidate, Len(chain[n]) + 1, k)

ReplaceChain(n, candidate) ==
    /\ Replaceable(n, candidate)
    /\ blocks_tree' = [blocks_tree EXCEPT ![n] = SaveSuffix(n, candidate, Len(candidate))]
    /\ chain' = [chain EXCEPT ![n] = candidate]
    /\ difficulty' = [difficulty EXCEPT ![n] = Last(candidate).difficulty]
    /\ published' = published \cup {candidate}

-----------------------------------------------------------------------------
\* Sending (create_transaction, the "send" command, POST /send).

\* get_wallet_utxos of the selected wallet.
Spendable(n) ==
    {op \in BuildUtxoSet(chain[n]) : /\ OutputOf(op).owner = WalletOf[n]
                                     /\ op \notin mempool[n].reserved_inputs}

\* Mutant of Creatable: the fee is left in the change.
CreatableFeeInChange(n, to, amount, fee) ==
    {tx \in {Payment(WalletOf[n], vin, to, amount, Total(Range(vin)) - amount) :
                vin \in Selections(Spendable(n), amount + fee)} :
        /\ ValidateAgainst(tx, BuildUtxoSet(chain[n]))
        /\ CanAdd(mempool[n], tx)}

\* Mutant of Creatable: outputs of pending transactions may be spent as well.
CreatableOnPending(n, to, amount, fee) ==
    LET pending == UNION {Outputs(tx) : tx \in PoolTxs(mempool[n])}
        coins   == Spendable(n) \cup
                     {op \in pending \ mempool[n].reserved_inputs :
                         OutputOf(op).owner = WalletOf[n]}
    IN  {tx \in {Payment(WalletOf[n], vin, to, amount, Total(Range(vin)) - amount - fee) :
                    vin \in Selections(coins, amount + fee)} :
            /\ ValidateAgainst(tx, BuildUtxoSet(chain[n]) \cup pending)
            /\ CanAdd(mempool[n], tx)}

\* The transactions create_transaction may build and accept.
Creatable(n, to, amount, fee) ==
    {tx \in {Payment(WalletOf[n], vin, to, amount, Total(Range(vin)) - amount - fee) :
                vin \in Selections(Spendable(n), amount + fee)} :
        /\ ValidateAgainst(tx, BuildUtxoSet(chain[n]))
        /\ CanAdd(mempool[n], tx)}

AddToPool(n, tx, fee) ==
    mempool' = [mempool EXCEPT ![n] = Add(@, tx, fee)]

\* The bound on the transactions users make.
Room(tx) ==
    Cardinality((UNION {PoolTxs(mempool[n]) : n \in Node}) \cup new_txs \cup {tx}) <= MaxTxs

\* "send": create, save the mempool, broadcast what was created.
Send(n, to, amount, fee) ==
    \E tx \in Creatable(n, to, amount, fee) \cap Tx :
        /\ Room(tx)
        /\ AddToPool(n, tx, fee)
        /\ mempool_tree' = [mempool_tree EXCEPT ![n] = Range(mempool'[n].entries)]
        /\ new_txs' = new_txs \cup {tx}

ConsoleSend(n) ==
    /\ Idle(n)
    /\ \E to \in Wallet, amount \in Amounts, fee \in Fees : Send(n, to, amount, fee)
    /\ UNCHANGED <<chain, difficulty, mining_reward, blocks_tree, loop, cmds,
                   published, mempool_txs, stamp>>

\* POST /send runs beside the event loop, whenever it can take the lock. It
\* creates the transaction, and enqueues a command to send the same amount.
PostSend(n) ==
    /\ pc[n] # "adding"
    /\ Len(cmds[n]) < MaxQueue
    /\ \E to \in Wallet, amount \in Amounts, fee \in Fees :
          /\ \E tx \in Creatable(n, to, amount, fee) \cap Tx :
                Room(tx) /\ AddToPool(n, tx, fee)
          /\ cmds' = [cmds EXCEPT ![n] =
                        Append(@, [to |-> to, amount |-> amount, fee |-> fee])]
    /\ UNCHANGED <<chain, difficulty, mining_reward, store, loop, gossip, stamp>>

\* ApiCommand::Send runs "send", which only warns when it cannot create.
RunSend(n) ==
    /\ Idle(n)
    /\ cmds[n] # <<>>
    /\ LET c == Head(cmds[n])
       IN  \/ Send(n, c.to, c.amount, c.fee)
           \/ /\ Creatable(n, c.to, c.amount, c.fee) = {}
              /\ UNCHANGED <<mempool, mempool_tree, new_txs>>
    /\ cmds' = [cmds EXCEPT ![n] = Tail(@)]
    /\ UNCHANGED <<chain, difficulty, mining_reward, blocks_tree, loop,
                   published, mempool_txs, stamp>>

-----------------------------------------------------------------------------
\* Mining: the "mine" command and ApiCommand::MineBlock.

\* Difficulty, tip, height, reward and pending transactions are read under one
\* lock each; only the mempool can change in between, so they are one step.
MineCollect(n) ==
    /\ Idle(n)
    /\ stamp < MaxStamp
    /\ stamp' = stamp + 1
    /\ job' = [job EXCEPT ![n] =
                 [index |-> Tip(n).index + 1, hash |-> stamp + 1,
                  previous_hash |-> Tip(n).hash,
                  transactions |-> CollectForBlock(mempool[n], BlockLimit),
                  reward |-> mining_reward[n], difficulty |-> difficulty[n],
                  timestamp |-> 0]]
    /\ pc' = [pc EXCEPT ![n] = "collected"]
    /\ UNCHANGED <<blockchain, store, todo, synced, tx_buffer, cmds, gossip>>

\* The fees are read under a lock of their own, then the block is made.
MineFees(n) ==
    /\ pc[n] = "collected"
    /\ LET value == job[n].reward + TotalFees(mempool[n], BlockLimit)
       IN  /\ value \in Value
           /\ \E now \in Times :
                 job' = [job EXCEPT ![n].reward = value, ![n].timestamp = now,
                           ![n].transactions =
                              <<Coinbase(job[n].hash, WalletOf[n], value)>> \o @]
    /\ pc' = [pc EXCEPT ![n] = "mining"]
    /\ UNCHANGED <<blockchain, store, todo, synced, tx_buffer, cmds, gossip, stamp>>

\* Mutant of RewardAfter: every block from the first boundary on halves.
RewardAfterPast(n) ==
    IF Len(chain[n]) + 1 >= HalvingInterval /\ mining_reward[n] > 1
    THEN mining_reward[n] \div 2
    ELSE mining_reward[n]

\* The halving test reads the length of the chain after the push.
RewardAfter(n) ==
    IF (Len(chain[n]) + 1) % HalvingInterval = 0 /\ mining_reward[n] > 1
    THEN mining_reward[n] \div 2
    ELSE mining_reward[n]

\* Mutant of MineAppend: nothing is purged.
MineAppendNoPurge(n) ==
    /\ pc[n] = "mining"
    /\ \/ /\ AppendBlock(n, job[n])
          /\ mining_reward' = [mining_reward EXCEPT ![n] = RewardAfter(n)]
          /\ UNCHANGED mempool
       \/ /\ ~Appendable(n, job[n])
          /\ UNCHANGED <<blockchain, blocks_tree, published>>
    /\ pc' = [pc EXCEPT ![n] = "idle"]
    /\ job' = [job EXCEPT ![n] = NoJob]
    /\ UNCHANGED <<mempool_tree, todo, synced, tx_buffer, cmds, new_txs, mempool_txs,
                   stamp>>

\* spawn_blocking returns the mined block: it is appended and published, or
\* rejected as stale.
MineAppend(n) ==
    /\ pc[n] = "mining"
    /\ \/ /\ AppendBlock(n, job[n])
          /\ mempool' = [mempool EXCEPT ![n] =
                           PurgeConfirmed(@, Range(Tail(job[n].transactions)))]
          /\ mining_reward' = [mining_reward EXCEPT ![n] = RewardAfter(n)]
       \/ /\ ~Appendable(n, job[n])
          /\ UNCHANGED <<blockchain, blocks_tree, published>>
    /\ pc' = [pc EXCEPT ![n] = "idle"]
    /\ job' = [job EXCEPT ![n] = NoJob]
    /\ UNCHANGED <<mempool_tree, todo, synced, tx_buffer, cmds, new_txs, mempool_txs,
                   stamp>>

-----------------------------------------------------------------------------
\* Network messages (handle_network_message). Gossip may lose, delay, reorder
\* and repeat: any message ever published may arrive at any idle node, or never.

\* Mutant of NewBlock: the loop handles blocks while one is being mined.
NewBlockAnytime(n) ==
    /\ \E c \in published :
          /\ AppendBlock(n, Last(c))
          /\ mempool' = [mempool EXCEPT ![n] =
                           PurgeConfirmed(@, Range(Last(c).transactions))]
    /\ UNCHANGED <<mining_reward, mempool_tree, loop, cmds, new_txs, mempool_txs,
                   stamp>>

\* A block that cannot be appended only makes the node ask for a batch.
NewBlock(n) ==
    /\ Idle(n)
    /\ \E c \in published :
          /\ AppendBlock(n, Last(c))
          /\ mempool' = [mempool EXCEPT ![n] =
                           PurgeConfirmed(@, Range(Last(c).transactions))]
    /\ UNCHANGED <<mining_reward, mempool_tree, loop, cmds, new_txs, mempool_txs,
                   stamp>>

\* A batch ends the wait for synchronisation if it is adopted, or brings nothing
\* longer; a longer chain that fails validation is dropped.
BlocksBatch(n) ==
    /\ Idle(n)
    /\ \E c \in published : \E s \in 1..Len(c) :
          LET candidate == Merge(chain[n], c, s)
          IN  \/ ReplaceChain(n, candidate)
              \/ /\ Len(candidate) <= Len(chain[n])
                 /\ UNCHANGED <<chain, difficulty, blocks_tree, published>>
    /\ synced' = [synced EXCEPT ![n] = TRUE]
    /\ pc' = [pc EXCEPT ![n] = IF tx_buffer[n] = <<>> THEN "idle" ELSE "drain"]
    /\ UNCHANGED <<mempool, mining_reward, mempool_tree, job, todo, tx_buffer, cmds,
                   new_txs, mempool_txs, stamp>>

DrainBuffer(n) ==
    /\ pc[n] = "drain"
    /\ pc' = [pc EXCEPT ![n] = "adding"]
    /\ todo' = [todo EXCEPT ![n] = tx_buffer[n]]
    /\ tx_buffer' = [tx_buffer EXCEPT ![n] = <<>>]
    /\ UNCHANGED <<blockchain, store, job, synced, cmds, gossip, stamp>>

\* An accepted transaction is published again (it already is in new_txs), an
\* invalid one is buffered before synchronisation and dropped after it.
NewTx(n) ==
    /\ Idle(n)
    /\ \E tx \in new_txs :
          /\ ~PoolContains(mempool[n], tx)
          /\ \/ /\ ValidateAgainst(tx, BuildUtxoSet(chain[n]))
                /\ CanAdd(mempool[n], tx)
                /\ AddToPool(n, tx, Fee(tx))
                /\ UNCHANGED tx_buffer
             \/ /\ ~ValidateAgainst(tx, BuildUtxoSet(chain[n]))
                /\ ~synced[n]
                /\ Len(tx_buffer[n]) < MaxBuffer
                /\ tx_buffer' = [tx_buffer EXCEPT ![n] = Append(@, tx)]
                /\ UNCHANGED mempool
    /\ UNCHANGED <<chain, difficulty, mining_reward, store, pc, job, todo, synced,
                   cmds, gossip, stamp>>

MempoolTxs(n) ==
    /\ Idle(n)
    /\ \E txs \in mempool_txs : todo' = [todo EXCEPT ![n] = txs]
    /\ pc' = [pc EXCEPT ![n] = "adding"]
    /\ UNCHANGED <<blockchain, store, job, synced, tx_buffer, cmds, gossip, stamp>>

\* One round of the loop in MempoolTxs or over the tx_buffer.
AddNext(n) ==
    /\ pc[n] = "adding"
    /\ todo[n] # <<>>
    /\ LET tx == Head(todo[n])
           ok == CanAdd(mempool[n], tx) /\ ValidateAgainst(tx, BuildUtxoSet(chain[n]))
       IN  \/ ok /\ AddToPool(n, tx, Fee(tx))
           \/ ~ok /\ UNCHANGED mempool
    /\ todo' = [todo EXCEPT ![n] = Tail(@)]
    /\ pc' = [pc EXCEPT ![n] = IF Len(todo[n]) = 1 THEN "idle" ELSE "adding"]
    /\ UNCHANGED <<chain, difficulty, mining_reward, store, job, synced, tx_buffer,
                   cmds, gossip, stamp>>

\* A peer subscribes: ask for its blocks and share the mempool.
Subscribed(n) ==
    /\ Idle(n)
    /\ Node # {n}
    /\ synced' = [synced EXCEPT ![n] = FALSE]
    /\ mempool_txs' = mempool_txs \cup ({PendingTxs(mempool[n])} \ {<<>>})
    /\ UNCHANGED <<blockchain, store, pc, job, todo, tx_buffer, cmds, published,
                   new_txs, stamp>>

\* The last peer leaves, or one connects before any block has arrived: the
\* periodic GetBlocks starts again.
Unsynchronised(n) ==
    /\ Idle(n)
    /\ Node # {n}
    /\ synced[n]
    /\ synced' = [synced EXCEPT ![n] = FALSE]
    /\ UNCHANGED <<blockchain, store, pc, job, todo, tx_buffer, cmds, gossip, stamp>>

NodeStep(n) ==
    \/ ConsoleSend(n) \/ PostSend(n) \/ RunSend(n)
    \/ MineCollect(n) \/ MineFees(n) \/ MineAppend(n)
    \/ NewBlock(n) \/ BlocksBatch(n) \/ DrainBuffer(n)
    \/ NewTx(n) \/ MempoolTxs(n) \/ AddNext(n) \/ Subscribed(n)
    \/ Unsynchronised(n)

Next == \E n \in Node : NodeStep(n)

\* The nodes run without stopping.
Spec == Init /\ [][Next]_vars

-----------------------------------------------------------------------------
\* Safety of the chains.

\* What every node that syncs from genesis demands of a chain.
WellFormed(c) ==
    /\ c # <<>>
    /\ c[1].hash = Genesis.hash
    /\ \A i \in DOMAIN c : c[i].index = i - 1
    /\ Linked(c)
    /\ ChainReplays(c)

\* Whatever is appended block by block, mined or received, would pass the replay
\* of try_replace_chain: a node never holds a chain its peers must refuse.
ChainsReplay ==
    /\ \A n \in Node : chain[n] \in published
    /\ \A c \in published : WellFormed(c)

\* No output is spent at two places of a chain (try_append_block,
\* try_replace_chain).
NoDoubleSpend ==
    \A c \in published : \A p, q \in Positions(c) :
        /\ p # q
        /\ ~IsCoinbase(TxAt(c, p))
        /\ ~IsCoinbase(TxAt(c, q))
        => Inputs(TxAt(c, p)) \cap Inputs(TxAt(c, q)) = {}

\* The two ways the code computes the unspent outputs agree on every chain: the
\* two passes of build_utxo_set and the replay of try_replace_chain.
UtxoSetsAgree ==
    \A c \in published : BuildUtxoSet(c) = ReplayUtxos(c, <<Len(c) + 1, 1>>)

\* A tip hash identifies the whole history: no merge of a batch into the own
\* chain produces a splice of two forks (BlocksBatch, try_replace_chain).
SameTipSameHistory ==
    \A c, d \in published : Last(c).hash = Last(d).hash => c = d

\* A chain changes only by growing, and the new one keeps the old genesis: a
\* shorter or equally long fork is never adopted (try_replace_chain).
OnlyLongerChains ==
    [][\A n \in Node :
          chain'[n] # chain[n] => /\ Len(chain'[n]) > Len(chain[n])
                                  /\ chain'[n][1] = chain[n][1]]_vars

\* The chains implement the abstract specification LongestChain: whatever arrives
\* in whatever order, a node extends its chain by a block of its own or takes over
\* a longer chain that some node has held.
Abstract == INSTANCE LongestChain WITH known <- published
ImplementsLongestChain == Abstract!Spec

-----------------------------------------------------------------------------
\* Safety of the mempools.

\* No double spend waits in a mempool, no output stays reserved without an
\* entry, and the entries miners take first pay the highest fees (mempool.rs).
PoolsConsistent ==
    \A n \in Node : Consistent(mempool[n]) /\ Sorted(mempool[n])

\* The fee of an entry is what its transaction leaves to the miner, whether the
\* node created it (actual_fee), received it (calculate_fee) or reloaded it.
FeesExact ==
    \A n \in Node : \A e \in Range(mempool[n].entries) :
        e.fee = Total(Inputs(e.tx)) - OutputTotal(e.tx)

\* A pending transaction leaves the mempool of a running node only because the
\* chain has confirmed it (purge_confirmed, try_replace_chain).
OnlyConfirmedLeave ==
    [][\A n \in Node : \A tx \in PoolTxs(mempool[n]) \ PoolTxs(mempool'[n]) :
          \E p \in Positions(chain'[n]) : TxAt(chain'[n], p) = tx]_vars

-----------------------------------------------------------------------------
\* Safety of mining.

\* The event loop waits for its block, so the tip cannot move under it: a mined
\* block always extends the tip at its difficulty (node.rs "mine", MineBlock).
JobFresh ==
    \A n \in Node : pc[n] \in {"collected", "mining"} =>
        /\ job[n].index = Len(chain[n])
        /\ job[n].previous_hash = Tip(n).hash
        /\ job[n].difficulty = difficulty[n]

\* The fees of the transactions behind the coinbase of a block.
FeesOf(txs) == SumFunction([i \in 2..Len(txs) |-> Fee(txs[i])])

\* The coinbase pays at least the reward and the fees of the block, although the
\* fees are summed after the transactions were taken from the mempool.
MinerNotUnderpaid ==
    \A n \in Node : pc[n] = "mining" =>
        job[n].reward >= mining_reward[n] + FeesOf(job[n].transactions)

-----------------------------------------------------------------------------
\* Safety of the store.

\* A restart finds the tip the node had: every append and every reorganisation
\* has stored it (save_block).
TipStored ==
    \A n \in Node : /\ Len(blocks_tree[n]) = Len(chain[n])
                    /\ Last(blocks_tree[n]) = Tip(n)
=============================================================================
