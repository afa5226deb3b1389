# Austro in TLA+

This directory holds a formal model of Austro, a proof-of-work blockchain node
written in Rust (`src/`), the model-checking runs over it, and machine-checked
proofs. It is meant to be read beside the code: every definition that models
code is listed in `PROJECT.json` under `map` with the lines it stands for.

    tlc -workers 2 -config MCReorg.cfg MCNode      # one of the runs below
    tlapm NodeProofs.tla                           # the proofs of one module

## The system

| Part | Source | State | Operations |
|---|---|---|---|
| Ledger | `models/transaction.rs`, `block.rs`, `genesis.rs`, half of `blockchain.rs` | none (pure) | coinbases, signed payments, `validate_against`, `calculate_fee`, `build_utxo_set`, coin selection |
| Mempool | `models/mempool.rs` | `entries` by fee, `reserved_inputs` | `add`, `purge_confirmed`, `collect_for_block`, `pending_txs` |
| Blockchain | `models/blockchain.rs` | `chain`, `difficulty`, `mempool`, `mining_reward` | `try_append_block`, `try_replace_chain`, `create_transaction`, `new` |
| Difficulty | `models/difficulty.rs` | none | `calculate_next_difficulty`, `is_retarget_block` |
| Store | `models/storage.rs` | sled trees `blocks`, `mempool`, `meta` | `save_block`, `load_chain`, `save_mempool`, `load_mempool` |
| Event loop | `network/node.rs` `run_node` | `synced`, `has_peers`, `tx_buffer` | console commands, API commands, gossip messages, the 3 s tick |
| HTTP API | `api/routes.rs` | none of its own | queries, wallet calls, `POST /send`, `POST /mine/*` |
| Wallets | `models/wallet.rs`, `wallet_store.rs` | wallets by name, the selected name, files | create, recover, import, export, encrypt, select |
| Queries | `models/history.rs`, handlers in `api/routes.rs` | none | `build_history`, balance, supply, `is_valid` |
| Transport | `network/behaviour.rs`, libp2p | peers | gossipsub, mDNS |

The event loop handles one event to its end, and while it waits for the hashing
thread (`spawn_blocking(...).await`) it handles none. The HTTP handlers run on other
threads: they share the blockchain behind one mutex, and reach the event loop
only through a queue of `ApiCommand`. So the interleavings that exist are those
of several nodes over gossip, and inside a node those of `POST /send` with the
steps of the loop between two locks of the mutex. Peers exchange `NewBlock`, `NewTx`,
`GetBlocks`, `BlocksBatch`, `GetMempool` (never sent by any code) and `MempoolTxs`.

What is hard here: the mempool's two fields must stay in step; what a node
accepts block by block must be what its peers accept as a whole chain; merging
batches from different forks; the mempool and the store after a reorganisation;
the reads a miner makes under several locks; restarts from two trees written
at different times; nodes that must catch up although nobody acknowledges anything and
connections come and go, and what is too long is not sent; wallet files that are the only place a key survives in.
`PROJECT.json` lists these under `hazards`, each at its line with the properties that cover it.

What makes each part correct:

| Part | Correct if |
|---|---|
| Mempool | no double spend among the entries, reservations are exactly what they spend, fees in order |
| Blockchain | every chain held passes the replay from genesis, spends nothing twice, only grows |
| Mining | the block extends the tip it was mined on, is accepted, pays reward and fees |
| Several nodes | a tip determines its history; no mixture of forks is ever adopted |
| Synchronisation | connected nodes end up at most one block apart; nobody waits forever, except among equals, as long as messages are short enough to be sent |
| Store | a restart finds the tip and loses no height, wherever the crash struck |
| Queries | a history adds up to the balance, the balances and fees to the supply |
| Wallets | every key held survives on disk, every block mined pays a key still held |

## The modules

| Module | Contents |
|---|---|
| `Ledger` | Transactions, blocks, unspent outputs and validation, as operators |
| `Difficulty` | Retargeting, as operators |
| `MempoolOps` | The mempool's operations as functions on its two fields, and what it promises (`Consistent`, `Sorted`) |
| `Mempool` | The mempool under any sequence of calls |
| `SyncOps` | What a `GetBlocks` is answered and what a batch makes of a chain (`ServeFrom`, `Merge`), as operators |
| `Node` | Nodes: chain, mempool, store, event loop, API sends, mining, gossip in any order |
| `LongestChain` | The abstract specification: a node extends its chain by a new block, or takes over a longer chain some node has held |
| `NodeSync` | How nodes catch up: connections, subscriptions, requests and batches in queues, the timer, under fairness |
| `NodeCrash` | `Node` with crashes and restarts |
| `Queries` | Histories, balances, supply and validity, as operators, and how they must agree |
| `NodeExpectations` | What tests, messages and README say of a node |
| `Wallets` | The wallet manager, its files, the miner's copy, starts, crashes, I/O errors |
| `MCMempool`, `MCNode`, `MCSync`, `MCWallets` | Values of the constants for TLC |
| `OpsProofs`, `MempoolProofs`, `NodeProofs`, `NodeChainProofs`, `CrashProofs`, `MoneyProofs`, `NodeSyncProofs`, `WalletsProofs` | Proofs |

`Node` extends `MempoolOps` (which extends `Ledger`), `Difficulty` and `SyncOps`; `NodeSync`
extends `SyncOps` only. Both are shown to implement `LongestChain`, through
`INSTANCE LongestChain WITH known <- published`: `known` is the set of chains nodes have held,
which the code has no variable for, and which in both modules is a history of what was sent.

### How the model corresponds to the code

* **Hashes are ideal.** A transaction is its own id; a block's hash is a token, fresh
  for each mined block. `signer` stands for public key and signatures. The hash and
  proof-of-work checks always hold for blocks that `mine()` returned, and the nodes
  are honest, so they are not modelled.
* **An unspent-output map is the set of its keys.** An outpoint contains the
  transaction that created it, so its value and owner are found there. Removal and
  insertion in sequence are expressed by "created before, and not removed since"
  (`UtxosAt`, `ReplayUtxos`).
* **Outputs are numbered from 1**, and 0 is the index of a coinbase's input
  (`u32::MAX` in the code).
* **`mempool`** sorts with `Arrange`, which places each entry by counting those that
  precede it: a stable sort, and also the `retain` of `purge_confirmed`.
* **The event loop** is `pc[n]`. `idle` is the `select!`. Mining takes three steps:
  `MineCollect` (the reads that only the mempool could disturb and that end with
  `collect_for_block`), `MineFees` (the fees under a lock of their own) and
  `MineAppend` (after the await). `ApiCommand::Mine` and `MineBlock` run the same
  steps from the same loop, so they are these actions too. `drain` is the gap between
  the handler of a batch and the drain of the `tx_buffer`; `adding` is a loop over
  transactions that holds the mutex, one round per step.
* **`POST /send`** (`PostSend`) may happen at any moment at which the mutex is free,
  and queues the command that `RunSend` later runs.
* **Gossip** only grows: `published` holds every chain a node ever had, `new_txs` and
  `mempool_txs` every such message. A `NewBlock` is the last block of a published chain,
  a `BlocksBatch` any suffix of one (`GetBlocks` answers with a suffix of the answering
  node's chain). Any of them may arrive at any time, again, late, out of order or never.
  This covers every exchange of `GetBlocks` and its replies as far as safety goes;
  whether anything arrives is the business of `NodeSync`.
* **Steps that change nothing** (an invalid block, a known transaction, a batch that
  fails validation) are stutters and not written out.
* **Crashes** keep the two trees. `Crash` happens between saves, `CrashInReplace`
  after any of the saves of a reorganisation, `CrashInSave` anywhere inside
  `save_mempool`, which clears the tree first.

`NodeSync`:

* **A block is its header.** That blocks of honest nodes validate everywhere is
  `Node!ChainsReplay`. A transaction is the hash of the block whose coinbase it spends, so it
  is valid exactly where that block is in the chain. Mining is one step, which
  `Node!JobFresh` justifies: no event touches the node while it mines.
* **Events wait in a queue per peer** (`events[n][m]`: what `n` has yet to handle from or
  about `m`). Connecting queues `Established` and then one `Subscribed` per topic on both
  sides, in the order gossipsub reports them; a message goes to the peers whose subscription
  the sender has seen. Losing a connection empties both queues and leaves `Closed`.
* **A message has a limit.** Gossipsub refuses what is longer than `max_transmit_size`, which
  `network/behaviour.rs` leaves at its default of 64 KiB, and the node drops the error
  (`node.rs:108`, `280`, `351`, `402`). `Fits` says which blocks go into one message: at most
  `MaxBatch` of them, and none that is in `Large`, the blocks that are too long on their own
  (500 transactions can be). In the code the length is that of the JSON text; a block with a
  coinbase only takes some 650 bytes, so a batch ends at about 100 blocks. A request always
  fits; a shared mempool is sent or not (it may also be refused as a duplicate, since
  `MempoolTxs` has no nonce). A publish without a subscribed peer reaches nobody, here as there.
* **Two nodes.** The runs have two, where gossipsub has nothing to forward. Forwarding over several hops is not
  modelled, so the liveness properties and `NewsOnTheWay` are claims about two nodes. With a third
  `NewsOnTheWay` is false already: a chain adopted from it is not announced to the second.
* **The timer and the sync command** ask only when the last request and its answer are no
  longer under way (`Ask`); further requests would only be answered again.
* `Topics` is the number of topics (2 in the code, 1 in the runs: the second `Subscribed` repeats
  the first), `User` the nodes that pay and use the sync command.

`Queries` is evaluated on the chain of every node in every state, that is, on whatever chain a
handler may find under its lock.

`Wallets`:

* **A key is a number**, a recovery phrase the key derived from it; passwords are right. A file
  of `Format` json, wif or aes holds a wallet, nothing, or the torn rest of a truncated write;
  a wif has no recovery phrase.
* **An operation is a step**, because it holds the manager's lock; the miner works with a copy
  of the active wallet taken before (`MineStart`, `MineEnd`).
* **A fault** is a read or a write that fails; a failed `fs::write` leaves the old
  file or a torn one. A crash ends the process only: what was reported written stays.
* `damaged` is a history variable: the names under which a user imported or loaded another
  wallet, or whose json file an I/O error has hit. The properties say what holds for all other names.

## The runs

| Run | Model | States | What it shows |
|---|---|---|---|
| `mempool` | 6 transactions on 4 outputs, 3 fees, 4 entries | 859 | No sequence of calls breaks reservations or the order of fees |
| `forks` | 3 nodes, 4 mined blocks, no payments | 47 thousand | Forks never splice; chains only grow; a miner's tip never moves; `Node` implements `LongestChain` |
| `reorg` | 2 nodes and wallets, 4 mined blocks, reward 3, 1 payment of 1 with change, fees 0 and 1 | 70 thousand | Every chain replays; no double spend; histories, balances and supply add up; nothing unconfirmed leaves a mempool |
| `gossip` | 2 nodes sharing a wallet, 2 blocks, 2 conflicting payments, fees 0 and 1 | 181 thousand | Mempools stay consistent and know each fee, however transactions arrive |
| `solo` | 1 node, 3 mined blocks, retargets, reward 3, 2 payments of 1, fees 0 and 1, 1 queued command, crashes | 96 thousand | A node alone meets what its tests expect, crashes included; it refuses a block of its own only when a retarget changes the difficulty; its accounts add up |
| `crash` | 2 nodes, 4 blocks, a halving every 2 blocks, crashes | 20 thousand | The tip is always stored, no crash loses height, no reward falls behind its schedule |
| `sync` | 2 nodes, 4 mined blocks, batches of at most 4, one block too long to send, 2 connections, 1 payment | 82 thousand | Connected nodes end up at most one block apart, what waits is seen to, unless both have the same chain or the answer is too long to send; `NodeSync` implements `LongestChain` |
| `wallets` | 2 names, 2 keys, 1 I/O error | 1.2 million | Keys are lost only under names that were written over or hit by an error; starts do not panic; rewards stay spendable |
| `stored_chain` | 2 nodes | violation | A reorganisation leaves a mix of two forks in the store |
| `confirmed_pending` | 2 nodes | violation | A batch confirms a transaction without purging it |
| `coinbase` | 1 node and its API | violation | The coinbase pays the fee of a transaction not in the block |
| `own_block` | 1 node, retarget every 2 blocks | violation | At a retarget the node rejects its own blocks |

**Bounds.** `MaxStamp` bounds mined blocks (it counts genesis too), `MaxTxs` the transactions,
`MaxQueue` queued commands, `MaxBuffer` the `tx_buffer`, `MaxValue` amounts, and `OutPoint` how
many payments separate an output from a coinbase. Four blocks among three nodes give forks
of depth two, a node reached by both sides of a fork, and a second reorganisation after
the first. In `reorg`, one payment with four mined blocks can be confirmed, undone by a fork of
two, stay pending and be confirmed again; a reward of 3 pays 1 with a fee of 0 or 1 and
leaves change, and with no fee a payment to oneself is "self" to `classify_tx`. Only the first
coinbase is spent there and in `solo` (`FirstOutPoint`), where a second payment
spends what the first one paid or left as change. In `gossip` two payments conflict.
`BlockLimit` (500) is 1 or 2, so that not everything pending fits a block. Retargets and halvings
(2016 and 210 000 blocks) are set to a few blocks or out of reach, as named in each cfg.
In `solo` a retarget comes after the first mined block, and the time of that block decides
whether it changes the difficulty: if so, the node is stuck, as `own_block` shows, if
not, it goes on.

In `sync`, `MaxConnects` lets nodes part and meet again once, with forks of up to two blocks each
made while they are apart or while messages wait; `MaxSpent` lets coinbases up to the first height
be paid with. Both limits of a message matter: the second mined block is too long to be sent
(`Large`), and a batch holds four blocks, which is one too few for a node that has to be sent a
chain of four mined blocks from genesis (`MaxBatch`). In `wallets`, two keys and two names are the least
with which one wallet can be written over another, and `MaxFaults` lets one read or write fail.

**Symmetry.** `forks` and `reorg` take states for equal that differ in nodes having changed places
together with their wallets (`Exchanges`). They check safety only, and no definition tells nodes
or wallets apart otherwise.

**Each property has a mutant**: a variant of one definition, written above it in the
module with the mistake it makes, under which TLC finds the property violated.

**Fairness.** Only `NodeSync` states any: weak fairness of handling the events that wait
from each peer, and of the timer while it has something to ask. The code justifies it: the
event loop is one `tokio::select!`, which picks among its ready branches at random, the swarm
delivers what the peers have sent, the timer fires every 3 s, and no handler blocks for ever.
Nothing obliges anyone to mine, to pay, to connect, to part or to type `sync`. All other
specifications state safety only.

**Deadlock** is checked in every run: some step is always possible, if only a message handled
again, a restart or another `sync` command.

**What the liveness properties do not say.** `LagAtMostOne` is not convergence: a block
one ahead on another fork is ignored without a request (`node.rs:343`), and a node that
believes itself synchronised then stays on its fork until the other is two ahead. And
`UnsyncedOnlyAmongEquals` and `BufferRevisited` except nodes with the same chain: a peer with
nothing to send does not answer `GetBlocks` (`node.rs:384`), so such a node goes on asking every
3 s, and its buffered transactions wait until one of the two has a new block.

All four properties of synchronisation except a node that lacks more than a message holds
(`Oversized`): nothing is ever sent to it, and no later block changes that, since what it lacks only
gets longer. That is a new node beside a chain of about 100 blocks, a node that was away for as
long, and a node one block down another fork of such a chain, which is sent everything from genesis.
`src/README.md:35` says that a new node "connects automatically to the bootstrap node and syncs the
chain"; beside a longer chain it asks every 3 s and stays at genesis.

**Rewards.** `RewardNeverEarly` says that no node halves its reward before its chain is due. The
converse fails: the reward is 50 again after a restart (`blockchain.rs:83`), only the node
that mines the boundary block halves, and nothing checks a coinbase. No document
promises more, so there is no run about it.

Seen while reading, with no run because no state depends on it: `difficulty_info` counts the
blocks to the next retarget modulo 210 000 instead of 2016 (`blockchain.rs:495`), and `get_tx`
shows a fee of 0 for every confirmed transaction, because it looks for the inputs among the
unspent outputs (`routes.rs:165`; the mutant of `SupplyExplained` is this computation).

### What the violations say about the code

1. `try_replace_chain` saves `candidate[old_height..]` only (`blockchain.rs:326`). A
   restart after a reorganisation loads a chain with a broken link, although the tests
   assert `is_valid()` of a loaded chain. `TipStored` and `HeightKept` hold
   nevertheless: it is the history below the old height that is wrong.
2. `try_replace_chain` never touches the mempool. What the adopted chain confirmed
   stays pending, and the next own block contains it and is refused.
3. The miner sums the fees after it took the transactions (`node.rs:487-489`). With
   the API beside it, the coinbase can exceed reward plus fees; `MinerNotUnderpaid`
   shows that the error is always in the miner's favour, and no check of a block catches it.
4. The miner uses the difficulty of the tip where `try_append_block` recomputes it. When
   a retarget changes the difficulty, no node can mine a block that it accepts.
   `RefusedAtRetargetOnly` shows that it is the only reason a lone node has for refusing one.

## The proofs

All proofs are checked by TLAPS for every value of the constants that satisfies the
named assumptions (`LedgerAssumption`, `DifficultyAssumption`, `MempoolAssumption`,
`NodeAssumption`, `NodeSyncAssumption`, `WalletsAssumption`), which TLC also evaluates in the
runs. They say that bounds are numbers, that heights between retargets and halvings are
positive, and that nodes and wallets are finitely many. The bounds are guards, so they
are covered for any size. Four theorems assume more: `NewsReachesNode` that there are at most two
nodes (and its conclusion that every chain so far fits into a message), and the three about a
node that runs alone that there is one (`Node = {n}`).

* `OpsProofs` is about operators.
  - Sums. The models add amounts up with a fold over a set in an order that is chosen, not
    known. `SumIsAccumulated` opens the fold once. That the order does not matter
    (`SumTakesAny`) is shown without induction over the fold: were it false for some set, a
    smallest subset would have it false (`SmallestSubset`, `SubsetsReached`, from the least number).
    From it follow the sums of pairs, parts, renamed summands and sums (`SumOfPairs`,
    `SumSplits`, `SumRenamed`, `SumOfSums`), and that the first entries in order of
    fee pay no less than any others of that number (`FirstEntriesPayMost`).
  - Chains. `AppendReplays`: `try_append_block` validates against `build_utxo_set` (two
    passes over the chain), `try_replace_chain` against a map built in sequence. The first never sees
    an output that the second lacks at the same transaction (`AppendSeesLess`), and a
    new block does not change what the replay sees earlier (`AppendKeepsPast`). `NoClash`: in a
    replayed chain whose coinbases differ, no two transactions spend the same output, shown
    at the first clash. `PassesAgree`: then the two ways to compute unspent outputs agree.
  - Mempools. `Arrange` is a rearrangement (`ArrangeRearranges`: counting the predecessors in
    a strict order is a bijection onto `1..Cardinality(K)`) and puts predecessors first
    (`ArrangeOrders`). From it, `add` and `purge_confirmed` keep `Consistent` and `Sorted`
    and change the entries as they say (`AddKeeps`, `PurgeKeeps`).
* `MempoolProofs`: `MempoolTypeCorrect`, `MempoolConsistent`, `MempoolSorted`, and the action
  properties `EntriesKeepOrder` and `NewcomersQueueBehind`: the sort after each `add` is
  stable, so no call ever swaps two entries, and a newcomer waits behind all that pay as much.
* `NodeProofs`: the invariant is `BaseInv /\ ReplayInv`. `BaseInv` (`ShapeInv`, `PoolInv`,
  `LoopInv`, `JobFresh`) speaks of types, block numbers, the store, the mempools and the step a
  node is in; `ReplayInv` of links and validity. They are apart because crashes
  keep the first and not the second. `ChainsReplay` alone is not inductive: it must speak of
  every chain ever published, because any of them can come back as a batch, and the block
  numbers are needed to know that merged batches are numbered without gaps (`MergeShape`:
  a merged chain is a prefix of the own one followed by a part of the batch). Nor is `TypeOK`: the
  stored tree stays a sequence only while it is as long as the chain, which is `TipStored`.
  One lemma per action shows that it keeps each part; frames (`ChainFrame`, `PoolFrame`,
  `JobFrame`) deal with what an action leaves alone. The theorems are `NodeTypeCorrect`,
  `HeldChainsReplay`, `StoredTip`, `NodePoolsConsistent`, `MinedBlocksFresh` and
  `ChainsOnlyGrow`. `PaidInv` (nothing on its way into a block is a coinbase, and
  everything has outputs worth no more than its inputs) is shown there for the modules below, as is
  what a step does to a mempool: it accepts one payment that is valid in the chain (`Accepts`), or
  a block purges what it confirms (`Purges`).
* `NodeChainProofs`: `TipsDetermineChains` and the refinement `NodesImplementLongestChain`. The
  published chains form a tree (`TreeInv`: two chains with one block in common have the same
  past up to it), hashes are given in order (`StampInv`), and a block under way is new
  (`JobsNew`). The heart is `MergeKnown`: if a merged candidate is linked, the tree makes it a
  beginning or the whole of a published chain, so that no fork is ever spliced. Then
  `NothingSpentTwice`, `UtxoSetsEqual` and `PendingUntilConfirmed`. An output
  could be created twice if two blocks held the same coinbase; so the invariant says that
  coinbases carry the mark of their block (`MarkInv`), and `NoClash` applies.
* `CrashProofs`: `CrashesKeepTip`, `CrashesKeepPools`, `CrashesKeepHeight`. The invariant is
  `BaseInv` with `StoreInv`: stored blocks say their own places even when they are a mixture of two
  forks, and stored entries, old or torn, spend different outputs. That is what a restart
  needs to establish `BaseInv` again. `ReplayInv` is lost by a restart after a reorganisation, which
  is what `stored_chain` shows.

  Its second part is about a node that runs alone and crashes anywhere (`AloneInv`). Such a node is
  offered no longer chain, so the chain changes only by what it mines, and a restart finds it whole
  (`OwnInv`, `AloneMoves`, `LoneRestart`). All that is pending is valid in it (`ValidInv`): a block takes
  away only outputs that its payments spend, and two pending payments never share one
  (`RestValid`, from `PendingDisjoint`). What the miner has taken is still pending, once each
  (`TakenInv`), so it is valid one after the other (`TakenApplies`). From this follow
  `AlonePendingSpendable`, `AloneConfirmedNotPending` and `AloneRefusedAtRetarget`: what a lone node has
  mined passes every check of its own chain but, when a retarget changes it, that of the difficulty
  (`OwnBlockFits`), which is the reason for the violation `own_block` shows.
* `MoneyProofs` is about amounts, with crashes in its first three theorems.
  - `FeesAreExact`: every entry, in memory and in the store, keeps the surplus of its
    transaction as its fee (`ExactInv`); a restart that takes over stored entries does too.
  - `MinersNotUnderpaid`: what the miner collected is still pending when the fees are summed,
    each transaction once and at most `BlockLimit` of them (`Collected`), because the API only
    adds entries meanwhile. The sum goes over the first entries of a pool in order of fee,
    so `FirstEntriesPayMost` puts it at or above the fees of the block.
  - `RewardsNeverEarly`: the schedule is `h \div 2^k` without the power, as the value every
    sequence of halvings reaches (`Halves`, `HalvesUnique`), falling with the height
    (`LongerPaysLess`); a reward is halved only on appending the boundary block (`HalvingInTime`).
  - `HistoriesExplainBalances` and `SuppliesExplained`: every chain ever held has sound
    accounts. What all transactions created less what they used is what is unspent
    (`LeftAddsUp`, from `UtxoSetsEqual` and `NothingSpentTwice`); a history's entries add up to the
    owner's part of it (`HistoryAddsUp`); over all owners, what is unspent and the fees paid
    add up to what coinbases gave (`SupplyAddsUp`).
* `NodeSyncProofs`: `SyncTypes`, the refinement `SyncImplementsLongestChain`, for any number of
  nodes, and `NewsReachesNode`. For the first two the invariant (`Inv`) says that what waits in a
  queue is a block or a part of a chain some node has held (`Honest`), so that what a batch leads to is
  again a known chain. `NewsReachesNode` needs far more, and only two nodes
  give it: of two nodes, a chain one adopts is one the other holds. The invariant of a pair
  says that connections are told of before messages (`LinkInv`), that each waiting message still fits
  both chains (`TimelyInv`: a batch longer than the chain it meets begins where the two part, so
  it is taken whole), and that a node two blocks behind is to hear of the very last block of its peer
  (`NewsInv`). It says so as long as all chains ever held are short enough to be sent (`AllFit`), and so
  does the theorem; when some are not, `NewsOnTheWay` with its exception for the node that lacks
  too much is model-checked in `sync`.
* `WalletsProofs`: `WalletsTypeCorrect`, `KeysAlwaysSurvive`, `NodeStarts`, `MinersOwnRewards`. The
  invariant (`KeyInv`) follows where each key is held: memory and files hold only keys
  once held under their name, undamaged files hold the last one, and nothing is held before
  the default name has been, so that a start with any wallet finds the default one.

Model-checked only:

* the liveness of `NodeSync` (`LagAtMostOne`, `UnsyncedOnlyAmongEquals`, `BufferRevisited`), which
  is beyond the prover;
* `NewsOnTheWay` once some chain is longer than a message.

## Not modelled

* Cryptography: keys, signatures, hashes, proof of work, BIP39, AES. Parsing of arguments and
  console lines, configuration, logging, JSON types and listings, which change nothing.
* libp2p's inside: deduplication beyond what `NodeSync` needs, forwarding over several hops, mDNS.
  Of its refusals to publish, the length of a message and the lack of subscribed peers are modelled;
  that all its queues are full and a `NewTx` longer than a message are not.
* Failures of sled. `append` logs an error of `save_block` and goes on, so memory and disk would
  part until the next start; `TipStored` is stated for a store that works.
* Dishonest peers.
* `GetMempool`, which no code sends; `StopMining`, which does nothing; `mine_pending_transactions`,
  which only tests use.
* Switching wallets within `Node`: a node's wallet is fixed there, and `Wallets` has the switching.
* The double payment of `POST /send` (`routes.rs:366`: the handler creates a transaction, and the
  command it queues creates another for the same amount). Both are in the model and both are valid;
  nothing in the repository says what is expected, so no property judges it.
* The durability of received transactions: only the send command saves the mempool, and no
  document promises more.

## What is left

`NodeSync` with three nodes and forwarding; faults of the store; how far one retarget can move
the difficulty (`CalculateNextDifficulty`), for all inputs.
