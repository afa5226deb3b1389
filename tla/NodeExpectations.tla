--------------------------- MODULE NodeExpectations ---------------------------
(***************************************************************************)
(* What the tests, the log messages and the README say of a node. A node   *)
(* that runs alone meets all of it, even when it crashes, but for a change *)
(* of difficulty; the runs show which expectation fails once nodes differ, *)
(* the API is used while the node mines, or the difficulty changes.        *)
(***************************************************************************)
EXTENDS NodeCrash, Queries

\* The chain a restart loads is valid: tests.rs chain_loaded_from_disk_matches_
\* original and chain_survives_full_reload_with_transactions assert is_valid() of
\* what Blockchain::new loads.
StoredChainValid ==
    \A n \in Node : IsValid(blocks_tree[n])

\* Whenever the chain has moved on, what is pending is not in it: tests.rs
\* transaction_cleared_from_mempool_after_mining.
ConfirmedNotPending ==
    \A n \in Node : pc[n] = "idle" =>
        \A p \in Positions(chain[n]) : ~PoolContains(mempool[n], TxAt(chain[n], p))

\* Everything pending spends outputs that are unspent in the chain, so that a
\* block can be made of it (collect_for_block, validate_transaction).
PendingSpendable ==
    \A n \in Node : \A tx \in PoolTxs(mempool[n]) :
        Inputs(tx) \subseteq BuildUtxoSet(chain[n])

\* A block the node has mined is accepted by the node itself: the only reason the
\* code has for a refusal is a stale block ("Mined block rejected by chain
\* (stale)", node.rs), and JobFresh says no block is stale.
OwnBlockAccepted ==
    \A n \in Node : pc[n] = "mining" => Appendable(n, job[n])

\* What is left of it for a node that runs alone: pending payments, API sends and
\* restarts never make a block of its own invalid, only a retarget that changes the
\* difficulty after the block was begun with that of the tip (node.rs:483,
\* Blockchain::compute_current_difficulty).
RefusedAtRetargetOnly ==
    \A n \in Node : pc[n] = "mining" /\ ~Appendable(n, job[n]) =>
        /\ IsRetargetBlock(Len(chain[n]))
        /\ ExpectedDifficulty(n) # difficulty[n]

\* The coinbase of a mined block pays the reward and the fees of that block, and
\* no more: tests.rs miner_collects_transaction_fee, total_supply_tracks_coinbase_
\* emissions.
CoinbaseExact ==
    \A n \in Node : pc[n] = "mining" =>
        job[n].reward = mining_reward[n] + FeesOf(job[n].transactions)
=============================================================================
