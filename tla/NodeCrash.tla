------------------------------ MODULE NodeCrash ------------------------------
(***************************************************************************)
(* Nodes that crash and restart from their block store: Blockchain::new of *)
(* models/blockchain.rs over the trees of models/storage.rs. Everything in *)
(* memory is lost; run_node starts over, not synchronised.                 *)
(***************************************************************************)
EXTENDS Node

\* Mutant of Restored: every stored entry is taken back.
RestoredUnchecked(entries, blocks) ==
    {pool \in [entries : SetToSeqs(entries),
               reserved_inputs : {UNION {Inputs(e.tx) : e \in entries}}] :
        Sorted(pool)}

\* Mutant of Restored: the entries are taken back without their reservations.
RestoredUnreserved(entries, blocks) ==
    LET valid == {e \in entries : /\ ~IsCoinbase(e.tx)
                                  /\ ValidateAgainst(e.tx, BuildUtxoSet(blocks))}
    IN  {pool \in [entries : SetToSeqs(valid), reserved_inputs : {{}}] : Sorted(pool)}

\* The stored entries that are still valid, added in the order of their ids,
\* which is any order: the pool is any sorted listing of them.
Restored(entries, blocks) ==
    LET valid == {e \in entries : /\ ~IsCoinbase(e.tx)
                                  /\ ValidateAgainst(e.tx, BuildUtxoSet(blocks))}
    IN  {pool \in [entries : SetToSeqs(valid),
                   reserved_inputs : {UNION {Inputs(e.tx) : e \in valid}}] :
            Sorted(pool)}

\* The node comes back with what the two trees hold.
Restart(n, blocks, entries) ==
    /\ blocks_tree' = [blocks_tree EXCEPT ![n] = blocks]
    /\ mempool_tree' = [mempool_tree EXCEPT ![n] = entries]
    /\ chain' = [chain EXCEPT ![n] = blocks]
    /\ difficulty' = [difficulty EXCEPT ![n] = Last(blocks).difficulty]
    /\ \E pool \in Restored(entries, blocks) :
          mempool' = [mempool EXCEPT ![n] = pool]
    /\ mining_reward' = [mining_reward EXCEPT ![n] = InitialReward]
    /\ pc' = [pc EXCEPT ![n] = "idle"]
    /\ job' = [job EXCEPT ![n] = NoJob]
    /\ todo' = [todo EXCEPT ![n] = <<>>]
    /\ synced' = [synced EXCEPT ![n] = FALSE]
    /\ tx_buffer' = [tx_buffer EXCEPT ![n] = <<>>]
    /\ cmds' = [cmds EXCEPT ![n] = <<>>]
    /\ published' = published \cup {blocks}
    /\ UNCHANGED <<new_txs, mempool_txs, stamp>>

\* A crash anywhere but inside a save.
Crash(n) == Restart(n, blocks_tree[n], mempool_tree[n])

\* A crash inside the loop that saves a longer chain, after place k.
CrashInReplace(n) ==
    /\ Idle(n)
    /\ \E c \in published : \E s \in 1..Len(c) :
          LET candidate == Merge(chain[n], c, s)
          IN  /\ Replaceable(n, candidate)
              /\ \E k \in (Len(chain[n]) + 1)..Len(candidate) :
                    Restart(n, SaveSuffix(n, candidate, k), mempool_tree[n])

\* A crash inside save_mempool, which clears the tree and then inserts the
\* entries: some of the old ones, or some of the new ones, are stored.
CrashInSave(n) ==
    /\ Idle(n)
    /\ \E to \in Wallet, amount \in Amounts, fee \in Fees :
          \E tx \in Creatable(n, to, amount, fee) \cap Tx :
             LET new == Range(Add(mempool[n], tx, fee).entries)
             IN  \E left \in (SUBSET mempool_tree[n]) \cup (SUBSET new) :
                    Restart(n, blocks_tree[n], left)

CrashNext ==
    \/ Next
    \/ \E n \in Node : Crash(n) \/ CrashInReplace(n) \/ CrashInSave(n)

\* Nodes that crash and restart at any time.
CrashSpec == Init /\ [][CrashNext]_vars

\* Neither a step nor a crash at any point, not even inside the saves of a
\* reorganisation, takes a block of height away (save_block, load_chain).
HeightKept ==
    [][\A n \in Node : Len(chain'[n]) >= Len(chain[n])]_vars

\* The reward after k halvings.
Halved[k \in Nat] == IF k = 0 THEN InitialReward ELSE Halved[k - 1] \div 2

\* No miner is paid less than the schedule of its chain allows: no reorganisation
\* or restart makes a node halve twice for one boundary (mining_reward). The
\* converse fails: only the node that mines the boundary block halves, and a
\* restart forgets it.
RewardNeverEarly ==
    \A n \in Node : mining_reward[n] >= Halved[Len(chain[n]) \div HalvingInterval]
=============================================================================
