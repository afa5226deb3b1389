------------------------------- MODULE SyncOps -------------------------------
(***************************************************************************)
(* The two computations of the synchronisation protocol, pure operators on *)
(* chains (sequences of blocks, genesis first): what a node serves to a    *)
(* GetBlocks, and the candidate it builds from a BlocksBatch.              *)
(* handle_network_message of network/node.rs.                              *)
(***************************************************************************)
EXTENDS Integers, SequencesExt

\* The place of the first block served to a node that reports its tip: the one
\* after the tip if the chain has it at that height, genesis if it has not.
ServeFrom(chain, from_height, from_hash) ==
    IF from_height + 1 \in DOMAIN chain /\ chain[from_height + 1].hash = from_hash
    THEN from_height + 2 ELSE 1

\* The candidate BlocksBatch builds from its chain and the blocks batch[s..]:
\* blocks it has are skipped, the first one it lacks or differs from truncates
\* the chain there, and blocks that would leave a gap are ignored.
Merge(own, batch, s) ==
    LET news == {i \in s..Len(batch) :
                    \/ i = Len(own) + 1
                    \/ i <= Len(own) /\ own[i].hash # batch[i].hash}
        cut  == CHOOSE i \in news : \A j \in news : i <= j
    IN  IF news = {} THEN own
        ELSE SubSeq(own, 1, cut - 1) \o SubSeq(batch, cut, Len(batch))
=============================================================================
