----------------------------- MODULE LongestChain -----------------------------
(***************************************************************************)
(* What the nodes promise together, whatever messages they exchange: every *)
(* chain grows from one genesis block, a node extends its chain by a block *)
(* nobody has mined before, or takes over a longer chain some node has     *)
(* held. Forks may last; what never happens is a mixture of two of them.   *)
(***************************************************************************)
EXTENDS Integers, Sequences

CONSTANTS Node, Genesis

VARIABLES
    chain,      \* chain[n]: the blocks of node n, genesis first
    known       \* every chain a node has held

Init ==
    /\ chain = [n \in Node |-> <<Genesis>>]
    /\ known = {<<Genesis>>}

\* No block of this hash has been mined.
Fresh(hash) == \A c \in known : \A i \in DOMAIN c : c[i].hash # hash

\* The block is whatever the step leaves at the end of the chain.
Extend(n) ==
    LET block == chain'[n][Len(chain[n]) + 1]
    IN  /\ Len(chain'[n]) = Len(chain[n]) + 1
        /\ chain' = [chain EXCEPT ![n] = Append(@, block)]
        /\ block.index = Len(chain[n])
        /\ block.previous_hash = chain[n][Len(chain[n])].hash
        /\ Fresh(block.hash)
        /\ known' = known \cup {chain'[n]}

Adopt(n) ==
    /\ \E c \in known :
          /\ Len(c) > Len(chain[n])
          /\ chain' = [chain EXCEPT ![n] = c]
    /\ UNCHANGED known

Next == \E n \in Node : Extend(n) \/ Adopt(n)

Spec == Init /\ [][Next]_<<chain, known>>
=============================================================================
