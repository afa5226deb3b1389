------------------------------- MODULE NodeSync -------------------------------
(***************************************************************************)
(* How nodes catch up: the synchronisation protocol of network/node.rs over *)
(* connections that are opened and lost. What Node leaves to chance (which *)
(* message arrives, and whether) is spelled out here: events wait in a      *)
(* queue per peer and are handled in order.                                *)
(*                                                                         *)
(* A block is its header; that honest blocks validate everywhere is what   *)
(* Node!ChainsReplay says. A transaction is the hash of the block whose    *)
(* coinbase it spends, so it is valid where that block is in the chain.    *)
(* Mining is one step: Node!JobFresh shows that nothing happens to the node *)
(* while it mines.                                                         *)
(***************************************************************************)
EXTENDS SyncOps, FiniteSets

CONSTANTS
    Node,
    User,               \* the nodes whose users send and ask for blocks
    Topics,             \* the number of topics a peer joins: 2 in the code
    MaxStamp,           \* bound: the number of blocks mined, plus one
    MaxConnects,        \* bound: the connections ever opened
    MaxSpent,           \* bound: the height up to which coinbases are spent
    MaxTxs,             \* bound: the transactions ever sent
    MaxBatch,           \* the blocks of usual size that one message holds
    Large               \* the blocks that fill more than a message

ASSUME NodeSyncAssumption ==
    /\ IsFiniteSet(Node)
    /\ User \subseteq Node
    /\ Topics \in Nat \ {0}
    /\ MaxStamp \in Nat
    /\ MaxConnects \in Nat
    /\ MaxSpent \in Nat
    /\ MaxTxs \in Nat
    /\ MaxBatch \in Nat \ {0}
    /\ Large \subseteq Nat

VARIABLES
    chain,          \* chain[n]: the blocks, genesis first
    pool,           \* pool[n]: the pending transactions
    synced,         \* synced[n]: no periodic GetBlocks, invalid NewTx dropped
    has_peers,      \* has_peers[n]: the periodic GetBlocks has a receiver
    tx_buffer,      \* tx_buffer[n]: invalid NewTx kept until a batch arrives
    links,          \* the pairs of nodes that are connected, as sets of two
    topics,         \* topics[n]: the peers n knows to be subscribed
    events,         \* events[n][m]: what waits at n from or about m, in order
    published,      \* every chain a node has held
    stamp,          \* the last block token
    connects        \* the connections opened so far

node == <<chain, pool, synced, has_peers, tx_buffer>>
net  == <<links, topics, events>>
vars == <<node, net, published, stamp, connects>>

Genesis == [index |-> 0, hash |-> 1, previous_hash |-> 0]

Block == [index : Nat, hash : Nat, previous_hash : Nat]

Event ==
    [type : {"Established", "Subscribed", "Closed"}]
      \cup [type : {"NewBlock"}, block : Block]
      \cup [type : {"GetBlocks"}, from_hash : Nat, from_height : Nat]
      \cup [type : {"BlocksBatch"}, blocks : Seq(Block), start : Nat]
      \cup [type : {"NewTx"}, tx : Nat]
      \cup [type : {"MempoolTxs"}, txs : SUBSET Nat]

TypeOK ==
    /\ chain \in [Node -> Seq(Block)]
    /\ pool \in [Node -> SUBSET Nat]
    /\ synced \in [Node -> BOOLEAN]
    /\ has_peers \in [Node -> BOOLEAN]
    /\ tx_buffer \in [Node -> SUBSET Nat]
    /\ links \subseteq SUBSET Node
    /\ topics \in [Node -> SUBSET Node]
    /\ events \in [Node -> [Node -> Seq(Event)]]
    /\ published \subseteq Seq(Block)
    /\ stamp \in Nat
    /\ connects \in Nat

Init ==
    /\ chain = [n \in Node |-> <<Genesis>>]
    /\ pool = [n \in Node |-> {}]
    /\ synced = [n \in Node |-> FALSE]
    /\ has_peers = [n \in Node |-> FALSE]
    /\ tx_buffer = [n \in Node |-> {}]
    /\ links = {}
    /\ topics = [n \in Node |-> {}]
    /\ events = [n \in Node |-> [m \in Node |-> <<>>]]
    /\ published = {<<Genesis>>}
    /\ stamp = 1
    /\ connects = 0

Tip(n) == Last(chain[n])

Valid(n, tx) == \E i \in DOMAIN chain[n] : chain[n][i].hash = tx

Pending(n, m, types) == \E i \in DOMAIN events[n][m] : events[n][m][i].type \in types

-----------------------------------------------------------------------------
\* Sending. A message that gossipsub takes reaches the peers known to be subscribed.

\* Gossipsub refuses a message longer than max_transmit_size (64 KiB, its default),
\* and the node only drops the error. Do the blocks of a chain from a place on fit?
Fits(c, from) ==
    /\ Len(c) - from < MaxBatch
    /\ \A i \in from..Len(c) : c[i].hash \notin Large

\* The events once `messages' of n have been sent to the peers `to'.
Sent(queues, n, to, messages) ==
    [m \in Node |-> IF m \in to THEN [queues[m] EXCEPT ![n] = @ \o messages]
                    ELSE queues[m]]

\* The events once n has taken one from m and published `messages'.
Handled(n, m, messages) ==
    Sent([events EXCEPT ![n][m] = Tail(@)], n, topics[n], messages)

\* Mutant of Request: the height of the block below the tip.
RequestBelow(n) == [type |-> "GetBlocks", from_hash |-> Tip(n).hash,
                    from_height |-> Len(chain[n]) - 2]

Request(n) == [type |-> "GetBlocks", from_hash |-> Tip(n).hash,
               from_height |-> Len(chain[n]) - 1]

\* A block is mined and published ("mine", MineBlock), if it fits into a message.
Mine(n) ==
    /\ stamp < MaxStamp
    /\ stamp' = stamp + 1
    /\ LET block == [index |-> Len(chain[n]), hash |-> stamp + 1,
                     previous_hash |-> Tip(n).hash]
       IN  /\ chain' = [chain EXCEPT ![n] = Append(@, block)]
           /\ published' = published \cup {Append(chain[n], block)}
           /\ events' = Sent(events, n, topics[n],
                             IF block.hash \in Large THEN <<>>
                             ELSE <<[type |-> "NewBlock", block |-> block]>>)
    /\ UNCHANGED <<pool, synced, has_peers, tx_buffer, links, topics, connects>>

\* "send": a transaction that spends an own coinbase is pooled and published.
Pay(n) ==
    /\ Cardinality(UNION {pool[m] : m \in Node}) < MaxTxs
    /\ \E i \in (2..Len(chain[n])) \cap (2..(MaxSpent + 1)) :
          LET tx == chain[n][i].hash
          IN  /\ \A m \in Node : tx \notin pool[m]
              /\ pool' = [pool EXCEPT ![n] = @ \cup {tx}]
              /\ events' = Sent(events, n, topics[n], <<[type |-> "NewTx", tx |-> tx]>>)
    /\ UNCHANGED <<chain, synced, has_peers, tx_buffer, links, topics, published, stamp,
                   connects>>

\* Ask the peers for what follows the tip. Bound: not again while the last request
\* or its answer is on the way.
Ask(n) ==
    /\ \A m \in Node : ~Pending(m, n, {"GetBlocks"}) /\ ~Pending(n, m, {"BlocksBatch"})
    /\ events' = Sent(events, n, topics[n], <<Request(n)>>)
    /\ UNCHANGED <<node, links, topics, published, stamp, connects>>

\* Mutant of Tick: the timer does not ask.
TickIdle(n) ==
    /\ has_peers[n]
    /\ ~synced[n]
    /\ UNCHANGED vars

\* The timer asks while the node is not synchronised.
Tick(n) ==
    /\ has_peers[n]
    /\ ~synced[n]
    /\ Ask(n)

\* "sync": the user asks at any time.
Sync(n) == Ask(n)

-----------------------------------------------------------------------------
\* Connections. Either side sees the other connect and then join each topic.

Connect(n, m) ==
    /\ n # m
    /\ {n, m} \notin links
    /\ connects < MaxConnects
    /\ connects' = connects + 1
    /\ links' = links \cup {{n, m}}
    /\ LET arrival == <<[type |-> "Established"]>>
                        \o [i \in 1..Topics |-> [type |-> "Subscribed"]]
       IN  events' = [events EXCEPT ![n][m] = @ \o arrival, ![m][n] = @ \o arrival]
    /\ UNCHANGED <<node, topics, published, stamp>>

\* What has not been handled is lost with the connection: an event handled later
\* might as well have been handled before, as its answer gets lost.
Disconnect(n, m) ==
    /\ {n, m} \in links
    /\ links' = links \ {{n, m}}
    /\ topics' = [topics EXCEPT ![n] = @ \ {m}, ![m] = @ \ {n}]
    /\ events' = [events EXCEPT ![n][m] = <<[type |-> "Closed"]>>,
                                ![m][n] = <<[type |-> "Closed"]>>]
    /\ UNCHANGED <<node, published, stamp, connects>>

-----------------------------------------------------------------------------
\* Receiving (the swarm branch of the event loop, handle_network_message).

\* The next event at n from m has this type.
Next1(n, m, type) == events[n][m] # <<>> /\ Head(events[n][m]).type = type

Established(n, m) ==
    /\ Next1(n, m, "Established")
    /\ has_peers' = [has_peers EXCEPT ![n] = TRUE]
    /\ synced' = [synced EXCEPT ![n] = @ /\ Len(chain[n]) > 1]
    /\ events' = Handled(n, m, <<>>)
    /\ UNCHANGED <<chain, pool, tx_buffer, links, topics, published, stamp, connects>>

Closed(n, m) ==
    /\ Next1(n, m, "Closed")
    /\ IF \E link \in links : n \in link
         THEN UNCHANGED <<has_peers, synced>>
         ELSE /\ has_peers' = [has_peers EXCEPT ![n] = FALSE]
              /\ synced' = [synced EXCEPT ![n] = FALSE]
    /\ events' = Handled(n, m, <<>>)
    /\ UNCHANGED <<chain, pool, tx_buffer, links, topics, published, stamp, connects>>

\* A peer joins a topic: ask it for its blocks and share the mempool, which may be
\* refused as too long or as sent before (the message has no nonce).
Subscribed(n, m) ==
    /\ Next1(n, m, "Subscribed")
    /\ has_peers' = [has_peers EXCEPT ![n] = TRUE]
    /\ synced' = [synced EXCEPT ![n] = FALSE]
    /\ topics' = [topics EXCEPT ![n] = @ \cup {m}]
    /\ \E shared \in {{}, pool[n]} :
          events' = Sent([events EXCEPT ![n][m] = Tail(@)], n, topics'[n],
                         IF shared = {} THEN <<Request(n)>>
                         ELSE <<Request(n), [type |-> "MempoolTxs", txs |-> shared]>>)
    /\ UNCHANGED <<chain, pool, tx_buffer, links, published, stamp, connects>>

\* Mutant of NewBlock: a block far ahead does not make the node ask.
NewBlockSilent(n, m) ==
    /\ Next1(n, m, "NewBlock")
    /\ LET block  == Head(events[n][m]).block
           extends == block.index = Len(chain[n]) /\ block.previous_hash = Tip(n).hash
       IN  IF extends
             THEN /\ chain' = [chain EXCEPT ![n] = Append(@, block)]
                  /\ published' = published \cup {Append(chain[n], block)}
             ELSE UNCHANGED <<chain, published>>
    /\ events' = Handled(n, m, <<>>)
    /\ UNCHANGED <<pool, synced, has_peers, tx_buffer, links, topics, stamp, connects>>

\* A block that does not extend the chain makes the node ask only if it is more
\* than one ahead.
NewBlock(n, m) ==
    /\ Next1(n, m, "NewBlock")
    /\ LET block  == Head(events[n][m]).block
           extends == block.index = Len(chain[n]) /\ block.previous_hash = Tip(n).hash
       IN  /\ IF extends
                THEN /\ chain' = [chain EXCEPT ![n] = Append(@, block)]
                     /\ published' = published \cup {Append(chain[n], block)}
                ELSE UNCHANGED <<chain, published>>
           /\ events' = Handled(n, m, IF ~extends /\ block.index > Len(chain[n])
                                      THEN <<Request(n)>> ELSE <<>>)
    /\ UNCHANGED <<pool, synced, has_peers, tx_buffer, links, topics, stamp, connects>>

\* Who has nothing after the reported tip does not answer, and an answer that does
\* not fit into a message is not sent. A batch is the part of `blocks' from place
\* `start' on.
GetBlocks(n, m) ==
    /\ Next1(n, m, "GetBlocks")
    /\ LET request == Head(events[n][m])
           start   == ServeFrom(chain[n], request.from_height, request.from_hash)
           batch   == [type |-> "BlocksBatch", blocks |-> chain[n], start |-> start]
       IN  events' = Handled(n, m, IF start > Len(chain[n]) \/ ~Fits(chain[n], start)
                                   THEN <<>> ELSE <<batch>>)
    /\ UNCHANGED <<node, links, topics, published, stamp, connects>>

\* Mutant of Replaceable: an equally long chain is adopted.
ReplaceableByEqual(own, candidate) ==
    /\ candidate # own
    /\ Len(candidate) >= Len(own)
    /\ \A i \in 2..Len(candidate) : candidate[i].previous_hash = candidate[i - 1].hash

\* The checks of try_replace_chain that depend on the headers.
Replaceable(own, candidate) ==
    /\ Len(candidate) > Len(own)
    /\ \A i \in 2..Len(candidate) : candidate[i].previous_hash = candidate[i - 1].hash

\* Mutant of BlocksBatch: the tx_buffer is not looked at again.
BlocksBatchNoDrain(n, m) ==
    /\ Next1(n, m, "BlocksBatch")
    /\ LET batch     == Head(events[n][m])
           candidate == Merge(chain[n], batch.blocks, batch.start)
       IN  IF Replaceable(chain[n], candidate)
             THEN /\ chain' = [chain EXCEPT ![n] = candidate]
                  /\ published' = published \cup {candidate}
                  /\ synced' = [synced EXCEPT ![n] = TRUE]
             ELSE /\ synced' = [synced EXCEPT ![n] = @ \/ Len(candidate) <= Len(chain[n])]
                  /\ UNCHANGED <<chain, published>>
    /\ events' = Handled(n, m, <<>>)
    /\ UNCHANGED <<pool, has_peers, tx_buffer, links, topics, stamp, connects>>

\* A batch that is adopted, or brings nothing longer, ends the wait, and the
\* buffered transactions are tried once more; one that fails the checks is
\* dropped.
BlocksBatch(n, m) ==
    /\ Next1(n, m, "BlocksBatch")
    /\ LET batch     == Head(events[n][m])
           candidate == Merge(chain[n], batch.blocks, batch.start)
           adopted   == Replaceable(chain[n], candidate)
       IN  /\ chain' = [chain EXCEPT ![n] = IF adopted THEN candidate ELSE @]
           /\ published' = IF adopted THEN published \cup {candidate} ELSE published
           /\ IF adopted \/ Len(candidate) <= Len(chain[n])
                THEN /\ synced' = [synced EXCEPT ![n] = TRUE]
                     /\ pool' = [pool EXCEPT ![n] =
                                   @ \cup {tx \in tx_buffer[n] : Valid(n, tx)'}]
                     /\ tx_buffer' = [tx_buffer EXCEPT ![n] = {}]
                ELSE UNCHANGED <<synced, pool, tx_buffer>>
    /\ events' = Handled(n, m, <<>>)
    /\ UNCHANGED <<has_peers, links, topics, stamp, connects>>

\* The node publishes what it accepts once more; gossipsub knows the message id
\* and does not send it again.
NewTx(n, m) ==
    /\ Next1(n, m, "NewTx")
    /\ LET tx == Head(events[n][m]).tx
       IN  \/ /\ Valid(n, tx) \/ tx \in pool[n]
              /\ pool' = [pool EXCEPT ![n] = @ \cup {tx}]
              /\ UNCHANGED tx_buffer
           \/ /\ ~Valid(n, tx) /\ tx \notin pool[n]
              /\ tx_buffer' = [tx_buffer EXCEPT ![n] = IF synced[n] THEN @ ELSE @ \cup {tx}]
              /\ UNCHANGED pool
    /\ events' = Handled(n, m, <<>>)
    /\ UNCHANGED <<chain, synced, has_peers, links, topics, published, stamp, connects>>

MempoolTxs(n, m) ==
    /\ Next1(n, m, "MempoolTxs")
    /\ pool' = [pool EXCEPT ![n] =
                  @ \cup {tx \in Head(events[n][m]).txs : Valid(n, tx)}]
    /\ events' = Handled(n, m, <<>>)
    /\ UNCHANGED <<chain, synced, has_peers, tx_buffer, links, topics, published, stamp,
                   connects>>

Handle(n, m) ==
    \/ Established(n, m) \/ Closed(n, m) \/ Subscribed(n, m)
    \/ NewBlock(n, m) \/ GetBlocks(n, m) \/ BlocksBatch(n, m)
    \/ NewTx(n, m) \/ MempoolTxs(n, m)

Next ==
    \/ \E n \in Node : Mine(n) \/ Tick(n)
    \/ \E n \in User : Pay(n) \/ Sync(n)
    \/ \E n, m \in Node : Connect(n, m) \/ Disconnect(n, m) \/ Handle(n, m)

\* The event loop keeps running and selects among its ready sources at random:
\* every waiting event is handled, and the timer fires. Nobody has to mine, to
\* pay, to connect or to part.
Fairness ==
    /\ \A n \in Node : WF_vars(Tick(n))
    /\ \A n \in Node : \A m \in Node \ {n} : WF_vars(Handle(n, m))

Spec == Init /\ [][Next]_vars /\ Fairness

-----------------------------------------------------------------------------
Together(n, m) == {n, m} \in links

\* The nodes implement the abstract specification: no order of requests, batches
\* and disconnections makes a node adopt a mixture of two forks, or a chain that
\* is not longer than its own (Merge, try_replace_chain).
Abstract == INSTANCE LongestChain WITH known <- published
ImplementsLongestChain == Abstract!Spec

\* What m would answer n now is more than a message holds: m sends nothing then,
\* however often n asks.
Oversized(m, n) ==
    ~Fits(chain[m], ServeFrom(chain[m], Len(chain[n]) - 1, Tip(n).hash))

\* Two nodes that stay connected end up at most one block apart once nobody mines
\* any more, unless what one lacks does not fit into a message: NewBlock, GetBlocks
\* and the batches never leave a node further behind. One block is possible: a
\* block one ahead on another fork is ignored.
LagAtMostOne ==
    <>[](\A n, m \in Node :
            Together(n, m) => Len(chain[m]) <= Len(chain[n]) + 1 \/ Oversized(m, n))

\* A node that waits for synchronisation gets it while it is connected, unless
\* its peer has the same chain or has more to send than a message holds: only then
\* does nobody answer GetBlocks.
UnsyncedOnlyAmongEquals ==
    \A n \in Node : \A m \in Node \ {n} :
        (Together(n, m) /\ ~synced[n]
            ~> synced[n] \/ ~Together(n, m) \/ chain[n] = chain[m] \/ Oversized(m, n))

\* A buffered transaction is not forgotten: it is tried again, unless the node
\* stays alone, has the chain of its peer or lacks more than a message holds.
BufferRevisited ==
    \A n \in Node : \A m \in Node \ {n} :
        (Together(n, m) /\ tx_buffer[n] # {}
            ~> \/ tx_buffer[n] = {} \/ ~Together(n, m)
               \/ chain[n] = chain[m] \/ Oversized(m, n))

\* A node two or more blocks behind a peer has news waiting or keeps asking, unless
\* what it lacks does not fit into a message: neither the synchronised flag nor an
\* answer that was dropped when the node was behind even more silences it for good.
NewsOnTheWay ==
    \A n, m \in Node :
        Together(n, m) /\ Len(chain[m]) > Len(chain[n]) + 1 =>
            \/ ~synced[n]
            \/ Oversized(m, n)
            \/ Pending(n, m, {"Established", "Subscribed", "NewBlock", "BlocksBatch"})
            \/ Pending(m, n, {"GetBlocks"})
=============================================================================
