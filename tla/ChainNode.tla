------------------------------ MODULE ChainNode ------------------------------
(***************************************************************************)
(* The lab 3 node, labs/three/node.py class ChainCommunity, with the       *)
(* mining loop of labs/three/chain.py: several nodes that mine, gossip     *)
(* blocks over UDP, walk back to the parents they miss, and reorganise to  *)
(* the longest chain they can assemble.                                    *)
(*                                                                         *)
(* asyncio runs one handler at a time and no handler awaits, so each       *)
(* handler is one action.  The mining loop awaits only its executor: what  *)
(* it snapshots before the await is the variable candidate, and everything *)
(* from the end of the await to the next snapshot is one action.           *)
(***************************************************************************)
EXTENDS Ledger

CONSTANTS
    Node,        \* the members that run this code
    Member,      \* the keys in MEMBER_KEYS
    Server,      \* the holder of SERVER_PUBLIC_KEY
    Miner,       \* the nodes whose search can succeed
    InitPeers,   \* the peers each node has discovered at the start
    Outside,     \* datagrams of the server and of members outside Node
    Reliable,    \* TRUE: each datagram arrives once.  FALSE: it may be lost,
                 \* delivered again, and overtaken
    MaxHeight    \* bound: no node mines above this height

Peer == Member \cup {Server}

\* The payload classes as seen on the wire, with the verified key of the
\* sender.  The hashes a BlockResponse repeats are those of its block.
Message ==
    [type : {"SubmitTransaction"}, src : Peer, dst : Peer, tx : Tx]
    \cup [type : {"SubmitTransactionResponse"}, src : Peer, dst : Peer,
          success : BOOLEAN, tx : Tx]
    \cup [type : {"GetChainHeight"}, src : Peer, dst : Peer]
    \cup [type : {"ChainHeightResponse"}, src : Peer, dst : Peer,
          height : Int, tip_hash : Block]
    \cup [type : {"GetBlock"}, src : Peer, dst : Peer, height : Int]
    \cup [type : {"NewBlock", "BlockResponse"}, src : Peer, dst : Peer,
          height : Int, block : Block]

ASSUME NodeAssumption ==
    /\ Node \subseteq Member
    /\ Server \notin Member
    /\ Miner \subseteq Node
    /\ InitPeers \in [Node -> SUBSET Peer]
    /\ Outside \in SUBSET Message
    /\ \A m \in Outside : m.src \notin Node
    /\ Reliable \in BOOLEAN
    /\ MaxHeight \in Nat

VARIABLES
    chain,      \* self.chain of each node
    pending,    \* self.mempool.pending of each node, the set of its keys
    pool,       \* self._pool: every block received, on the chain or not
    inflight,   \* self._inflight: the parents asked for
    peers,      \* get_peers() of each node
    candidate,  \* prev_hash and tx_hashes the running search was started with
    mined,      \* history: the blocks each node mined itself
    network     \* the datagrams in flight

vars == << chain, pending, pool, inflight, peers, candidate, mined, network >>

\* The mining task is running: its first search extends the genesis block.
Init ==
    /\ chain     = [n \in Node |-> NewChain]
    /\ pending   = [n \in Node |-> {}]
    /\ pool      = [n \in Node |-> {GENESIS}]
    /\ inflight  = [n \in Node |-> {}]
    /\ peers     = InitPeers
    /\ candidate = [n \in Node |-> [prev |-> GENESIS, txs |-> {}]]
    /\ mined     = [n \in Node |-> {}]
    /\ network   = Outside

-----------------------------------------------------------------------------
(* Sending and receiving *)

\* The network after m has been received and the datagrams out were sent.
Handled(m, out) == (IF Reliable THEN network \ {m} ELSE network) \cup out

\* ez_send to a peer resolved with _peer_with_key, which may be unknown.
SendTo(n, p, msg) == IF p \in peers[n] THEN {msg} ELSE {}

\* Mutant of broadcast_block: the height is read before the block landed.
broadcast_early(n, b, h) ==
    {[type |-> "NewBlock", src |-> n, dst |-> p,
      height |-> height(chain[n]), block |-> b] : p \in peers[n] \cap (Member \ {n})}

\* broadcast_block: to every teammate discovered so far.
broadcast_block(n, b, h) ==
    {[type |-> "NewBlock", src |-> n, dst |-> p, height |-> h, block |-> b] :
         p \in peers[n] \cap (Member \ {n})}

\* Mutant of Snapshot: taken before the mined transactions are removed.
SnapshotEarly(n, prev, rest) ==
    \E txs \in take(pending[n]) :
        candidate' = [candidate EXCEPT ![n] = [prev |-> prev, txs |-> txs]]

\* The mining loop's next snapshot, taken from the state it has just left.
Snapshot(n, prev, rest) ==
    \E txs \in take(rest) :
        candidate' = [candidate EXCEPT ![n] = [prev |-> prev, txs |-> txs]]

-----------------------------------------------------------------------------
(* mining_loop *)

\* The search succeeds and the tip has not moved: append, clear the mempool,
\* broadcast, and start on the next block.
MineLands(n) ==
    \E stamp \in GoodStamp :
        LET b    == MinedBlock(candidate[n].prev, candidate[n].txs, stamp)
            c    == apply(chain[n], << b >>)
            rest == remove(pending[n], candidate[n].txs)
        IN  /\ height(chain[n]) < MaxHeight
            /\ CanAppend(chain[n], b)
            /\ chain'   = [chain EXCEPT ![n] = c]
            /\ pending' = [pending EXCEPT ![n] = rest]
            /\ mined'   = [mined EXCEPT ![n] = @ \cup {b}]
            /\ network' = network \cup broadcast_block(n, b, height(c))
            /\ Snapshot(n, c.tip_hash, rest)
            /\ UNCHANGED << pool, inflight, peers >>

\* The search succeeds on a tip that has been replaced: append refuses the
\* block and the loop starts over.
MineStale(n) ==
    /\ \E stamp \in GoodStamp :
           ~ CanAppend(chain[n],
                       MinedBlock(candidate[n].prev, candidate[n].txs, stamp))
    /\ Snapshot(n, chain[n].tip_hash, pending[n])
    /\ UNCHANGED << chain, pending, pool, inflight, peers, mined, network >>

-----------------------------------------------------------------------------
(* The handlers of the server's datagrams *)

on_submit_transaction(n, m) ==
    LET accepted == CanAdd(pending[n], m.tx)
    IN  /\ m.type = "SubmitTransaction"
        /\ m.src = Server
        /\ Server \in peers[n]
        /\ pending' = [pending EXCEPT ![n] = @ \cup (IF accepted THEN {m.tx} ELSE {})]
        /\ network' = Handled(m, {[type |-> "SubmitTransactionResponse",
                                   src |-> n, dst |-> Server,
                                   success |-> accepted, tx |-> m.tx]})
        /\ UNCHANGED << chain, pool, inflight, peers, candidate, mined >>

on_get_chain_height(n, m) ==
    /\ m.type = "GetChainHeight"
    /\ m.src = Server
    /\ Server \in peers[n]
    /\ network' = Handled(m, {[type |-> "ChainHeightResponse",
                               src |-> n, dst |-> Server,
                               height |-> height(chain[n]),
                               tip_hash |-> chain[n].tip_hash]})
    /\ UNCHANGED << chain, pending, pool, inflight, peers, candidate, mined >>

\* Serves the server and the walk back of the other members.
on_get_block(n, m) ==
    LET found == m.height \in DOMAIN chain[n].by_height
        reply == [type |-> "BlockResponse", src |-> n, dst |-> m.src,
                  height |-> m.height, block |-> chain[n].by_height[m.height]]
    IN  /\ m.type = "GetBlock"
        /\ m.src \in Peer
        /\ network' = Handled(m, IF found THEN SendTo(n, m.src, reply) ELSE {})
        /\ UNCHANGED << chain, pending, pool, inflight, peers, candidate, mined >>

-----------------------------------------------------------------------------
(* on_new_block and on_block_response, both through _ingest_block.  One    *)
(* action per outcome of its dispatch.                                     *)

IsBlock(m) == m.type \in {"NewBlock", "BlockResponse"} /\ m.src \in Member

Known(n, b) == b \in chain[n].by_hash \cup pool[n]

IngestKnown(n, m) ==
    /\ IsBlock(m)
    /\ Known(n, m.block)
    /\ network' = Handled(m, {})
    /\ UNCHANGED << chain, pending, pool, inflight, peers, candidate, mined >>

IngestInvalid(n, m) ==
    /\ IsBlock(m)
    /\ ~ Known(n, m.block)
    /\ try_extend(chain[n], m.block) = "INVALID"
    /\ inflight' = [inflight EXCEPT ![n] = @ \ {m.block}]
    /\ network'  = Handled(m, {})
    /\ UNCHANGED << chain, pending, pool, peers, candidate, mined >>

\* _kick_walk_back asks for a parent that is neither asked for nor parked.
NeedsAskingOneAtATime(n, parent) ==   \* mutant: one open request per node
    inflight[n] = {} /\ parent \notin pool[n]

NeedsAsking(n, parent) == parent \notin inflight[n] \cup pool[n]

\* The request it sends to the peer that sent the orphan m.
GetSelf(n, m) ==                      \* mutant: asks for the orphan itself
    [type |-> "GetBlock", src |-> n, dst |-> m.src, height |-> m.height]

GetParent(n, m) ==
    [type |-> "GetBlock", src |-> n, dst |-> m.src, height |-> m.height - 1]

\* NEEDS_PARENT: the block is parked and its parent asked for if need be.
IngestOrphan(n, m) ==
    LET parent == prev_hash(m.block)
        kick   == NeedsAsking(n, parent)
    IN  /\ IsBlock(m)
        /\ ~ Known(n, m.block)
        /\ try_extend(chain[n], m.block) = "NEEDS_PARENT"
        /\ pool'     = [pool EXCEPT ![n] = @ \cup {m.block}]
        /\ inflight' = [inflight EXCEPT ![n] =
                            (@ \ {m.block}) \cup (IF kick THEN {parent} ELSE {})]
        /\ network'  = Handled(m, IF kick THEN SendTo(n, m.src, GetParent(n, m)) ELSE {})
        /\ UNCHANGED << chain, pending, peers, candidate, mined >>

\* EXTENDS_TIP or FORK_BRANCH: the block is kept, the tip is extended from the
\* pool as far as it goes, the longest assembled chain is adopted when it is
\* longer still, and a block that became the tip is gossiped on.
IngestLands(n, m) ==
    LET b      == m.block
        c      == chain[n]
        parked == pool[n] \cup {b}
        status == try_extend(c, b)
        start  == IF status = "EXTENDS_TIP" THEN b ELSE c.tip_hash
    IN  /\ IsBlock(m)
        /\ ~ Known(n, b)
        /\ status \in {"EXTENDS_TIP", "FORK_BRANCH"}
        /\ pool'     = [pool EXCEPT ![n] = parked]
        /\ inflight' = [inflight EXCEPT ![n] = @ \ {b}]
        /\ \E d \in Drains(start, parked) :
               LET drained == apply(c, Path(c.tip_hash, d))
                   landed  == PathTxs(c.tip_hash, d)
               IN  \E final \in Reorgs(drained, parked) :
                       LET adopted == IF final = drained THEN {}
                                      ELSE PathTxs(GENESIS, final.tip_hash)
                           forward == m.type = "NewBlock" /\ final.tip_hash = b
                       IN  /\ chain'   = [chain EXCEPT ![n] = final]
                           /\ pending' = [pending EXCEPT ![n] = remove(@, landed \cup adopted)]
                           /\ network' = Handled(m, IF forward
                                 THEN broadcast_block(n, b, height(final)) ELSE {})
        /\ UNCHANGED << peers, candidate, mined >>

\* The early returns on a sender that is not allowed or, where the handler
\* answers the server, not discovered yet.
Refuse(n, m) ==
    /\ \/ /\ m.type \in {"SubmitTransaction", "GetChainHeight"}
          /\ m.src # Server \/ Server \notin peers[n]
       \/ m.type \in {"NewBlock", "BlockResponse"} /\ m.src \notin Member
    /\ network' = Handled(m, {})
    /\ UNCHANGED << chain, pending, pool, inflight, peers, candidate, mined >>

Receive(n, m) ==
    \/ on_submit_transaction(n, m)
    \/ on_get_chain_height(n, m)
    \/ on_get_block(n, m)
    \/ IngestKnown(n, m)
    \/ IngestInvalid(n, m)
    \/ IngestOrphan(n, m)
    \/ IngestLands(n, m)
    \/ Refuse(n, m)

-----------------------------------------------------------------------------

\* The random walk finds another overlay member; nothing removes a peer.
Discover(n, p) ==
    /\ p \in (Node \cup {Server}) \ (peers[n] \cup {n})
    /\ peers' = [peers EXCEPT ![n] = @ \cup {p}]
    /\ UNCHANGED << chain, pending, pool, inflight, candidate, mined, network >>

Deliver(n) == \E m \in network : m.dst = n /\ Receive(n, m)

Next ==
    \/ \E n \in Miner : MineLands(n) \/ MineStale(n)
    \/ \E n \in Node : Deliver(n)
    \/ \E n \in Node, p \in Peer : Discover(n, p)

Spec == Init /\ [][Next]_vars

\* The event loop runs every handler and every finished search, a search
\* finds a nonce, and (with Reliable) every datagram arrives.
Fairness ==
    /\ \A n \in Miner : WF_vars(MineLands(n)) /\ WF_vars(MineStale(n))
    /\ \A n \in Node : WF_vars(Deliver(n))

FairSpec == Spec /\ Fairness

-----------------------------------------------------------------------------
(* Properties *)

\* Every variable has the type the code gives it.
TypeOK ==
    /\ DOMAIN chain = Node
    /\ \A n \in Node : chain[n].tip_hash \in Block
    /\ pending \in [Node -> SUBSET Tx]
    /\ pool \in [Node -> SUBSET Block]
    /\ inflight \in [Node -> SUBSET Block]
    /\ peers \in [Node -> SUBSET Peer]
    /\ candidate \in [Node -> [prev : Block, txs : SUBSET Tx]]
    /\ mined \in [Node -> SUBSET Block]
    /\ network \in SUBSET Message

\* The four parts of a chain always tell one story: the list is the path from
\* genesis to the tip, by_hash holds exactly its blocks and by_height each of
\* them at its own height, though _apply changes them in place and adopt_fork
\* replaces them; and every block on the path passed validate_block.
OneStory(c) ==
    LET t == c.tip_hash
    IN  /\ c.blocks    = walk_to_genesis(t)
        /\ c.by_hash   = Prefixes(t)
        /\ c.by_height = [h \in 0 .. Len(t) |-> SubSeq(t, 1, h)]

LedgerAgrees ==
    \A n \in Node : OneStory(chain[n]) /\ ValidFromGenesis(chain[n].tip_hash)

\* A tip is only ever replaced by a block of greater height: by append, by
\* try_extend, by the drain or by adopt_fork, and whatever arrives in between.
TipOnlyClimbs ==
    [][\A n \in Node : chain'[n] # chain[n] =>
           Len(chain'[n].tip_hash) > Len(chain[n].tip_hash)]_vars

\* The height a node puts on the wire beside a block or a tip is that block's
\* true height.  The receiver trusts it: a walk back asks for height - 1.
WireHeightsTrue ==
    \A m \in network : m.src \in Node =>
        /\ IsBlock(m) => m.height = Len(m.block)
        /\ m.type = "ChainHeightResponse" => m.height = Len(m.tip_hash)

\* No orphan is left without a way home: a parked block whose parent is
\* neither parked nor on the chain has that parent in _inflight, unless the
\* node mined the parent itself (and reorganised it away), or had it and found
\* it invalid.  And nothing held is still marked as asked for, which would
\* make _kick_walk_back skip a request it needs.
Homeless(n, b) == prev_hash(b) \notin pool[n] \cup chain[n].by_hash

OrphansAskedFor ==
    \A n \in Node :
        /\ inflight[n] \cap pool[n] = {}
        /\ \A b \in pool[n] \ {GENESIS} : Homeless(n, b) =>
               \/ prev_hash(b) \in inflight[n] \cup mined[n]
               \/ prev_hash(b) # GENESIS /\ ~ Sound(prev_hash(b))

\* A search that can still succeed carries only transactions that are still
\* pending: while it ran, no block that landed has included one of them.
\* mining_loop relies on it, as append checks nothing but the parent.
CandidateFresh ==
    \A n \in Node : candidate[n].prev = chain[n].tip_hash =>
        candidate[n].txs \subseteq pending[n]

\* When the chain changes, no transaction of a block that joined it is left
\* pending, whether the block was mined, gossiped, drained or adopted.
AdvanceClearsPending ==
    [][\A n \in Node : \A b \in chain'[n].by_hash \ chain[n].by_hash :
           tx_hashes(b) \cap pending'[n] = {}]_vars

\* The blocks that members outside Node sent, with their ancestors.
Foreign == UNION {Prefixes(m.block) : m \in {o \in Outside : IsBlock(o)}}

\* A transaction submitted once, to one node, is on any chain at most once:
\* through reorganisations, stale searches and blocks relayed by others.
NoDoubleInclusion ==
    \A n \in Node : \A b, e \in chain[n].by_hash \ {GENESIS} :
        b # e => tx_hashes(b) \cap tx_hashes(e) = {}

\* Submitted once: the network repeats nothing, each transaction is submitted
\* to one node, once, and the blocks from outside hold each transaction once
\* and none that is submitted.
NoRepeat(b) ==
    \A h, k \in 1 .. Len(b) : h # k => b[h].txs \cap b[k].txs = {}

Holds(b, tx) == \E h \in 1 .. Len(b) : tx \in b[h].txs

Submission(m) == m.type = "SubmitTransaction"

SubmittedOnce ==
    /\ Reliable
    /\ \A m, o \in Outside :
           Submission(m) /\ Submission(o) /\ m.tx = o.tx => m = o
    /\ \A b \in Foreign : /\ NoRepeat(b)
                          /\ \A m \in Outside : Submission(m) => ~ Holds(b, m.tx)

\* The longest chain rule where the code applies it.  When a received block
\* joins the chain or branches off it, the node ends the handler on a chain at
\* least as long as any it could assemble, unless an invalid orphan sits on
\* the longest of them (only that one is offered to adopt_fork).
Assembled(n) == {b \in pool[n] : Prefixes(b) \subseteq pool[n] \cup chain[n].by_hash}

OnLongest(n) ==
    \A b \in Assembled(n) :
        (\A e \in Assembled(n) : Len(e) >= Len(b) => ValidFromGenesis(e))
        => Len(b) <= Len(chain[n].tip_hash)

LandingAdoptsLongest ==
    [][\A n \in Node :
           (\E b \in pool'[n] \ pool[n] : prev_hash(b) \in chain[n].by_hash)
           => OnLongest(n)']_vars

\* The nodes implement LongestChain: a tip moves by mining on it, or to a
\* strictly longer valid chain of blocks that somebody really made.
AllMined == {GENESIS} \cup Foreign \cup UNION {mined[n] : n \in Node}

Abstract == INSTANCE LongestChain WITH
    tips <- [n \in Node |-> chain[n].tip_hash], published <- AllMined

ImplementsLongestChain == Abstract!Spec

\* With every datagram delivered, a parked block does not stay parked: the
\* walk back reaches the chain and the drain pulls the block in.
NothingStaysParked == \A n \in Node : []<>(pool[n] \subseteq chain[n].by_hash)

\* With every datagram delivered and all nodes discovered, one miner's chain
\* becomes everybody's chain, in whatever order its blocks arrive.
EverybodyCatchesUp ==
    <>[](\A n, p \in Node : chain[n].tip_hash = chain[p].tip_hash)

-----------------------------------------------------------------------------
(* What the repository says of the code and the code does not do.          *)

\* README.md:108, "_try_drain_and_reorg runs both extend-from-pool and
\* longest-chain-scan on every ingest": after a block was ingested, no valid
\* chain the node can assemble is longer than the one it is on.
EveryIngestScans ==
    [][\A n \in Node : pool'[n] # pool[n] =>
           \A b \in Assembled(n)' :
               ValidFromGenesis(b) => Len(b) <= Len(chain'[n].tip_hash)]_vars

=============================================================================
