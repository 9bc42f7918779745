--------------------------- MODULE ChainNodeHistory ---------------------------
(***************************************************************************)
(* Theorems of ChainNode about where blocks and transactions have been:    *)
(* every block held was made by somebody, with all its ancestors; what a   *)
(* search carries, what waits for a parent and what was mined before stay  *)
(* in step with the chain; and the nodes implement LongestChain.           *)
(***************************************************************************)
EXTENDS ChainNodeProofs

-----------------------------------------------------------------------------
(* The inductive invariants *)

\* Every block on a chain, in a side pool or in a block datagram was mined by
\* a node or sent from outside, and so were all its ancestors.
Provenance ==
    /\ \A n \in Node : pool[n] \subseteq AllMined
    /\ \A n \in Node : Prefixes(chain[n].tip_hash) \subseteq AllMined
    /\ \A m \in network : IsBlock(m) => m.block \in AllMined
    /\ \A b \in AllMined : Prefixes(b) \subseteq AllMined

\* A search was started at or below the present tip, and CandidateFresh.
SearchInv ==
    \A n \in Node :
        /\ Len(candidate[n].prev) <= Len(chain[n].tip_hash)
        /\ candidate[n].prev = chain[n].tip_hash => candidate[n].txs \subseteq pending[n]

\* A chain is made of blocks the node mined or keeps in its pool, so that a
\* block is never lost with the branch it was on; and OrphansAskedFor.
OrphanInv ==
    /\ \A n \in Node : Prefixes(chain[n].tip_hash) \subseteq pool[n] \cup mined[n]
    /\ OrphansAskedFor

History == Provenance /\ SearchInv /\ OrphanInv

HistoryInv == Inv /\ History

\* A transaction that was not mined yet is in one place, the datagram that
\* submits it or one node's mempool, and no block that exists holds it; and no
\* block that exists holds a transaction twice.
OnceInv ==
    /\ \A m, o \in network : Submission(m) /\ Submission(o) /\ m.tx = o.tx => m = o
    /\ \A m \in network, n \in Node : Submission(m) => m.tx \notin pending[n]
    /\ \A n, p \in Node : n # p => pending[n] \cap pending[p] = {}
    /\ \A b \in AllMined :
           /\ NoRepeat(b)
           /\ \A m \in network : Submission(m) => ~ Holds(b, m.tx)
           /\ \A n \in Node : \A tx \in pending[n] : ~ Holds(b, tx)

-----------------------------------------------------------------------------
(* Blocks that exist *)

\* What exists are blocks, GENESIS among them.
LEMMA AllMinedFacts ==
    ASSUME NodeAssumption, TypeOK
    PROVE  AllMined \subseteq Block /\ GENESIS \in AllMined
<1>1. Foreign \subseteq Block
  <2>1. ASSUME NEW m \in Outside, IsBlock(m)
        PROVE  Prefixes(m.block) \subseteq Block
    <3>1. m.block \in Block
      BY <2>1, BlockMessage DEF NodeAssumption
    <3> QED  BY <3>1, PrefixesFacts
  <2> QED  BY <2>1 DEF Foreign
<1>2. UNION {mined[n] : n \in Node} \subseteq Block
  BY DEF TypeOK
<1> QED  BY <1>1, <1>2, GenesisBlock DEF AllMined

\* Only mining makes blocks.
LEMMA NothingMade ==
    ASSUME mined' = mined
    PROVE  AllMined' = AllMined
  BY DEF AllMined

\* Mining b makes b.
LEMMA OneMade ==
    ASSUME TypeOK, NEW n \in Node, NEW b, mined' = [mined EXCEPT ![n] = @ \cup {b}]
    PROVE  AllMined' = AllMined \cup {b}
<1>1. \A p \in Node : mined'[p] = IF p = n THEN mined[p] \cup {b} ELSE mined[p]
  BY DEF TypeOK
<1> DEFINE made  == UNION {mined[p] : p \in Node}
           made2 == UNION {mined'[p] : p \in Node}
<1>2. \A e : e \in made2 <=> \E p \in Node : e \in mined'[p]
  OBVIOUS
<1>3. \A e : e \in made <=> \E p \in Node : e \in mined[p]
  OBVIOUS
<1>4. AllMined = {GENESIS} \cup Foreign \cup made /\ AllMined' = {GENESIS} \cup Foreign \cup made2
  BY DEF AllMined
<1> HIDE DEF made, made2
<1>5. made2 = made \cup {b}
  BY <1>1, <1>2, <1>3
<1> QED  BY <1>4, <1>5

\* What a mined block b amounts to: it extends the tip t of its miner.
Mining(n, stamp, b) ==
    LET t == chain[n].tip_hash
    IN  /\ b = MinedBlock(t, candidate[n].txs, stamp)
        /\ candidate[n].prev = t
        /\ Prefixes(b) = Prefixes(t) \cup {b}
        /\ Len(b) = Len(t) + 1 /\ Len(t) \in Nat
        /\ chain' = [chain EXCEPT ![n] = ChainOf(b)]
        /\ pending' = [pending EXCEPT ![n] = remove(@, candidate[n].txs)]
        /\ mined' = [mined EXCEPT ![n] = @ \cup {b}]
        /\ network' = network \cup broadcast_block(n, b, Len(b))
        /\ Snapshot(n, b, pending'[n])
        /\ UNCHANGED << pool, inflight, peers >>

LEMMA MineOutcome ==
    ASSUME LedgerAssumption, NodeAssumption, Inv, NEW n \in Miner, MineLands(n)
    PROVE  \E stamp \in GoodStamp, b \in Block : Mining(n, stamp, b)
<1> USE DEF Inv
<1> DEFINE t == chain[n].tip_hash
<1>0. n \in Node
  BY DEF NodeAssumption
<1>1. PICK stamp \in GoodStamp :
        LET b    == MinedBlock(candidate[n].prev, candidate[n].txs, stamp)
            c    == apply(chain[n], << b >>)
            rest == remove(pending[n], candidate[n].txs)
        IN  /\ CanAppend(chain[n], b)
            /\ chain'   = [chain EXCEPT ![n] = c]
            /\ pending' = [pending EXCEPT ![n] = rest]
            /\ mined'   = [mined EXCEPT ![n] = @ \cup {b}]
            /\ network' = network \cup broadcast_block(n, b, height(c))
            /\ Snapshot(n, c.tip_hash, rest)
            /\ UNCHANGED << pool, inflight, peers >>
  BY DEF MineLands
<1> DEFINE b == MinedBlock(candidate[n].prev, candidate[n].txs, stamp)
<1>2. /\ b \in Block /\ apply(chain[n], << b >>) = ChainOf(b)
      /\ candidate[n].prev = t /\ Len(b) = Len(t) + 1
  BY <1>0, <1>1, MineClimbs
<1>3. Prefixes(b) = Prefixes(t) \cup {b} /\ b = MinedBlock(t, candidate[n].txs, stamp)
  <2>1. /\ candidate[n].prev \in Block /\ candidate[n].txs \in SUBSET Tx
        /\ stamp \in Stamp
    BY <1>0 DEF TypeOK, LedgerAssumption
  <2> QED  BY <1>2, <2>1, MinedPrefixes
<1>4. ChainOf(b).tip_hash = b /\ height(ChainOf(b)) = Len(b)
  BY <1>2, ChainOfFacts
<1>5. Len(t) \in Nat
  BY <1>0, ChainInvFacts
<1>6. pending'[n] = remove(pending[n], candidate[n].txs)
  BY <1>0, <1>1 DEF TypeOK
<1> HIDE DEF b, t
<1>7. /\ chain' = [chain EXCEPT ![n] = ChainOf(b)]
      /\ network' = network \cup broadcast_block(n, b, Len(b))
      /\ Snapshot(n, b, pending'[n])
  BY <1>1, <1>2, <1>4, <1>6 DEF b
<1>8. Mining(n, stamp, b)
  BY <1>1, <1>2, <1>3, <1>5, <1>7 DEF Mining, b, t
<1> QED  BY <1>2, <1>8

\* What a landing amounts to: the tip t climbs to d through the pool, and from
\* there, or not, to a longer chain f that the node can assemble.
Landing(n, b, d, f) ==
    LET t      == chain[n].tip_hash
        parked == pool[n] \cup {b}
    IN  /\ IsPrefix(t, d) /\ ValidFromGenesis(f)
        /\ f = d \/ Len(f) > Len(d)
        /\ Prefixes(f) \subseteq parked \cup Prefixes(t)
        /\ ChainOf(f) \in Reorgs(ChainOf(d), parked)
        /\ chain' = [chain EXCEPT ![n] = ChainOf(f)]
        /\ pending' = [pending EXCEPT ![n] =
               remove(@, PathTxs(t, d) \cup (IF f = d THEN {} ELSE PathTxs(GENESIS, f)))]
        /\ pool' = [pool EXCEPT ![n] = parked]
        /\ inflight' = [inflight EXCEPT ![n] = @ \ {b}]
        /\ \A q \in network' : q \in network \/ (q.type = "NewBlock" /\ q.block = b)
        /\ UNCHANGED << peers, candidate, mined >>

LEMMA LandOutcome ==
    ASSUME NodeAssumption, Inv, NEW n \in Node, NEW m \in network,
           IngestLands(n, m)
    PROVE  \E d, f \in Block : Landing(n, m.block, d, f)
<1> USE DEF Inv
<1> DEFINE b      == m.block
           t      == chain[n].tip_hash
           parked == pool[n] \cup {b}
           Ends(start, d, final, out) ==
             /\ \/ start = t
                \/ start = b /\ validate_block(b, t)
             /\ chain' = [chain EXCEPT ![n] = final]
             /\ pending' = [pending EXCEPT ![n] = remove(@, Cleared(chain[n], d, final))]
             /\ out \subseteq (IF final.tip_hash = b
                               THEN broadcast_block(n, b, height(final))
                               ELSE {})
             /\ network' = Handled(m, out)
           From(start, d) == Reorgs(apply(chain[n], Path(t, d)), parked)
<1>1. b \in Block
  BY LandsFacts
<1>2. PICK start \in Block : \E d \in Drains(start, parked) :
        \E final \in From(start, d) : \E out : Ends(start, d, final, out)
  BY LandsFacts
<1>3. PICK d \in Drains(start, parked) :
        \E final \in From(start, d) : \E out : Ends(start, d, final, out)
  BY <1>2
<1>4. PICK final \in From(start, d) : \E out : Ends(start, d, final, out)
  BY <1>3
<1>5. /\ d \in Block /\ IsPrefix(t, d) /\ ValidFromGenesis(d)
      /\ apply(chain[n], Path(t, d)) = ChainOf(d)
      /\ \A h \in Len(t) + 1 .. Len(d) : SubSeq(d, 1, h) \in parked
  BY <1>1, <1>4, LandDrains
<1>6. t \in Block /\ parked \in SUBSET Block
  BY <1>1, ChainInvFacts DEF TypeOK
<1> HIDE DEF t, parked
<1>7. Prefixes(d) \subseteq parked \cup Prefixes(t)
  <2>1. Prefixes(d) = Prefixes(t) \cup {SubSeq(d, 1, h) : h \in Len(t) + 1 .. Len(d)}
    BY <1>5, <1>6, PrefixesAbove
  <2> QED  BY <1>5, <2>1
<1>8. final \in Reorgs(ChainOf(d), parked)
  BY <1>4, <1>5
<1>9. PICK f \in Block :
        /\ final = ChainOf(f) /\ ValidFromGenesis(f)
        /\ f = d \/ Len(f) > Len(d)
        /\ Prefixes(f) \subseteq parked \cup Prefixes(d)
  BY <1>5, <1>6, <1>8, ReorgFacts
<1>10. final = ChainOf(d) <=> f = d
  BY <1>9 DEF ChainOf
<1>11. final.tip_hash = f
  BY <1>9, ChainOfFacts
<1>12. Cleared(chain[n], d, final) =
          PathTxs(t, d) \cup (IF f = d THEN {} ELSE PathTxs(GENESIS, f))
  BY <1>5, <1>10, <1>11 DEF Cleared, t
<1>13. /\ pool' = [pool EXCEPT ![n] = parked]
       /\ inflight' = [inflight EXCEPT ![n] = @ \ {b}]
       /\ UNCHANGED << peers, candidate, mined >>
  BY LandsFacts DEF parked, TypeOK
<1>14. \A q \in network' : q \in network \/ (q.type = "NewBlock" /\ q.block = b)
  <2>1. PICK out : Ends(start, d, final, out)
    BY <1>4
  <2>2. \A q \in out : q.type = "NewBlock" /\ q.block = b
    BY <2>1 DEF broadcast_block
  <2> QED  BY <2>1, <2>2, HandledFacts
<1>15. Landing(n, b, d, f)
  BY <1>4, <1>5, <1>7, <1>8, <1>9, <1>12, <1>13, <1>14 DEF Landing, t, parked
<1> QED  BY <1>5, <1>15

-----------------------------------------------------------------------------
(* Every step preserves the history *)

\* A block found by the search exists from then on, on the chain of its miner,
\* and the next search starts from it with what is pending.
LEMMA MineLandsHistory ==
    ASSUME LedgerAssumption, NodeAssumption, HistoryInv, NEW n \in Miner, MineLands(n)
    PROVE  History'
<1> USE DEF HistoryInv, History, Inv
<1>0. n \in Node
  BY DEF NodeAssumption
<1> DEFINE t == chain[n].tip_hash
<1>1. PICK b \in Block : \E stamp \in GoodStamp : Mining(n, stamp, b)
  BY MineOutcome
<1>a. /\ Prefixes(b) = Prefixes(t) \cup {b}
      /\ Len(b) = Len(t) + 1 /\ Len(t) \in Nat
      /\ chain' = [chain EXCEPT ![n] = ChainOf(b)]
      /\ pending' = [pending EXCEPT ![n] = remove(@, candidate[n].txs)]
      /\ mined' = [mined EXCEPT ![n] = @ \cup {b}]
      /\ network' = network \cup broadcast_block(n, b, Len(b))
      /\ Snapshot(n, b, pending'[n])
      /\ UNCHANGED << pool, inflight, peers >>
  BY <1>1 DEF Mining
<1>2. ChainOf(b).tip_hash = b /\ ChainOf(b).by_hash = Prefixes(b)
  BY ChainOfFacts
<1>3. /\ DOMAIN chain = Node /\ DOMAIN pending = Node /\ DOMAIN mined = Node
      /\ DOMAIN candidate = Node
  BY DEF TypeOK
<1>4. \A p \in Node : chain'[p].tip_hash = IF p = n THEN b ELSE chain[p].tip_hash
  BY <1>0, <1>a, <1>2, <1>3
<1>5. AllMined' = AllMined \cup {b}
  BY <1>0, <1>a, OneMade
<1>6. Provenance'
  <2>1. \A m \in network' : IsBlock(m) => m \in network \/ m.block = b
    BY <1>a DEF broadcast_block
  <2>2. \A p \in Node : Prefixes(chain'[p].tip_hash) \subseteq AllMined \cup {b}
    BY <1>0, <1>a, <1>4 DEF Provenance
  <2>3. \A e \in AllMined \cup {b} : Prefixes(e) \subseteq AllMined \cup {b}
    BY <1>0, <1>a DEF Provenance
  <2>4. \A m \in network' : IsBlock(m) => m.block \in AllMined \cup {b}
    BY <2>1 DEF Provenance
  <2> QED  BY <1>a, <1>5, <2>2, <2>3, <2>4 DEF Provenance, IsBlock
<1>7. SearchInv'
  <2>1. PICK txs \in take(pending'[n]) :
          candidate' = [candidate EXCEPT ![n] = [prev |-> b, txs |-> txs]]
    BY <1>a DEF Snapshot
  <2>2. txs \subseteq pending'[n]
    BY <2>1, TakeFacts
  <2>3. /\ candidate'[n].prev = b /\ candidate'[n].txs \subseteq pending'[n]
        /\ Len(b) <= Len(b)
    BY <1>0, <1>a, <1>3, <2>1, <2>2
  <2>4. \A p \in Node \ {n} :
            candidate'[p] = candidate[p] /\ pending'[p] = pending[p]
    BY <1>a, <1>3, <2>1
  <2> QED  BY <1>4, <2>3, <2>4 DEF SearchInv
<1>8. OrphanInv'
  <2>1. \A p \in Node : mined[p] \subseteq mined'[p]
    BY <1>a, <1>3
  <2>2. b \in mined'[n]
    BY <1>0, <1>a, <1>3
  <2>3. \A p \in Node : Prefixes(chain'[p].tip_hash) \subseteq pool[p] \cup mined'[p]
    BY <1>0, <1>a, <1>4, <2>1, <2>2 DEF OrphanInv
  <2>4. \A p \in Node : chain[p].by_hash \subseteq chain'[p].by_hash
    <3>1. chain[n].by_hash = Prefixes(t)
      BY <1>0, ChainInvFacts
    <3> QED  BY <1>0, <1>a, <1>2, <1>3, <3>1
  <2>5. OrphansAskedFor'
    BY <1>a, <2>1, <2>4 DEF OrphanInv, OrphansAskedFor, Homeless
  <2> QED  BY <1>a, <2>3, <2>5 DEF OrphanInv
<1> QED  BY <1>6, <1>7, <1>8

\* The steps that leave the chains, the pools and the requests alone, and send
\* no block.
LEMMA QuietHistory ==
    ASSUME NodeAssumption, HistoryInv,
           UNCHANGED << chain, pool, inflight, mined >>,
           \A m \in network' : IsBlock(m) => m \in network,
           \A p \in Node : /\ pending[p] \subseteq pending'[p]
                          /\ \/ candidate'[p] = candidate[p]
                             \/ /\ Len(candidate'[p].prev) <= Len(chain[p].tip_hash)
                                /\ candidate'[p].txs \subseteq pending'[p]
    PROVE  History'
<1> USE DEF HistoryInv, History
<1>1. AllMined' = AllMined
  BY NothingMade
<1>2. Provenance'
  BY <1>1 DEF Provenance, IsBlock
<1>3. SearchInv'
  BY DEF SearchInv
<1>4. OrphanInv'
  BY DEF OrphanInv, OrphansAskedFor, Homeless
<1> QED  BY <1>2, <1>3, <1>4

\* The refused search, the server's datagrams, discovery, and the blocks that
\* are known or not accepted.
LEMMA OtherHistory ==
    ASSUME NodeAssumption, HistoryInv,
           \/ \E n \in Miner : MineStale(n)
           \/ \E n \in Node, m \in network :
                  \/ on_submit_transaction(n, m) \/ on_get_chain_height(n, m)
                  \/ IngestKnown(n, m) \/ Refuse(n, m)
           \/ \E n \in Node, p \in Peer : Discover(n, p)
    PROVE  History'
<1> USE DEF HistoryInv, Inv
<1>1. CASE \E n \in Miner : MineStale(n)
  <2>1. PICK n \in Miner : MineStale(n)
    BY <1>1
  <2>2. PICK txs \in take(pending[n]) :
            candidate' = [candidate EXCEPT ![n] =
                              [prev |-> chain[n].tip_hash, txs |-> txs]]
    BY <2>1 DEF MineStale, Snapshot
  <2>3. txs \subseteq pending[n]
    BY <2>2, TakeFacts
  <2>4. UNCHANGED << chain, pending, pool, inflight, peers, mined, network >>
    BY <2>1 DEF MineStale
  <2>5. n \in Node /\ Len(chain[n].tip_hash) \in Nat
    BY ChainInvFacts DEF NodeAssumption
  <2>6. \A p \in Node : candidate'[p] = IF p = n THEN [prev |-> chain[n].tip_hash, txs |-> txs]
                                      ELSE candidate[p]
    BY <2>2 DEF TypeOK
  <2>7. \A p \in Node :
            \/ candidate'[p] = candidate[p]
            \/ /\ Len(candidate'[p].prev) <= Len(chain[p].tip_hash)
               /\ candidate'[p].txs \subseteq pending'[p]
    BY <2>3, <2>4, <2>5, <2>6
  <2> QED  BY <2>4, <2>7, QuietHistory
<1>2. CASE \E n \in Node, m \in network : on_submit_transaction(n, m)
  <2>1. PICK n \in Node, m \in network : on_submit_transaction(n, m)
    BY <1>2
  <2> DEFINE r == [type |-> "SubmitTransactionResponse", src |-> n, dst |-> Server,
                   success |-> CanAdd(pending[n], m.tx), tx |-> m.tx]
  <2>2. network' = Handled(m, {r}) /\ ~ IsBlock(r)
    BY <2>1 DEF on_submit_transaction, IsBlock
  <2> HIDE DEF r
  <2>3. \A q \in network' : IsBlock(q) => q \in network
    BY <2>2, HandledFacts
  <2>4. /\ \A p \in Node : pending[p] \subseteq pending'[p]
        /\ UNCHANGED << chain, pool, inflight, candidate, mined >>
    BY <2>1 DEF on_submit_transaction, TypeOK
  <2> QED  BY <2>3, <2>4, QuietHistory
<1>3. CASE \E n \in Node, m \in network : on_get_chain_height(n, m)
  <2>1. PICK n \in Node, m \in network : on_get_chain_height(n, m)
    BY <1>3
  <2> DEFINE r == [type |-> "ChainHeightResponse", src |-> n, dst |-> Server,
                   height |-> height(chain[n]), tip_hash |-> chain[n].tip_hash]
  <2>2. network' = Handled(m, {r}) /\ ~ IsBlock(r)
    BY <2>1 DEF on_get_chain_height, IsBlock
  <2> HIDE DEF r
  <2>3. \A q \in network' : IsBlock(q) => q \in network
    BY <2>2, HandledFacts
  <2>4. UNCHANGED << chain, pending, pool, inflight, candidate, mined >>
    BY <2>1 DEF on_get_chain_height
  <2> QED  BY <2>3, <2>4, QuietHistory
<1>4. CASE \E n \in Node, m \in network : IngestKnown(n, m) \/ Refuse(n, m)
  <2>1. /\ \E m : network' = Handled(m, {})
        /\ UNCHANGED << chain, pending, pool, inflight, candidate, mined >>
    BY <1>4 DEF IngestKnown, Refuse
  <2>2. network' \subseteq network
    BY <2>1, HandledFacts
  <2> QED  BY <2>1, <2>2, QuietHistory
<1>5. CASE \E n \in Node, p \in Peer : Discover(n, p)
  <2>1. UNCHANGED << chain, pending, pool, inflight, candidate, mined, network >>
    BY <1>5 DEF Discover
  <2> QED  BY <2>1, QuietHistory
<1> QED  BY <1>1, <1>2, <1>3, <1>4, <1>5

\* on_get_block sends a block of the node's chain.
LEMMA GetBlockHistory ==
    ASSUME NodeAssumption, HistoryInv, NEW n \in Node, NEW m \in network,
           on_get_block(n, m)
    PROVE  History'
<1> USE DEF HistoryInv, History, Inv
<1> DEFINE t     == chain[n].tip_hash
           found == m.height \in DOMAIN chain[n].by_height
           r     == [type |-> "BlockResponse", src |-> n, dst |-> m.src,
                     height |-> m.height, block |-> chain[n].by_height[m.height]]
           out   == IF found THEN SendTo(n, m.src, r) ELSE {}
<1>1. network' = Handled(m, out)
  BY DEF on_get_block
<1>2. UNCHANGED << chain, pending, pool, inflight, candidate, mined >>
  BY DEF on_get_block
<1>3. ASSUME found PROVE r.block \in Prefixes(t)
  <2>1. /\ chain[n] = ChainOf(t) /\ DOMAIN chain[n].by_height = 0 .. Len(t)
    BY ChainInvFacts
  <2>2. m.height \in 0 .. Len(t)
    BY <1>3, <2>1
  <2>3. chain[n].by_height[m.height] = SubSeq(t, 1, m.height)
    BY <2>1, <2>2 DEF ChainOf
  <2> QED  BY <2>2, <2>3 DEF Prefixes
<1>4. \A q \in out : found /\ q = r
  BY DEF SendTo
<1> HIDE DEF out, r
<1>5. \A q \in network' : q \in network \/ q.block \in Prefixes(t)
  BY <1>1, <1>3, <1>4, HandledFacts
<1>6. AllMined' = AllMined
  BY <1>2, NothingMade
<1>7. Provenance'
  <2>1. Prefixes(t) \subseteq AllMined
    BY DEF Provenance
  <2> QED  BY <1>2, <1>5, <1>6, <2>1 DEF Provenance, IsBlock
<1>8. SearchInv'
  BY <1>2 DEF SearchInv
<1>9. OrphanInv'
  BY <1>2 DEF OrphanInv, OrphansAskedFor, Homeless
<1> QED  BY <1>7, <1>8, <1>9

\* A block that reaches _ingest_block and is not known is not the genesis block.
LEMMA UnknownFacts ==
    ASSUME NodeAssumption, Inv, NEW n \in Node, NEW m \in network,
           IsBlock(m), ~ Known(n, m.block)
    PROVE  /\ m.block \in Block /\ m.block # GENESIS
           /\ m.block \notin pool[n] /\ m.block \notin chain[n].by_hash
           /\ prev_hash(m.block) \in Block /\ prev_hash(m.block) # m.block
<1> USE DEF Inv
<1>1. m.block \in Block
  BY BlockMessage DEF TypeOK
<1>2. GENESIS \in chain[n].by_hash
  <2>1. chain[n].by_hash = Prefixes(chain[n].tip_hash) /\ chain[n].tip_hash \in Block
    BY ChainInvFacts
  <2> QED  BY <2>1, PrefixesFacts
<1>3. m.block # GENESIS
  BY <1>2 DEF Known
<1>4. /\ prev_hash(m.block) \in Block
      /\ Len(prev_hash(m.block)) = Len(m.block) - 1 /\ Len(m.block) \in Nat
  BY <1>1, <1>3, ParentFacts
<1>5. prev_hash(m.block) # m.block
  BY <1>4
<1> QED  BY <1>1, <1>3, <1>4, <1>5 DEF Known

\* A refused block is no longer asked for, and it is refused for itself.
LEMMA InvalidHistory ==
    ASSUME NodeAssumption, HistoryInv, NEW n \in Node, NEW m \in network,
           IngestInvalid(n, m)
    PROVE  History'
<1> USE DEF HistoryInv, History, Inv
<1> DEFINE b == m.block
<1>1. /\ network' = Handled(m, {})
      /\ inflight' = [inflight EXCEPT ![n] = @ \ {b}]
      /\ UNCHANGED << chain, pending, pool, peers, candidate, mined >>
      /\ IsBlock(m) /\ ~ Known(n, b) /\ try_extend(chain[n], b) = "INVALID"
  BY DEF IngestInvalid
<1>2. b # GENESIS /\ b \notin chain[n].by_hash
  BY <1>1, UnknownFacts
<1>3. ~ Sound(b)
  <2>1. tip(chain[n]) = chain[n].tip_hash
    BY ChainInvFacts
  <2>2. CASE prev_hash(b) = chain[n].tip_hash
    BY <1>1, <1>2, <2>1, <2>2 DEF try_extend, validate_block
  <2>3. CASE prev_hash(b) # chain[n].tip_hash
    BY <1>1, <1>2, <2>3 DEF try_extend, validate_block
  <2> QED  BY <2>2, <2>3
<1> HIDE DEF b
<1>4. network' \subseteq network /\ AllMined' = AllMined
  BY <1>1, HandledFacts, NothingMade
<1>5. Provenance'
  BY <1>1, <1>4 DEF Provenance, IsBlock
<1>6. SearchInv'
  BY <1>1 DEF SearchInv
<1>7. OrphanInv'
  <2>1. \A p \in Node : /\ inflight'[p] \subseteq inflight[p]
                        /\ inflight[p] \subseteq inflight'[p] \cup {b}
    BY <1>1 DEF TypeOK
  <2>2. OrphansAskedFor'
    BY <1>1, <1>2, <1>3, <2>1 DEF OrphanInv, OrphansAskedFor, Homeless
  <2> QED  BY <1>1, <2>2 DEF OrphanInv
<1> QED  BY <1>5, <1>6, <1>7

\* An orphan is parked with its parent asked for, or held, or asked for before.
LEMMA OrphanHistory ==
    ASSUME NodeAssumption, HistoryInv, NEW n \in Node, NEW m \in network,
           IngestOrphan(n, m)
    PROVE  History'
<1> USE DEF HistoryInv, History, Inv
<1> DEFINE b      == m.block
           parent == prev_hash(b)
           kick   == NeedsAsking(n, parent)
           out    == IF kick THEN SendTo(n, m.src, GetParent(n, m)) ELSE {}
<1>1. /\ network' = Handled(m, out)
      /\ pool' = [pool EXCEPT ![n] = @ \cup {b}]
      /\ inflight' = [inflight EXCEPT ![n] = (@ \ {b}) \cup (IF kick THEN {parent} ELSE {})]
      /\ UNCHANGED << chain, pending, peers, candidate, mined >>
      /\ IsBlock(m) /\ ~ Known(n, b)
  BY DEF IngestOrphan
<1>2. /\ b \in Block /\ b # GENESIS /\ b \notin pool[n]
      /\ parent # b
  BY <1>1, UnknownFacts
<1>3. \A q \in network' : IsBlock(q) => q \in network
  <2>1. \A q \in out : ~ IsBlock(q)
    BY DEF SendTo, GetParent, IsBlock
  <2> HIDE DEF out
  <2> QED  BY <1>1, <2>1, HandledFacts
<1>4. kick <=> parent \notin inflight[n] \cup pool[n]
  BY DEF NeedsAsking
<1>5. /\ pool'[n] = pool[n] \cup {b}
      /\ inflight'[n] = (inflight[n] \ {b}) \cup (IF kick THEN {parent} ELSE {})
      /\ \A p \in Node \ {n} : pool'[p] = pool[p] /\ inflight'[p] = inflight[p]
  BY <1>1 DEF TypeOK
<1> HIDE DEF out, kick
<1>6. AllMined' = AllMined
  BY <1>1, NothingMade
<1>7. Provenance'
  <2>1. b \in AllMined
    BY <1>1 DEF Provenance
  <2>2. \A p \in Node : pool'[p] \subseteq AllMined
    BY <1>5, <2>1 DEF Provenance
  <2> QED  BY <1>1, <1>3, <1>6, <2>2 DEF Provenance, IsBlock
<1>8. SearchInv'
  BY <1>1 DEF SearchInv
<1>9. OrphanInv'
  <2>1. \A p \in Node : inflight'[p] \cap pool'[p] = {}
    <3>1. inflight[n] \cap pool[n] = {} /\ \A p \in Node : inflight[p] \cap pool[p] = {}
      BY DEF OrphanInv, OrphansAskedFor
    <3> HIDE DEF parent, b
    <3> QED  BY <1>2, <1>4, <1>5, <3>1
  <2>2. ASSUME NEW p \in Node, NEW e \in pool'[p] \ {GENESIS}, Homeless(p, e)'
        PROVE  \/ prev_hash(e) \in inflight'[p] \cup mined'[p]
               \/ prev_hash(e) # GENESIS /\ ~ Sound(prev_hash(e))
    <3>1. prev_hash(e) \notin pool'[p] /\ prev_hash(e) \notin chain[p].by_hash
      BY <1>1, <2>2 DEF Homeless
    <3>2. CASE p = n /\ e = b
      BY <1>2, <1>4, <1>5, <3>1, <3>2
    <3>3. CASE p # n \/ e # b
      <4>1. e \in pool[p] /\ prev_hash(e) \notin pool[p]
        BY <1>5, <3>1, <3>3
      <4>2. \/ prev_hash(e) \in inflight[p] \cup mined[p]
            \/ prev_hash(e) # GENESIS /\ ~ Sound(prev_hash(e))
        BY <2>2, <3>1, <4>1 DEF OrphanInv, OrphansAskedFor, Homeless
      <4>3. prev_hash(e) \in inflight[p] => prev_hash(e) \in inflight'[p]
        BY <1>5, <3>1
      <4> QED  BY <1>1, <4>2, <4>3
    <3> QED  BY <3>2, <3>3
  <2>3. \A p \in Node : Prefixes(chain'[p].tip_hash) \subseteq pool'[p] \cup mined'[p]
    BY <1>1, <1>5 DEF OrphanInv
  <2> QED  BY <2>1, <2>2, <2>3 DEF OrphanInv, OrphansAskedFor
<1> QED  BY <1>7, <1>8, <1>9

\* A landing moves the chain within what the node holds, and past every search
\* that was running unless the chain did not move.
LEMMA LandsHistory ==
    ASSUME NodeAssumption, HistoryInv, NEW n \in Node, NEW m \in network,
           IngestLands(n, m)
    PROVE  History'
<1> USE DEF HistoryInv, History, Inv
<1> DEFINE b == m.block
           t == chain[n].tip_hash
           parked == pool[n] \cup {b}
<1>1. PICK d \in Block, f \in Block : Landing(n, b, d, f)
  BY LandOutcome
<1> DEFINE gone == PathTxs(t, d) \cup (IF f = d THEN {} ELSE PathTxs(GENESIS, f))
<1>2. /\ IsPrefix(t, d) /\ (f = d \/ Len(f) > Len(d))
      /\ Prefixes(f) \subseteq parked \cup Prefixes(t)
      /\ chain' = [chain EXCEPT ![n] = ChainOf(f)]
      /\ pending' = [pending EXCEPT ![n] = remove(@, gone)]
      /\ pool' = [pool EXCEPT ![n] = parked]
      /\ inflight' = [inflight EXCEPT ![n] = @ \ {b}]
      /\ \A q \in network' : q \in network \/ (q.type = "NewBlock" /\ q.block = b)
      /\ UNCHANGED << peers, candidate, mined >>
  BY <1>1 DEF Landing
<1>3. /\ IsBlock(m) /\ ~ Known(n, b)
      /\ prev_hash(b) \in chain[n].by_hash
  BY LandsFacts DEF IngestLands
<1>4. chain[n].by_hash = Prefixes(t) /\ t \in Block
  BY ChainInvFacts
<1> HIDE DEF t, gone
<1>5. ChainOf(f).tip_hash = f /\ ChainOf(f).by_hash = Prefixes(f)
  BY ChainOfFacts
<1>6. /\ chain'[n] = ChainOf(f) /\ pool'[n] = parked
      /\ inflight'[n] = inflight[n] \ {b} /\ pending'[n] = pending[n] \ gone
      /\ \A p \in Node \ {n} :
             /\ chain'[p] = chain[p] /\ pool'[p] = pool[p]
             /\ inflight'[p] = inflight[p] /\ pending'[p] = pending[p]
  BY <1>2 DEF TypeOK, remove
<1>7. Provenance'
  <2>1. AllMined' = AllMined /\ b \in AllMined
    BY <1>2, <1>3, NothingMade DEF Provenance
  <2>2. parked \subseteq AllMined /\ Prefixes(t) \subseteq AllMined
    BY <2>1 DEF Provenance, t
  <2>3. \A p \in Node : /\ pool'[p] \subseteq AllMined
                        /\ Prefixes(chain'[p].tip_hash) \subseteq AllMined
    BY <1>2, <1>5, <1>6, <2>2 DEF Provenance
  <2> QED  BY <1>2, <2>1, <2>3 DEF Provenance, IsBlock
<1>8. SearchInv'
  <2>1. /\ Len(t) \in 0 .. Len(d) /\ t = SubSeq(d, 1, Len(t))
        /\ SubSeq(d, 1, Len(d)) = d /\ Len(d) \in Nat /\ Len(f) \in Nat
    BY <1>2, <1>4, PrefixIsAncestor, WholeBlock
  <2>2. Len(t) <= Len(f) /\ (Len(f) <= Len(t) => f = t /\ f = d)
    BY <1>2, <2>1
  <2>3. candidate[n].prev \in Block /\ Len(candidate[n].prev) \in Nat
    BY WholeBlock DEF TypeOK
  <2>4. Len(candidate[n].prev) <= Len(t)
    BY DEF SearchInv, t
  <2>5. Len(candidate[n].prev) <= Len(f)
    BY <2>1, <2>2, <2>3, <2>4
  <2>6. ASSUME candidate[n].prev = f
        PROVE  candidate[n].txs \subseteq pending'[n]
    <3>1. f = t /\ f = d
      BY <2>2, <2>4, <2>6
    <3>2. PathTxs(t, d) = {}
      <4>1. Len(t) + 1 .. Len(t) = {}
        BY <2>1
      <4> QED  BY <3>1, <4>1 DEF PathTxs
    <3>3. gone = {}
      BY <3>1, <3>2 DEF gone
    <3>4. candidate[n].txs \subseteq pending[n]
      BY <2>6, <3>1 DEF SearchInv, t
    <3> QED  BY <1>6, <3>3, <3>4
  <2> QED  BY <1>2, <1>5, <1>6, <2>5, <2>6 DEF SearchInv
<1>9. OrphanInv'
  <2>1. \A p \in Node : inflight'[p] \cap pool'[p] = {}
    BY <1>6 DEF OrphanInv, OrphansAskedFor
  <2>2. Prefixes(t) \subseteq pool[n] \cup mined[n]
    BY DEF OrphanInv, t
  <2>3. \A p \in Node : Prefixes(chain'[p].tip_hash) \subseteq pool'[p] \cup mined'[p]
    BY <1>2, <1>5, <1>6, <2>2 DEF OrphanInv
  <2>4. ASSUME NEW p \in Node, NEW e \in pool'[p] \ {GENESIS}, Homeless(p, e)'
        PROVE  \/ prev_hash(e) \in inflight'[p] \cup mined'[p]
               \/ prev_hash(e) # GENESIS /\ ~ Sound(prev_hash(e))
    <3>1. prev_hash(e) \notin pool'[p] /\ prev_hash(e) \notin chain'[p].by_hash
      BY <2>4 DEF Homeless
    <3>2. CASE p = n /\ e = b
      BY <1>2, <1>3, <1>4, <1>6, <2>2, <3>1, <3>2
    <3>3. CASE p = n /\ e # b
      <4>1. e \in pool[n] \ {GENESIS} /\ prev_hash(e) \notin pool[n] /\ prev_hash(e) # b
        BY <1>6, <2>4, <3>1, <3>3
      <4>2. CASE prev_hash(e) \in chain[n].by_hash
        BY <1>2, <1>4, <2>2, <3>3, <4>1, <4>2
      <4>3. CASE prev_hash(e) \notin chain[n].by_hash
        <5>1. Homeless(n, e)
          BY <4>1, <4>3 DEF Homeless
        <5>2. \/ prev_hash(e) \in inflight[n] \cup mined[n]
              \/ prev_hash(e) # GENESIS /\ ~ Sound(prev_hash(e))
          BY <4>1, <5>1 DEF OrphanInv, OrphansAskedFor
        <5> QED  BY <1>2, <1>6, <3>3, <4>1, <5>2
      <4> QED  BY <4>2, <4>3
    <3>4. CASE p # n
      <4>1. e \in pool[p] \ {GENESIS} /\ Homeless(p, e)
        BY <1>6, <2>4, <3>1, <3>4 DEF Homeless
      <4>2. \/ prev_hash(e) \in inflight[p] \cup mined[p]
            \/ prev_hash(e) # GENESIS /\ ~ Sound(prev_hash(e))
        BY <4>1 DEF OrphanInv, OrphansAskedFor
      <4> QED  BY <1>2, <1>6, <3>4, <4>2
    <3> QED  BY <3>2, <3>3, <3>4
  <2> QED  BY <2>1, <2>3, <2>4 DEF OrphanInv, OrphansAskedFor
<1> QED  BY <1>7, <1>8, <1>9

\* HistoryInv is inductive.
LEMMA HistoryStep ==
    ASSUME LedgerAssumption, NodeAssumption, HistoryInv, [Next]_vars
    PROVE  HistoryInv'
<1>1. Inv'
  BY InvStep DEF HistoryInv
<1>2. CASE \E n \in Miner : MineLands(n) \/ MineStale(n)
  BY <1>1, <1>2, MineLandsHistory, OtherHistory DEF HistoryInv
<1>3. ASSUME NEW n \in Node, Deliver(n)
      PROVE  History'
  <2>1. PICK m \in network : Receive(n, m)
    BY <1>3 DEF Deliver
  <2>2. CASE \/ on_submit_transaction(n, m) \/ on_get_chain_height(n, m)
            \/ IngestKnown(n, m) \/ Refuse(n, m)
    BY <2>2, OtherHistory
  <2>3. CASE on_get_block(n, m)
    BY <2>3, GetBlockHistory
  <2>4. CASE IngestInvalid(n, m)
    BY <2>4, InvalidHistory
  <2>5. CASE IngestOrphan(n, m)
    BY <2>5, OrphanHistory
  <2>6. CASE IngestLands(n, m)
    BY <2>6, LandsHistory
  <2> QED  BY <2>1, <2>2, <2>3, <2>4, <2>5, <2>6 DEF Receive
<1>4. CASE \E n \in Node, p \in Peer : Discover(n, p)
  BY <1>1, <1>4, OtherHistory DEF HistoryInv
<1>5. CASE UNCHANGED vars
  <2>1. AllMined' = AllMined
    BY <1>5, NothingMade DEF vars
  <2>2. Provenance'
    BY <1>5, <2>1 DEF vars, HistoryInv, History, Provenance, IsBlock
  <2>3. SearchInv'
    BY <1>5 DEF vars, HistoryInv, History, SearchInv
  <2>4. OrphanInv'
    BY <1>5 DEF vars, HistoryInv, History, OrphanInv, OrphansAskedFor, Homeless
  <2> QED  BY <1>1, <2>2, <2>3, <2>4 DEF HistoryInv, History
<1> QED  BY <1>1, <1>2, <1>3, <1>4, <1>5 DEF Next, HistoryInv

\* HistoryInv holds when the nodes boot.
LEMMA InitHistory == ASSUME LedgerAssumption, NodeAssumption, Init PROVE HistoryInv
<1>1. Inv
  BY InitInv
<1>2. AllMined \subseteq Block /\ GENESIS \in AllMined
  BY <1>1, AllMinedFacts DEF Inv
<1>3. Prefixes(GENESIS) = {GENESIS} /\ Len(GENESIS) \in Nat
  <2>1. 0 .. Len(GENESIS) = {0}
    BY GenesisBlock
  <2>2. \A e \in Prefixes(GENESIS) : \E k \in 0 .. Len(GENESIS) : e = SubSeq(GENESIS, 1, k)
    BY DEF Prefixes
  <2>3. \A e \in Prefixes(GENESIS) : e = GENESIS
    BY <2>1, <2>2, GenesisBlock
  <2>4. GENESIS \in Prefixes(GENESIS)
    BY GenesisBlock, PrefixesFacts
  <2>5. Len(GENESIS) \in Nat
    BY GenesisBlock
  <2> QED  BY <2>3, <2>4, <2>5
<1>4. \A n \in Node : chain[n].tip_hash = GENESIS /\ chain[n].by_hash = {GENESIS}
  BY DEF Init, NewChain
<1>5. Provenance
  <2>1. ASSUME NEW m \in Outside, IsBlock(m)
        PROVE  m.block \in Foreign
    <3>1. m.block \in Prefixes(m.block)
      BY <2>1, BlockMessage, PrefixesFacts DEF NodeAssumption
    <3> QED  BY <2>1, <3>1 DEF Foreign
  <2>2. ASSUME NEW e \in Foreign
        PROVE  Prefixes(e) \subseteq Foreign
    <3>1. PICK m \in Outside : IsBlock(m) /\ e \in Prefixes(m.block)
      BY DEF Foreign
    <3>2. Prefixes(e) \subseteq Prefixes(m.block)
      BY <3>1, BlockMessage, PrefixesFacts DEF NodeAssumption
    <3> QED  BY <3>1, <3>2 DEF Foreign
  <2>3. AllMined = {GENESIS} \cup Foreign
    BY DEF Init, AllMined
  <2>4. \A e \in AllMined : Prefixes(e) \subseteq AllMined
    BY <1>3, <2>2, <2>3
  <2>5. \A m \in network : IsBlock(m) => m.block \in AllMined
    BY <2>1, <2>3 DEF Init
  <2>6. \A n \in Node : pool[n] \subseteq AllMined
    BY <1>2 DEF Init
  <2> QED  BY <1>2, <1>3, <1>4, <2>4, <2>5, <2>6 DEF Provenance
<1>6. SearchInv
  BY <1>3, <1>4 DEF Init, SearchInv
<1>7. OrphanInv
  BY <1>3, <1>4 DEF Init, OrphanInv, OrphansAskedFor
<1> QED  BY <1>1, <1>5, <1>6, <1>7 DEF HistoryInv, History

\* HistoryInv is an invariant.
LEMMA HistoryAlways == Spec => []HistoryInv
<1>1. ASSUME LedgerAssumption, NodeAssumption PROVE HistoryInv /\ [Next]_vars => HistoryInv'
  BY <1>1, HistoryStep
<1>2. ASSUME LedgerAssumption, NodeAssumption PROVE Init => HistoryInv
  BY <1>2, InitHistory
<1> QED  BY <1>1, <1>2, LedgerAssumption, NodeAssumption, PTL DEF Spec

-----------------------------------------------------------------------------
(* Theorems about searches and orphans *)

\* A search that can still succeed carries only transactions that are still
\* pending, so a mined block repeats nothing that landed while it ran.
THEOREM CandidatesStayFresh == Spec => []CandidateFresh
<1>1. HistoryInv => CandidateFresh
  BY DEF HistoryInv, History, SearchInv, CandidateFresh
<1> QED  BY <1>1, HistoryAlways, PTL

\* A parked block whose parent the node does not hold has that parent asked
\* for, mined by the node itself, or refused as invalid; and nothing the node
\* holds is still marked as asked for, through landings and reorganisations.
THEOREM OrphansAlwaysAskedFor == Spec => []OrphansAskedFor
<1>1. HistoryInv => OrphansAskedFor
  BY DEF HistoryInv, History, OrphanInv
<1> QED  BY <1>1, HistoryAlways, PTL

-----------------------------------------------------------------------------
(* Theorems about steps *)

\* Only a mined block and a landed one move a chain, and the pools only grow by
\* an orphan or by what landed.
LEMMA StepKinds ==
    ASSUME Next
    PROVE  \/ \E n \in Miner : MineLands(n)
           \/ \E n \in Node : \E m \in network : IngestLands(n, m)
           \/ /\ UNCHANGED << chain, mined >>
              /\ \/ UNCHANGED pool
                 \/ \E n \in Node : \E m \in network : IngestOrphan(n, m)
<1>1. CASE \E n \in Miner : MineLands(n) \/ MineStale(n)
  BY <1>1 DEF MineStale
<1>2. ASSUME NEW n \in Node, NEW m \in network, Receive(n, m)
      PROVE  \/ IngestLands(n, m)
             \/ /\ UNCHANGED << chain, mined >>
                /\ UNCHANGED pool \/ IngestOrphan(n, m)
  BY <1>2 DEF Receive, on_submit_transaction, on_get_chain_height, on_get_block,
              IngestKnown, IngestInvalid, IngestOrphan, Refuse
<1>3. CASE \E n \in Node, p \in Peer : Discover(n, p)
  BY <1>3 DEF Discover
<1> QED  BY <1>1, <1>2, <1>3 DEF Next, Deliver

\* A mined block takes its transactions out of the mempool.
LEMMA MineClears ==
    ASSUME LedgerAssumption, NodeAssumption, Inv, NEW n \in Miner, MineLands(n),
           NEW p \in Node, NEW e \in chain'[p].by_hash \ chain[p].by_hash
    PROVE  tx_hashes(e) \cap pending'[p] = {}
<1> USE DEF Inv
<1> DEFINE t == chain[n].tip_hash
<1>0. n \in Node
  BY DEF NodeAssumption
<1>1. PICK stamp \in GoodStamp, b \in Block : Mining(n, stamp, b)
  BY MineOutcome
<1>2. /\ b = MinedBlock(t, candidate[n].txs, stamp)
      /\ Prefixes(b) = Prefixes(t) \cup {b}
      /\ chain' = [chain EXCEPT ![n] = ChainOf(b)]
      /\ pending' = [pending EXCEPT ![n] = remove(@, candidate[n].txs)]
  BY <1>1 DEF Mining
<1>3. /\ chain[n].by_hash = Prefixes(t) /\ t \in Block
      /\ ChainOf(b).by_hash = Prefixes(b)
  BY <1>0, ChainInvFacts, ChainOfFacts
<1> HIDE DEF t
<1>4. p = n /\ e = b
  BY <1>0, <1>2, <1>3 DEF TypeOK
<1>5. tx_hashes(b) = candidate[n].txs
  <2>1. stamp \in Stamp /\ candidate[n].txs \in SUBSET Tx
    BY <1>0 DEF LedgerAssumption, TypeOK
  <2> QED  BY <1>2, <1>3, <2>1, MinedHeaders
<1>6. pending'[n] = pending[n] \ candidate[n].txs
  BY <1>0, <1>2 DEF remove, TypeOK
<1> QED  BY <1>4, <1>5, <1>6

\* So does a block that is gossiped, drained or adopted.
LEMMA LandClears ==
    ASSUME NodeAssumption, Inv, NEW n \in Node, NEW m \in network, IngestLands(n, m),
           NEW p \in Node, NEW e \in chain'[p].by_hash \ chain[p].by_hash
    PROVE  tx_hashes(e) \cap pending'[p] = {}
<1> USE DEF Inv
<1> DEFINE t == chain[n].tip_hash
<1>1. PICK d \in Block, f \in Block : Landing(n, m.block, d, f)
  BY LandOutcome
<1> DEFINE gone == PathTxs(t, d) \cup (IF f = d THEN {} ELSE PathTxs(GENESIS, f))
<1>2. /\ IsPrefix(t, d)
      /\ chain' = [chain EXCEPT ![n] = ChainOf(f)]
      /\ pending' = [pending EXCEPT ![n] = remove(@, gone)]
  BY <1>1 DEF Landing
<1>3. /\ chain[n].by_hash = Prefixes(t) /\ t \in Block /\ Len(t) \in Nat
      /\ ChainOf(f).by_hash = Prefixes(f)
  BY ChainInvFacts, ChainOfFacts
<1> HIDE DEF t, gone
<1>4. p = n /\ e \in Prefixes(f) \ Prefixes(t)
  BY <1>2, <1>3 DEF TypeOK
<1>5. tx_hashes(e) \subseteq gone
  <2>1. CASE f = d
    <3>1. PICK h \in Len(t) + 1 .. Len(d) : e = SubSeq(d, 1, h)
      BY <1>2, <1>3, <1>4, <2>1, PrefixesAbove
    <3>2. h \in 1 .. Len(d) /\ h > Len(t)
      BY <1>3, <3>1
    <3> QED  BY <1>3, <3>1, <3>2, PathTxsFacts DEF gone
  <2>2. CASE f # d
    <3>1. PICK k \in 0 .. Len(f) : e = SubSeq(f, 1, k)
      BY <1>4 DEF Prefixes
    <3>2. GENESIS \in Prefixes(t) /\ SubSeq(f, 1, 0) = GENESIS /\ Len(GENESIS) = 0
          /\ GENESIS \in Block /\ Len(f) \in Nat
      BY <1>3, PrefixesFacts, WholeBlock
    <3>3. k # 0
      BY <1>4, <3>1, <3>2
    <3>4. k \in 1 .. Len(f) /\ k > Len(GENESIS)
      BY <3>2, <3>3
    <3>5. tx_hashes(e) = f[k].txs /\ f[k].txs \subseteq PathTxs(GENESIS, f)
      BY <3>1, <3>2, <3>4, PathTxsFacts
    <3> QED  BY <2>2, <3>5 DEF gone
  <2> QED  BY <2>1, <2>2
<1>6. pending'[n] = pending[n] \ gone
  BY <1>2 DEF remove, TypeOK
<1> QED  BY <1>4, <1>5, <1>6

\* No transaction of a block that joins a chain is left pending there.
THEOREM AdvancesClear == Spec => AdvanceClearsPending
<1>1. ASSUME LedgerAssumption, NodeAssumption, Inv, [Next]_vars
      PROVE  [\A n \in Node : \A b \in chain'[n].by_hash \ chain[n].by_hash :
                  tx_hashes(b) \cap pending'[n] = {}]_vars
  <2>1. CASE Next
    <3>1. CASE \E n \in Miner : MineLands(n)
      BY <1>1, <3>1, MineClears
    <3>2. CASE \E n \in Node : \E m \in network : IngestLands(n, m)
      BY <1>1, <3>2, LandClears
    <3>3. CASE UNCHANGED chain
      BY <3>3
    <3> QED  BY <2>1, <3>1, <3>2, <3>3, StepKinds
  <2>2. CASE UNCHANGED vars
    BY <2>2
  <2> QED  BY <1>1, <2>1, <2>2
<1> QED  BY <1>1, InvAlways, LedgerAssumption, NodeAssumption, PTL DEF Spec, AdvanceClearsPending

-----------------------------------------------------------------------------
(* The refinement of LongestChain *)

\* The operators of Ledger that LongestChain uses are those of this module.
LEMMA AbstractOperators ==
    /\ Abstract!GENESIS = GENESIS /\ Abstract!Block = Block
    /\ \A prev, txs, stamp :
           Abstract!MinedBlock(prev, txs, stamp) = MinedBlock(prev, txs, stamp)
    /\ \A b : Abstract!Prefixes(b) = Prefixes(b)
    /\ \A b : Abstract!ValidFromGenesis(b) <=> ValidFromGenesis(b)
<1>1. Abstract!GENESIS = GENESIS /\ Abstract!Block = Block
  BY DEF Abstract!GENESIS, GENESIS, Abstract!Block, Block, Abstract!Header, Header
<1>2. \A prev, txs, stamp :
          Abstract!MinedBlock(prev, txs, stamp) = MinedBlock(prev, txs, stamp)
  BY DEF Abstract!MinedBlock, MinedBlock
<1>3. \A b : Abstract!Prefixes(b) = Prefixes(b)
  BY DEF Abstract!Prefixes, Prefixes
<1>4. \A b : Abstract!ValidFromGenesis(b) <=> ValidFromGenesis(b)
  BY DEF Abstract!ValidFromGenesis, ValidFromGenesis, Abstract!Sound, Sound,
         Abstract!Last, Last
<1> QED  BY <1>1, <1>2, <1>3, <1>4

\* A mined block is a Mine of the abstract specification.
LEMMA MineRefines ==
    ASSUME LedgerAssumption, NodeAssumption, Inv, NEW n \in Miner, MineLands(n)
    PROVE  Abstract!Mine(n)
<1> USE DEF Inv
<1> DEFINE tips == [p \in Node |-> chain[p].tip_hash]
           txs  == candidate[n].txs
<1>0. n \in Node
  BY DEF NodeAssumption
<1>1. PICK stamp \in GoodStamp, b \in Block : Mining(n, stamp, b)
  BY MineOutcome
<1>2. /\ b = MinedBlock(chain[n].tip_hash, txs, stamp)
      /\ chain' = [chain EXCEPT ![n] = ChainOf(b)]
      /\ mined' = [mined EXCEPT ![n] = @ \cup {b}]
  BY <1>1 DEF Mining
<1>3. AllMined' = AllMined \cup {b}
  BY <1>0, <1>2, OneMade
<1>4. \A p \in Node : chain'[p].tip_hash = IF p = n THEN b ELSE chain[p].tip_hash
  BY <1>2, ChainOfFacts DEF TypeOK
<1>5. tips' = [tips EXCEPT ![n] = b]
  BY <1>0, <1>4
<1>6. txs \in SUBSET Tx /\ b = Abstract!MinedBlock(tips[n], txs, stamp)
  BY <1>0, <1>2, AbstractOperators DEF TypeOK
<1> HIDE DEF tips, txs
<1> QED  BY <1>3, <1>5, <1>6 DEF Abstract!Mine, tips

\* A landing is a Switch to a chain that somebody made, or no step.
LEMMA LandRefines ==
    ASSUME NodeAssumption, HistoryInv, NEW n \in Node, NEW m \in network,
           IngestLands(n, m)
    PROVE  Abstract!Switch(n) \/ UNCHANGED Abstract!vars
<1> USE DEF HistoryInv, History, Inv
<1> DEFINE tips   == [p \in Node |-> chain[p].tip_hash]
           t      == chain[n].tip_hash
           parked == pool[n] \cup {m.block}
<1>1. PICK d \in Block, f \in Block : Landing(n, m.block, d, f)
  BY LandOutcome
<1>2. /\ IsPrefix(t, d) /\ (f = d \/ Len(f) > Len(d)) /\ ValidFromGenesis(f)
      /\ Prefixes(f) \subseteq parked \cup Prefixes(t)
      /\ chain' = [chain EXCEPT ![n] = ChainOf(f)]
      /\ UNCHANGED mined
  BY <1>1 DEF Landing
<1>3. AllMined' = AllMined
  BY <1>2, NothingMade
<1>4. Prefixes(f) \subseteq AllMined /\ f \in AllMined
  <2>1. IsBlock(m)
    BY DEF IngestLands
  <2>2. parked \subseteq AllMined /\ Prefixes(t) \subseteq AllMined
    BY <2>1 DEF Provenance
  <2>3. f \in Prefixes(f)
    BY PrefixesFacts
  <2> QED  BY <1>2, <2>2, <2>3
<1>5. t \in Block /\ tips[n] = t
  BY ChainInvFacts
<1>6. \A p \in Node : chain'[p].tip_hash = IF p = n THEN f ELSE chain[p].tip_hash
  BY <1>2, ChainOfFacts DEF TypeOK
<1>7. tips' = [tips EXCEPT ![n] = f]
  BY <1>6
<1>8. Len(f) > Len(t) \/ f = t
  <2>1. /\ Len(t) \in 0 .. Len(d) /\ t = SubSeq(d, 1, Len(t))
        /\ SubSeq(d, 1, Len(d)) = d /\ Len(d) \in Nat /\ Len(f) \in Nat
    BY <1>2, <1>5, PrefixIsAncestor, WholeBlock
  <2> QED  BY <1>2, <2>1
<1> HIDE DEF t, parked
<1>9. CASE Len(f) > Len(t)
  <2>1. Abstract!Prefixes(f) \subseteq AllMined /\ Abstract!ValidFromGenesis(f)
    BY <1>2, <1>4, AbstractOperators
  <2> HIDE DEF tips
  <2> QED  BY <1>3, <1>4, <1>5, <1>7, <1>9, <2>1 DEF Abstract!Switch, tips
<1>10. CASE f = t
  <2>1. tips' = tips
    BY <1>5, <1>7, <1>10
  <2> HIDE DEF tips
  <2> QED  BY <1>3, <2>1 DEF Abstract!vars, tips
<1> QED  BY <1>8, <1>9, <1>10

\* The nodes implement LongestChain: whatever is mined, received, drained or
\* reorganised, a tip moves only by mining on it or to a longer valid chain of
\* blocks that somebody made.
THEOREM NodesFollowLongestChain == Spec => ImplementsLongestChain
<1>1. ASSUME LedgerAssumption, NodeAssumption, Init PROVE Abstract!Init
  <2>1. AllMined \in SUBSET Block /\ GENESIS \in AllMined
    BY <1>1, InitInv, AllMinedFacts DEF Inv
  <2>2. [n \in Node |-> chain[n].tip_hash] = [n \in Node |-> GENESIS]
    BY <1>1 DEF Init, NewChain
  <2> QED  BY <2>1, <2>2, AbstractOperators DEF Abstract!Init
<1>2. ASSUME LedgerAssumption, NodeAssumption, HistoryInv, [Next]_vars
      PROVE  [Abstract!Next]_(Abstract!vars)
  <2>1. CASE Next
    <3>1. CASE \E n \in Miner : MineLands(n)
      BY <1>2, <3>1, MineRefines DEF Abstract!Next, HistoryInv, NodeAssumption
    <3>2. CASE \E n \in Node : \E m \in network : IngestLands(n, m)
      BY <1>2, <3>2, LandRefines DEF Abstract!Next
    <3>3. CASE UNCHANGED << chain, mined >>
      BY <3>3, NothingMade DEF Abstract!vars
    <3> QED  BY <2>1, <3>1, <3>2, <3>3, StepKinds
  <2>2. CASE UNCHANGED vars
    BY <2>2, NothingMade DEF vars, Abstract!vars
  <2> QED  BY <1>2, <2>1, <2>2
<1> QED
  BY <1>1, <1>2, LedgerAssumption, NodeAssumption, HistoryAlways, PTL
  DEF Spec, ImplementsLongestChain, Abstract!Spec

-----------------------------------------------------------------------------
(* The longest chain rule *)

\* There is a highest block in every pool: pools only ever grow by one block.
PoolBounded == \A n \in Node : \E k \in Nat : \A b \in pool[n] : Len(b) <= k

\* A pool that grew by one block is still bounded.
LEMMA BoundedGrowth ==
    ASSUME TypeOK, PoolBounded, NEW n \in Node, NEW b \in Block, NEW grown,
           grown \subseteq pool[n] \cup {b}
    PROVE  \E k \in Nat : \A e \in grown : Len(e) <= k
<1>1. PICK k \in Nat : \A e \in pool[n] : Len(e) <= k
  BY DEF PoolBounded
<1>2. Len(b) \in Nat
  BY WholeBlock
<1>3. \A e \in pool[n] : Len(e) <= k + Len(b)
  <2>1. pool[n] \subseteq Block
    BY DEF TypeOK
  <2>2. ASSUME NEW e \in pool[n] PROVE Len(e) <= k + Len(b)
    <3>1. Len(e) \in Nat /\ Len(e) <= k
      BY <1>1, <2>1, WholeBlock
    <3> QED  BY <1>2, <3>1
  <2> QED  BY <2>2
<1>4. Len(b) <= k + Len(b) /\ k + Len(b) \in Nat
  BY <1>2
<1> QED  BY <1>3, <1>4

\* PoolBounded is inductive, given Inv.
LEMMA BoundedStep ==
    ASSUME NodeAssumption, Inv, PoolBounded, [Next]_vars
    PROVE  PoolBounded'
<1> USE DEF Inv
<1>1. \A n \in Node : \E b \in Block : pool'[n] \subseteq pool[n] \cup {b}
  <2>1. CASE UNCHANGED pool
    BY <2>1, GenesisBlock
  <2>2. ASSUME NEW n \in Node, NEW m \in network, IngestLands(n, m) \/ IngestOrphan(n, m)
        PROVE  \A p \in Node : \E b \in Block : pool'[p] \subseteq pool[p] \cup {b}
    <3>1. /\ IsBlock(m) /\ pool' = [pool EXCEPT ![n] = @ \cup {m.block}]
      BY <2>2 DEF IngestLands, IngestOrphan
    <3>2. m.block \in Block
      BY <3>1, BlockMessage DEF TypeOK
    <3>3. \A p \in Node : pool'[p] \subseteq pool[p] \cup {m.block}
      BY <3>1 DEF TypeOK
    <3> QED  BY <3>2, <3>3
  <2>3. CASE \E n \in Miner : MineLands(n)
    BY <2>1, <2>3 DEF MineLands
  <2> QED  BY <2>1, <2>2, <2>3, StepKinds DEF vars
<1> QED  BY <1>1, BoundedGrowth DEF PoolBounded

LEMMA BoundedAlways == Spec => [](HistoryInv /\ PoolBounded)
<1>1. ASSUME LedgerAssumption, NodeAssumption, Init PROVE PoolBounded
  <2>1. \A n \in Node : \A b \in pool[n] : Len(b) <= 0
    BY <1>1, GenesisBlock DEF Init
  <2> QED  BY <2>1 DEF PoolBounded
<1>2. ASSUME LedgerAssumption, NodeAssumption, HistoryInv, PoolBounded, [Next]_vars
      PROVE  PoolBounded'
  BY <1>2, BoundedStep DEF HistoryInv
<1> QED  BY <1>1, <1>2, LedgerAssumption, NodeAssumption, HistoryAlways, PTL DEF Spec

\* A landing ends on a longest chain of those the node can assemble.
LEMMA LandsOnLongest ==
    ASSUME NodeAssumption, Inv, PoolBounded, NEW n \in Node, NEW m \in network,
           IngestLands(n, m)
    PROVE  OnLongest(n)'
<1> USE DEF Inv
<1> DEFINE parked == pool[n] \cup {m.block}
<1>1. PICK d \in Block, f \in Block : Landing(n, m.block, d, f)
  BY LandOutcome
<1>2. /\ ChainOf(f) \in Reorgs(ChainOf(d), parked)
      /\ chain' = [chain EXCEPT ![n] = ChainOf(f)]
      /\ pool' = [pool EXCEPT ![n] = parked]
  BY <1>1 DEF Landing
<1>3. m.block \in Block /\ parked \in SUBSET Block
  <2>1. m.block \in Block
    BY LandsFacts
  <2> QED  BY <2>1 DEF TypeOK
<1>4. /\ chain'[n].tip_hash = f /\ chain'[n].by_hash = Prefixes(f)
      /\ pool'[n] = parked
  BY <1>2, ChainOfFacts DEF TypeOK
<1>5. PICK k \in Nat : \A e \in parked : Len(e) <= k
  <2>1. parked \subseteq pool[n] \cup {m.block}
    OBVIOUS
  <2> HIDE DEF parked
  <2> QED  BY <1>3, <2>1, BoundedGrowth
<1> HIDE DEF parked
<1>6. Assembled(n)' = {b \in parked : Prefixes(b) \subseteq parked \cup Prefixes(f)}
  BY <1>4 DEF Assembled
<1>7. ASSUME NEW b \in Assembled(n)',
             \A e \in Assembled(n)' : Len(e) >= Len(b) => ValidFromGenesis(e)
      PROVE  Len(b) <= Len(f)
  <2>1. b \in parked /\ Prefixes(b) \subseteq parked \cup Prefixes(f)
    BY <1>6
  <2>2. \A e \in parked :
            Prefixes(e) \subseteq parked \cup Prefixes(f) /\ Len(e) >= Len(b)
            => ValidFromGenesis(e)
    BY <1>6, <1>7
  <2> QED  BY <1>2, <1>3, <1>5, <2>1, <2>2, ReorgLongest
<1> QED  BY <1>4, <1>7 DEF OnLongest

\* Where the code applies the longest chain rule, when a block joins the chain
\* or branches off it, the node ends on a longest chain it can assemble, unless
\* an invalid orphan hides it.
THEOREM LandingsAdoptLongest == Spec => LandingAdoptsLongest
<1> DEFINE A == \A n \in Node :
                    (\E b \in pool'[n] \ pool[n] : prev_hash(b) \in chain[n].by_hash)
                    => OnLongest(n)'
<1>1. ASSUME NodeAssumption, Inv, PoolBounded, [Next]_vars
      PROVE  [A]_vars
  <2>1. CASE UNCHANGED pool
    BY <2>1
  <2>2. ASSUME NEW n \in Node, NEW m \in network, IngestLands(n, m)
        PROVE  A
    <3>1. pool' = [pool EXCEPT ![n] = @ \cup {m.block}]
      BY <2>2 DEF IngestLands
    <3>2. \A p \in Node : p # n => pool'[p] = pool[p]
      BY <1>1, <3>1 DEF Inv, TypeOK
    <3> QED  BY <1>1, <2>2, <3>2, LandsOnLongest
  <2>3. ASSUME NEW n \in Node, NEW m \in network, IngestOrphan(n, m)
        PROVE  A
    <3>1. /\ pool' = [pool EXCEPT ![n] = @ \cup {m.block}]
          /\ try_extend(chain[n], m.block) = "NEEDS_PARENT"
      BY <2>3 DEF IngestOrphan
    <3>2. prev_hash(m.block) \notin chain[n].by_hash
      BY <3>1 DEF try_extend
    <3>3. \A p \in Node : \A b \in pool'[p] \ pool[p] : p = n /\ b = m.block
      BY <1>1, <3>1 DEF Inv, TypeOK
    <3> QED  BY <3>2, <3>3
  <2>4. CASE \E n \in Miner : MineLands(n)
    BY <2>1, <2>4 DEF MineLands
  <2>5. CASE UNCHANGED vars
    BY <2>5
  <2> QED  BY <1>1, <2>1, <2>2, <2>3, <2>4, <2>5, StepKinds
<1>2. HistoryInv => Inv
  BY DEF HistoryInv
<1> QED  BY <1>1, <1>2, NodeAssumption, BoundedAlways, PTL
         DEF Spec, LandingAdoptsLongest

-----------------------------------------------------------------------------
(* A transaction submitted once *)

\* The steps that make no block, submit nothing and let nothing pend.
LEMMA OnceQuiet ==
    ASSUME OnceInv, mined' = mined,
           \A q \in network' : Submission(q) => q \in network,
           \A p \in Node : pending'[p] \subseteq pending[p]
    PROVE  OnceInv'
<1>1. AllMined' = AllMined
  BY NothingMade
<1> QED  BY <1>1 DEF OnceInv, Submission

\* A mined block takes its transactions from the mempool, where each had
\* its one place.
LEMMA OnceMine ==
    ASSUME LedgerAssumption, NodeAssumption, HistoryInv, OnceInv,
           NEW n \in Miner, MineLands(n)
    PROVE  OnceInv'
<1> USE DEF HistoryInv, History, Inv
<1> DEFINE t   == chain[n].tip_hash
           txs == candidate[n].txs
<1>0. n \in Node
  BY DEF NodeAssumption
<1>1. PICK stamp \in GoodStamp, b \in Block : Mining(n, stamp, b)
  BY MineOutcome
<1>2. /\ b = MinedBlock(t, txs, stamp) /\ candidate[n].prev = t
      /\ Len(b) = Len(t) + 1 /\ Len(t) \in Nat
      /\ pending' = [pending EXCEPT ![n] = remove(@, txs)]
      /\ mined' = [mined EXCEPT ![n] = @ \cup {b}]
      /\ network' = network \cup broadcast_block(n, b, Len(b))
  BY <1>1 DEF Mining
<1>3. AllMined' = AllMined \cup {b}
  BY <1>0, <1>2, OneMade
<1>4. t \in Block /\ t \in AllMined
  <2>1. t \in Block /\ Prefixes(t) \subseteq AllMined
    BY <1>0, ChainInvFacts DEF Provenance
  <2> QED  BY <2>1, PrefixesFacts
<1>5. txs \subseteq pending[n] /\ txs \in SUBSET Tx /\ stamp \in Stamp
  BY <1>0, <1>2 DEF SearchInv, TypeOK, LedgerAssumption
<1>6. \A h \in 1 .. Len(b) : h \in 1 .. Len(t) \/ h = Len(t) + 1
  BY <1>2
<1>7. /\ \A h \in 1 .. Len(t) : b[h].txs = t[h].txs
      /\ b[Len(t) + 1].txs = txs
  BY <1>2, <1>4, <1>5, MinedHeaders
<1> HIDE DEF t, txs
<1>8. /\ NoRepeat(t)
      /\ \A m \in network : Submission(m) => ~ Holds(t, m.tx)
      /\ \A p \in Node : \A tx \in pending[p] : ~ Holds(t, tx)
  BY <1>4 DEF OnceInv
<1>9. \A tx : Holds(b, tx) => Holds(t, tx) \/ tx \in txs
  BY <1>6, <1>7 DEF Holds
<1>10. NoRepeat(b)
  <2>1. \A h \in 1 .. Len(t) : t[h].txs \cap txs = {}
    BY <1>0, <1>5, <1>8 DEF Holds
  <2> QED  BY <1>6, <1>7, <1>8, <2>1 DEF NoRepeat
<1>11. \A q \in network' : Submission(q) => q \in network
  BY <1>2 DEF broadcast_block, Submission
<1>12. \A p \in Node : pending'[p] = IF p = n THEN pending[p] \ txs ELSE pending[p]
  BY <1>2 DEF remove, TypeOK
<1>13. \A m \in network' : Submission(m) => ~ Holds(b, m.tx)
  BY <1>0, <1>5, <1>8, <1>9, <1>11 DEF OnceInv
<1>14. \A p \in Node : \A tx \in pending'[p] : ~ Holds(b, tx)
  <2> SUFFICES ASSUME NEW p \in Node, NEW tx \in pending'[p] PROVE tx \notin txs /\ ~ Holds(t, tx)
    BY <1>9
  <2>1. tx \in pending[p] /\ (p = n => tx \notin txs)
    BY <1>12
  <2>2. p # n => tx \notin pending[n]
    BY <1>0, <2>1 DEF OnceInv
  <2> QED  BY <1>5, <1>8, <2>1, <2>2
<1>15. \A p \in Node : pending'[p] \subseteq pending[p]
  BY <1>12
<1> QED  BY <1>3, <1>10, <1>11, <1>13, <1>14, <1>15 DEF OnceInv, Submission

\* A submission moves its transaction from the datagram to one mempool.
LEMMA OnceSubmit ==
    ASSUME Reliable, HistoryInv, OnceInv, NEW n \in Node, NEW m \in network,
           on_submit_transaction(n, m)
    PROVE  OnceInv'
<1> USE DEF HistoryInv, Inv
<1> DEFINE r == [type |-> "SubmitTransactionResponse", src |-> n, dst |-> Server,
                 success |-> CanAdd(pending[n], m.tx), tx |-> m.tx]
<1>1. /\ Submission(m) /\ network' = Handled(m, {r})
      /\ UNCHANGED mined
  BY DEF on_submit_transaction, Submission
<1>2. ~ Submission(r)
  BY DEF Submission
<1> HIDE DEF r
<1>3. \A q \in network' : Submission(q) => q \in network /\ q # m
  BY <1>1, <1>2 DEF Handled
<1>4. \A q \in network' : Submission(q) => q.tx # m.tx
  BY <1>1, <1>3 DEF OnceInv
<1>5. \A p \in Node : \A tx \in pending'[p] :
          tx \in pending[p] \/ (p = n /\ tx = m.tx)
  BY DEF on_submit_transaction, TypeOK
<1>6. AllMined' = AllMined
  BY <1>1, NothingMade
<1>7. \A p \in Node : m.tx \notin pending[p]
  BY <1>1 DEF OnceInv
<1>8. \A b \in AllMined : ~ Holds(b, m.tx)
  BY <1>1 DEF OnceInv
<1>9. \A q, o \in network' : Submission(q) /\ Submission(o) /\ q.tx = o.tx => q = o
  BY <1>3 DEF OnceInv
<1>10. \A q \in network', p \in Node : Submission(q) => q.tx \notin pending'[p]
  BY <1>3, <1>4, <1>5 DEF OnceInv
<1>11. \A p, o \in Node : p # o => pending'[p] \cap pending'[o] = {}
  BY <1>5, <1>7 DEF OnceInv
<1>12. \A b \in AllMined :
           /\ NoRepeat(b)
           /\ \A q \in network' : Submission(q) => ~ Holds(b, q.tx)
           /\ \A p \in Node : \A tx \in pending'[p] : ~ Holds(b, tx)
  BY <1>3, <1>5, <1>8 DEF OnceInv
<1> QED  BY <1>6, <1>9, <1>10, <1>11, <1>12 DEF OnceInv, Submission

\* Every other datagram: what it sends is no submission.
LEMMA OnceReceive ==
    ASSUME NodeAssumption, HistoryInv, OnceInv, NEW n \in Node, NEW m \in network,
           Receive(n, m), ~ on_submit_transaction(n, m)
    PROVE  OnceInv'
<1> USE DEF HistoryInv, Inv
<1>1. CASE \/ on_get_chain_height(n, m) \/ on_get_block(n, m) \/ IngestKnown(n, m)
           \/ IngestInvalid(n, m) \/ IngestOrphan(n, m) \/ Refuse(n, m)
  <2>1. UNCHANGED << pending, mined >>
    BY <1>1 DEF on_get_chain_height, on_get_block, IngestKnown, IngestInvalid,
                IngestOrphan, Refuse
  <2>2. \E out : /\ network' = Handled(m, out)
                 /\ \A q \in out : ~ Submission(q)
    <3>1. CASE on_get_chain_height(n, m)
      BY <3>1 DEF on_get_chain_height, Submission
    <3>2. CASE on_get_block(n, m)
      BY <3>2 DEF on_get_block, SendTo, Submission
    <3>3. CASE IngestKnown(n, m) \/ IngestInvalid(n, m) \/ Refuse(n, m)
      BY <3>3 DEF IngestKnown, IngestInvalid, Refuse
    <3>4. CASE IngestOrphan(n, m)
      BY <3>4 DEF IngestOrphan, SendTo, GetParent, Submission
    <3> QED  BY <1>1, <3>1, <3>2, <3>3, <3>4
  <2>3. \A q \in network' : Submission(q) => q \in network
    BY <2>2, HandledFacts
  <2> QED  BY <2>1, <2>3, OnceQuiet
<1>2. CASE IngestLands(n, m)
  <2>1. PICK d \in Block, f \in Block : Landing(n, m.block, d, f)
    BY <1>2, LandOutcome
  <2>2. /\ \A q \in network' : q \in network \/ q.type = "NewBlock"
        /\ \E gone : pending' = [pending EXCEPT ![n] = remove(@, gone)]
        /\ mined' = mined
    BY <2>1 DEF Landing
  <2>3. \A p \in Node : pending'[p] \subseteq pending[p]
    BY <2>2 DEF remove, TypeOK
  <2>4. \A q \in network' : Submission(q) => q \in network
    BY <2>2 DEF Submission
  <2> QED  BY <2>2, <2>3, <2>4, OnceQuiet
<1> QED  BY <1>1, <1>2 DEF Receive

\* OnceInv is inductive, given HistoryInv.
LEMMA OnceStep ==
    ASSUME LedgerAssumption, NodeAssumption, Reliable, HistoryInv, OnceInv, [Next]_vars
    PROVE  OnceInv'
<1>1. CASE \E n \in Miner : MineLands(n)
  BY <1>1, OnceMine
<1>2. CASE \E n \in Miner : MineStale(n)
  BY <1>2, OnceQuiet DEF MineStale
<1>3. ASSUME NEW n \in Node, Deliver(n)
      PROVE  OnceInv'
  BY <1>3, OnceSubmit, OnceReceive DEF Deliver
<1>4. CASE \E n \in Node, p \in Peer : Discover(n, p)
  BY <1>4, OnceQuiet DEF Discover
<1>5. CASE UNCHANGED vars
  BY <1>5, OnceQuiet DEF vars
<1> QED  BY <1>1, <1>2, <1>3, <1>4, <1>5 DEF Next

\* OnceInv holds when the nodes boot.
LEMMA InitOnce == ASSUME SubmittedOnce, Init PROVE OnceInv
<1>1. /\ network = Outside /\ \A n \in Node : pending[n] = {}
      /\ AllMined = {GENESIS} \cup Foreign
  BY DEF Init, AllMined
<1>2. 1 .. Len(GENESIS) = {}
  BY GenesisBlock
<1>3. NoRepeat(GENESIS) /\ \A tx : ~ Holds(GENESIS, tx)
  BY <1>2 DEF NoRepeat, Holds
<1> QED  BY <1>1, <1>3 DEF SubmittedOnce, OnceInv

\* On one chain, OnceInv leaves no transaction in two blocks.
LEMMA OnceOnChain ==
    ASSUME HistoryInv, OnceInv
    PROVE  NoDoubleInclusion
<1> USE DEF HistoryInv, History, Inv
<1> SUFFICES ASSUME NEW n \in Node,
                    NEW b \in chain[n].by_hash \ {GENESIS},
                    NEW e \in chain[n].by_hash \ {GENESIS}, b # e
             PROVE  tx_hashes(b) \cap tx_hashes(e) = {}
  BY DEF NoDoubleInclusion
<1> DEFINE t == chain[n].tip_hash
<1>1. /\ t \in Block /\ chain[n].by_hash = Prefixes(t) /\ Prefixes(t) \subseteq AllMined
  BY ChainInvFacts DEF Provenance
<1> HIDE DEF t
<1>2. t \in Prefixes(t) /\ SubSeq(t, 1, 0) = GENESIS /\ Len(t) \in Nat
  BY <1>1, PrefixesFacts, WholeBlock
<1>3. NoRepeat(t)
  BY <1>1, <1>2 DEF OnceInv
<1>4. ASSUME NEW x \in Prefixes(t) \ {GENESIS}
      PROVE  \E h \in 1 .. Len(t) : x = SubSeq(t, 1, h) /\ tx_hashes(x) = t[h].txs
  <2>1. PICK h \in 0 .. Len(t) : x = SubSeq(t, 1, h)
    BY DEF Prefixes
  <2>2. h # 0
    BY <1>2, <2>1
  <2>3. h \in 1 .. Len(t)
    BY <1>2, <2>2
  <2>4. tx_hashes(SubSeq(t, 1, h)) = t[h].txs
    BY <1>1, <2>3, PathTxsFacts
  <2> QED  BY <2>1, <2>3, <2>4
<1>5. PICK h \in 1 .. Len(t) : b = SubSeq(t, 1, h) /\ tx_hashes(b) = t[h].txs
  BY <1>1, <1>4
<1>6. PICK k \in 1 .. Len(t) : e = SubSeq(t, 1, k) /\ tx_hashes(e) = t[k].txs
  BY <1>1, <1>4
<1>7. h # k
  BY <1>5, <1>6
<1> QED  BY <1>3, <1>5, <1>6, <1>7 DEF NoRepeat

\* A transaction submitted once, on a network that repeats nothing, is on any
\* chain at most once, whatever is mined, relayed or reorganised.
THEOREM TransactionsLandOnce == ASSUME SubmittedOnce PROVE Spec => []NoDoubleInclusion
<1>1. ASSUME LedgerAssumption, NodeAssumption, HistoryInv, OnceInv, [Next]_vars
      PROVE  OnceInv'
  BY <1>1, OnceStep DEF SubmittedOnce
<1>2. Init => OnceInv
  BY InitOnce
<1>3. HistoryInv /\ OnceInv => NoDoubleInclusion
  BY OnceOnChain
<1> QED  BY <1>1, <1>2, <1>3, LedgerAssumption, NodeAssumption, HistoryAlways, PTL DEF Spec

=============================================================================
