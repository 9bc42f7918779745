--------------------------- MODULE ChainNodeProofs ---------------------------
(***************************************************************************)
(* Theorems of ChainNode, for every set of nodes, every topology, every    *)
(* set of outside datagrams and either kind of network.                    *)
(***************************************************************************)
EXTENDS ChainNode, LedgerProofs

-----------------------------------------------------------------------------
(* The inductive invariant *)

\* Each node's chain is the one chain that ends in its tip, and valid.
ChainInv ==
    \A n \in Node : /\ chain[n] = ChainOf(chain[n].tip_hash)
                    /\ ValidFromGenesis(chain[n].tip_hash)

Inv == TypeOK /\ ChainInv /\ WireHeightsTrue

\* What may happen to one chain in one step.
Climbs(old, new) ==
    \/ new = old
    \/ \E b \in Block : /\ new = ChainOf(b)
                        /\ Len(b) > Len(old.tip_hash)
                        /\ ValidFromGenesis(b)

-----------------------------------------------------------------------------
(* Messages *)

\* A block datagram carries a block, a height and a sender.
LEMMA BlockMessage ==
    ASSUME NEW m \in Message, IsBlock(m)
    PROVE  m.block \in Block /\ m.height \in Int /\ m.src \in Peer
  BY DEF Message, IsBlock

\* What broadcast_block sends: NewBlock datagrams of n with that block and height.
LEMMA BroadcastFacts ==
    ASSUME NodeAssumption, TypeOK, NEW n \in Node, NEW b \in Block, NEW h \in Int
    PROVE  /\ broadcast_block(n, b, h) \subseteq Message
           /\ \A m \in broadcast_block(n, b, h) :
                  /\ m.src = n /\ m.height = h
                  /\ m.type = "NewBlock" /\ m.block = b
  BY DEF broadcast_block, Message, NodeAssumption, TypeOK, Peer

\* SendTo sends the message given or nothing.
LEMMA SendToFacts ==
    ASSUME NEW n, NEW p, NEW msg
    PROVE  SendTo(n, p, msg) \subseteq {msg}
  BY DEF SendTo

\* A network stays true when true messages are added to it.
LEMMA HandledFacts ==
    ASSUME NEW m, NEW out
    PROVE  Handled(m, out) \subseteq network \cup out
  BY DEF Handled

-----------------------------------------------------------------------------
(* Chains *)

\* A chain in the shape of ChainInv, and its tip.
LEMMA ChainInvFacts ==
    ASSUME TypeOK, ChainInv, NEW n \in Node
    PROVE  LET t == chain[n].tip_hash
           IN  /\ t \in Block
               /\ chain[n] = ChainOf(t)
               /\ ValidFromGenesis(t)
               /\ tip(chain[n]) = t
               /\ height(chain[n]) = Len(t)
               /\ chain[n].by_hash = Prefixes(t)
               /\ DOMAIN chain[n].by_height = 0 .. Len(t)
               /\ Len(t) \in Nat
<1> DEFINE t == chain[n].tip_hash
<1>1. t \in Block /\ chain[n] = ChainOf(t) /\ ValidFromGenesis(t)
  BY DEF TypeOK, ChainInv
<1> HIDE DEF t
<1>2. /\ tip(ChainOf(t)) = t /\ height(ChainOf(t)) = Len(t)
      /\ ChainOf(t).by_hash = Prefixes(t)
      /\ DOMAIN ChainOf(t).by_height = 0 .. Len(t)
      /\ Len(t) \in Nat
  BY <1>1, ChainOfFacts, WholeBlock
<1> QED  BY <1>1, <1>2 DEF t

\* MineLands: the new tip is the mined block, one above the old tip.
LEMMA MineClimbs ==
    ASSUME LedgerAssumption, TypeOK, ChainInv, NEW n \in Node,
           NEW stamp \in GoodStamp,
           CanAppend(chain[n], MinedBlock(candidate[n].prev, candidate[n].txs, stamp))
    PROVE  LET b == MinedBlock(candidate[n].prev, candidate[n].txs, stamp)
           IN  /\ b \in Block
               /\ prev_hash(b) = chain[n].tip_hash
               /\ candidate[n].prev = chain[n].tip_hash
               /\ Len(b) = Len(chain[n].tip_hash) + 1
               /\ ValidFromGenesis(b)
               /\ apply(chain[n], << b >>) = ChainOf(b)
<1> DEFINE p == candidate[n].prev
           b == MinedBlock(p, candidate[n].txs, stamp)
           t == chain[n].tip_hash
<1>1. p \in Block /\ candidate[n].txs \in SUBSET Tx /\ stamp \in Stamp
  BY DEF TypeOK, LedgerAssumption
<1>2. /\ t \in Block /\ chain[n] = ChainOf(t) /\ ValidFromGenesis(t)
      /\ tip(chain[n]) = t /\ Len(t) \in Nat
  BY ChainInvFacts
<1>3. /\ b \in Block /\ Len(b) = Len(p) + 1 /\ IsPrefix(p, b)
      /\ prev_hash(b) = p
      /\ apply(ChainOf(p), << b >>) = ChainOf(b)
  BY <1>1, MinedBlockFacts, ApplyMined
<1>4. prev_hash(b) = t /\ Sound(b)
  BY <1>2 DEF CanAppend, validate_block
<1> HIDE DEF b, p, t
<1>5. p = t
  BY <1>3, <1>4
<1>6. ValidFromGenesis(b)
  <2>1. \A h \in Len(t) + 1 .. Len(b) : h = Len(b)
    BY <1>2, <1>3, <1>5
  <2>2. SubSeq(b, 1, Len(b)) = b
    BY <1>3, WholeBlock
  <2>3. IsPrefix(t, b)
    BY <1>3, <1>5
  <2> QED  BY <1>2, <1>3, <1>4, <2>1, <2>2, <2>3, ValidExtends
<1> QED  BY <1>2, <1>3, <1>4, <1>5, <1>6 DEF b, p, t

\* IngestLands: the drain extends the tip by valid blocks that are in the pool.
LEMMA LandDrains ==
    ASSUME TypeOK, ChainInv, NEW n \in Node, NEW b \in Block,
           NEW start \in Block,
           \/ start = chain[n].tip_hash
           \/ start = b /\ validate_block(b, chain[n].tip_hash),
           NEW d \in Drains(start, pool[n] \cup {b})
    PROVE  LET t == chain[n].tip_hash
           IN  /\ d \in Block /\ IsPrefix(t, d) /\ ValidFromGenesis(d)
               /\ apply(chain[n], Path(t, d)) = ChainOf(d)
               /\ \A h \in Len(t) + 1 .. Len(d) : SubSeq(d, 1, h) \in pool[n] \cup {b}
<1> DEFINE t == chain[n].tip_hash
           parked == pool[n] \cup {b}
<1>1. /\ t \in Block /\ chain[n] = ChainOf(t) /\ ValidFromGenesis(t)
      /\ Len(t) \in Nat /\ parked \in SUBSET Block
  BY ChainInvFacts DEF TypeOK
<1>2. /\ d \in Block /\ IsPrefix(start, d)
      /\ \A h \in Len(start) + 1 .. Len(d) :
             SubSeq(d, 1, h) \in parked /\ Sound(SubSeq(d, 1, h))
  BY <1>1, DrainFacts
<1> HIDE DEF t
<1>3. /\ IsPrefix(t, start) /\ ValidFromGenesis(start)
      /\ start = t \/ (start = b /\ Len(b) = Len(t) + 1)
  <2>1. CASE start = t
    <3>1. IsPrefix(t, t)
      BY <1>1 DEF IsPrefix
    <3> QED  BY <1>1, <2>1, <3>1
  <2>2. CASE start = b /\ validate_block(b, t)
    <3>1. b # GENESIS /\ prev_hash(b) = t /\ Sound(b)
      BY <2>2 DEF validate_block
    <3>2. IsPrefix(t, b) /\ Len(t) = Len(b) - 1 /\ Len(b) \in Nat
      BY <3>1, ParentFacts
    <3>3. \A h \in Len(t) + 1 .. Len(b) : h = Len(b)
      BY <1>1, <3>2
    <3>4. SubSeq(b, 1, Len(b)) = b
      BY WholeBlock
    <3>5. ValidFromGenesis(b)
      BY <1>1, <3>1, <3>2, <3>3, <3>4, ValidExtends
    <3> QED  BY <1>1, <2>2, <3>2, <3>5
  <2> QED  BY <2>1, <2>2 DEF t
<1>4. IsPrefix(t, d) /\ ValidFromGenesis(d)
  BY <1>1, <1>2, <1>3, PrefixTransitive, ValidExtends
<1>5. apply(chain[n], Path(t, d)) = ChainOf(d)
  BY <1>1, <1>2, <1>4, ApplyPath
<1>6. ASSUME NEW h \in Len(t) + 1 .. Len(d)
      PROVE  SubSeq(d, 1, h) \in parked
  <2>1. CASE start = b /\ Len(b) = Len(t) + 1 /\ h = Len(b)
    <3>1. SubSeq(d, 1, h) = b
      BY <1>2, <2>1, PrefixIsAncestor
    <3> QED  BY <3>1
  <2>2. CASE ~ (start = b /\ Len(b) = Len(t) + 1 /\ h = Len(b))
    <3>1. h \in Len(start) + 1 .. Len(d)
      BY <1>1, <1>3, <2>2
    <3> QED  BY <1>2, <3>1
  <2> QED  BY <2>1, <2>2
<1> QED  BY <1>2, <1>4, <1>5, <1>6 DEF t

\* IngestLands: from the block where the drain starts to the end of the
\* reorganisation the chain only climbs.
LEMMA LandClimbs ==
    ASSUME TypeOK, ChainInv, NEW n \in Node, NEW b \in Block,
           NEW start \in Block,
           \/ start = chain[n].tip_hash
           \/ start = b /\ validate_block(b, chain[n].tip_hash),
           NEW d \in Drains(start, pool[n] \cup {b}),
           NEW final \in Reorgs(apply(chain[n], Path(chain[n].tip_hash, d)),
                                pool[n] \cup {b})
    PROVE  /\ Climbs(chain[n], final)
           /\ final.tip_hash \in Block
           /\ final = ChainOf(final.tip_hash)
<1> DEFINE t == chain[n].tip_hash
           parked == pool[n] \cup {b}
<1>1. /\ t \in Block /\ chain[n] = ChainOf(t) /\ ValidFromGenesis(t)
      /\ Len(t) \in Nat /\ parked \in SUBSET Block
  BY ChainInvFacts DEF TypeOK
<1>2. /\ d \in Block /\ IsPrefix(t, d) /\ ValidFromGenesis(d)
      /\ apply(chain[n], Path(t, d)) = ChainOf(d)
  BY LandDrains
<1> HIDE DEF t, parked
<1>6. final \in Reorgs(ChainOf(d), parked)
  BY <1>2 DEF t, parked
<1>7. \/ final = ChainOf(d)
      \/ \E e \in Block : /\ final = ChainOf(e) /\ Len(e) > Len(d)
                          /\ ValidFromGenesis(e)
  BY <1>1, <1>2, <1>6, ReorgFacts
<1>8. /\ Len(t) \in 0 .. Len(d) /\ t = SubSeq(d, 1, Len(t))
      /\ Len(d) \in Nat /\ SubSeq(d, 1, Len(d)) = d
  BY <1>1, <1>2, <1>2, PrefixIsAncestor, WholeBlock
<1>9. \A e \in Block : ChainOf(e).tip_hash = e
  BY DEF ChainOf
<1>10. CASE final = ChainOf(d)
  <2>1. CASE Len(d) = Len(t)
    <3>1. d = t
      BY <1>8, <2>1
    <3> QED  BY <1>1, <1>9, <1>10, <3>1 DEF Climbs
  <2>2. CASE Len(d) # Len(t)
    <3>0. Len(t) \in Nat /\ Len(d) \in Nat /\ Len(t) <= Len(d)
      BY <1>1, <1>8
    <3>1. Len(d) > Len(t)
      BY <3>0, <2>2
    <3> QED  BY <1>2, <1>2, <1>9, <1>10, <3>1 DEF Climbs, t
  <2> QED  BY <2>1, <2>2
<1>11. CASE \E e \in Block : /\ final = ChainOf(e) /\ Len(e) > Len(d)
                             /\ ValidFromGenesis(e)
  <2>1. PICK e \in Block : /\ final = ChainOf(e) /\ Len(e) > Len(d)
                           /\ ValidFromGenesis(e)
    BY <1>11
  <2>2. Len(e) \in Nat
    BY WholeBlock
  <2>3. Len(e) > Len(t)
    BY <1>1, <1>8, <2>1, <2>2
  <2> QED  BY <1>9, <2>1, <2>3 DEF Climbs, t
<1> QED  BY <1>7, <1>10, <1>11

-----------------------------------------------------------------------------
(* Every step preserves the invariant and only climbs *)

\* The effect of a step on the chains, from which ChainInv' follows.
ChainsClimb == DOMAIN chain' = Node /\ \A n \in Node : Climbs(chain[n], chain'[n])

\* The invariant holds when the nodes boot.
LEMMA InitInv ==
    ASSUME LedgerAssumption, NodeAssumption
    PROVE  Init => Inv
<1> SUFFICES ASSUME Init PROVE Inv
  OBVIOUS
<1> USE DEF Init
<1>1. GENESIS \in Block /\ Len(GENESIS) = 0
  BY GenesisBlock
<1>2. NewChain.tip_hash = GENESIS
  BY DEF NewChain
<1>3. TypeOK
  BY <1>1, <1>2 DEF TypeOK, NodeAssumption
<1>4. ChainInv
  <2>1. ValidFromGenesis(GENESIS)
    BY <1>1 DEF ValidFromGenesis
  <2> QED  BY <1>2, <2>1, NewChainFacts DEF ChainInv
<1>5. WireHeightsTrue
  BY DEF WireHeightsTrue, NodeAssumption
<1> QED  BY <1>3, <1>4, <1>5 DEF Inv

\* MineLands preserves the types.
LEMMA MineLandsStep ==
    ASSUME LedgerAssumption, NodeAssumption, Inv,
           NEW n \in Miner, MineLands(n)
    PROVE  TypeOK' /\ ChainsClimb /\ WireHeightsTrue'
<1> USE DEF Inv
<1>0. n \in Node
  BY DEF NodeAssumption
<1>1. PICK stamp \in GoodStamp :
        LET b    == MinedBlock(candidate[n].prev, candidate[n].txs, stamp)
            c    == apply(chain[n], << b >>)
            rest == remove(pending[n], candidate[n].txs)
        IN  /\ CanAppend(chain[n], b)
            /\ chain'   = [chain EXCEPT ![n] = c]
            /\ pending' = [pending EXCEPT ![n] = rest]
            /\ mined'   = [mined EXCEPT ![n] = @ \cup {b}]
            /\ network' = network \cup broadcast_block(n, b, height(c))
            /\ Snapshot(n, c.tip_hash, rest)
            /\ UNCHANGED << pool, inflight, peers >>
  BY DEF MineLands
<1> DEFINE b    == MinedBlock(candidate[n].prev, candidate[n].txs, stamp)
           c    == apply(chain[n], << b >>)
           rest == remove(pending[n], candidate[n].txs)
<1>2. /\ b \in Block /\ c = ChainOf(b) /\ ValidFromGenesis(b)
      /\ Len(b) = Len(chain[n].tip_hash) + 1
  BY <1>0, <1>1, MineClimbs
<1> HIDE DEF b
<1>3. c.tip_hash = b /\ height(c) = Len(b) /\ Len(b) \in Nat
  BY <1>2, ChainOfFacts, WholeBlock
<1>4. chain' = [chain EXCEPT ![n] = c] /\ DOMAIN chain = Node
  BY <1>1 DEF TypeOK, b
<1> HIDE DEF c
<1>5. ChainsClimb
  <2>1. Len(chain[n].tip_hash) \in Nat
    BY <1>0, ChainInvFacts
  <2>2. Climbs(chain[n], c)
    BY <1>2, <1>3, <2>1 DEF Climbs
  <2> QED  BY <1>0, <1>4, <2>2 DEF ChainsClimb, Climbs
<1>6. broadcast_block(n, b, height(c)) \subseteq Message
  BY <1>0, <1>2, <1>3, BroadcastFacts
<1>7. rest \in SUBSET Tx
  BY <1>0 DEF TypeOK, remove
<1>8. PICK txs \in take(rest) :
          candidate' = [candidate EXCEPT ![n] = [prev |-> b, txs |-> txs]]
  BY <1>1, <1>3 DEF Snapshot, b, c
<1>9. txs \in SUBSET Tx
  BY <1>7, <1>8, TakeFacts
<1>10. TypeOK'
  <2>1. DOMAIN chain' = Node /\ \A p \in Node : chain'[p].tip_hash \in Block
    BY <1>0, <1>2, <1>3, <1>4 DEF TypeOK
  <2>2. pending' \in [Node -> SUBSET Tx]
    BY <1>0, <1>1, <1>7 DEF TypeOK
  <2>3. /\ pool' \in [Node -> SUBSET Block] /\ inflight' \in [Node -> SUBSET Block]
        /\ peers' \in [Node -> SUBSET Peer]
    BY <1>1 DEF TypeOK
  <2>4. candidate' \in [Node -> [prev : Block, txs : SUBSET Tx]]
    BY <1>0, <1>2, <1>8, <1>9 DEF TypeOK
  <2>5. mined' \in [Node -> SUBSET Block]
    BY <1>0, <1>1, <1>2 DEF TypeOK, b
  <2>6. network' \in SUBSET Message
    BY <1>1, <1>6 DEF TypeOK, b, c
  <2> QED  BY <2>1, <2>2, <2>3, <2>4, <2>5, <2>6 DEF TypeOK
<1>11. WireHeightsTrue'
  <2>1. network' = network \cup broadcast_block(n, b, height(c))
    BY <1>1 DEF b, c
  <2>2. \A m \in broadcast_block(n, b, height(c)) :
            m.height = Len(b) /\ m.type = "NewBlock" /\ m.block = b
    BY <1>0, <1>2, <1>3, BroadcastFacts
  <2> QED  BY <2>1, <2>2 DEF WireHeightsTrue, IsBlock
<1> QED  BY <1>5, <1>10, <1>11

\* Steps that leave the chains alone.
LEMMA SameChains ==
    ASSUME TypeOK, UNCHANGED chain
    PROVE  ChainsClimb
  BY DEF ChainsClimb, Climbs, TypeOK

\* MineStale only takes a new snapshot.
LEMMA MineStaleStep ==
    ASSUME NodeAssumption, Inv, NEW n \in Miner, MineStale(n)
    PROVE  TypeOK' /\ ChainsClimb /\ WireHeightsTrue'
<1> USE DEF Inv
<1>0. n \in Node
  BY DEF NodeAssumption
<1>1. PICK txs \in take(pending[n]) :
          candidate' = [candidate EXCEPT ![n] =
                            [prev |-> chain[n].tip_hash, txs |-> txs]]
  BY DEF MineStale, Snapshot
<1>2. txs \in SUBSET Tx
  BY <1>0, <1>1, TakeFacts DEF TypeOK
<1>3. candidate' \in [Node -> [prev : Block, txs : SUBSET Tx]]
  BY <1>0, <1>1, <1>2 DEF TypeOK
<1>4. UNCHANGED << chain, pending, pool, inflight, peers, mined, network >>
  BY DEF MineStale
<1>5. TypeOK'
  BY <1>3, <1>4 DEF TypeOK
<1>6. WireHeightsTrue'
  BY <1>4 DEF WireHeightsTrue, IsBlock
<1> QED  BY <1>4, <1>5, <1>6, SameChains

\* A received message leaves the network true if what it causes to be sent is.
LEMMA HandledTrue ==
    ASSUME TypeOK, WireHeightsTrue, NEW m, NEW out \in SUBSET Message,
           network' = Handled(m, out),
           \A r \in out : r.src \in Node =>
               /\ IsBlock(r) => r.height = Len(r.block)
               /\ r.type = "ChainHeightResponse" => r.height = Len(r.tip_hash)
    PROVE  network' \in SUBSET Message /\ WireHeightsTrue'
<1>1. network' \subseteq network \cup out
  BY HandledFacts
<1>2. network' \in SUBSET Message
  BY <1>1 DEF TypeOK
<1>3. WireHeightsTrue'
  BY <1>1 DEF WireHeightsTrue, IsBlock
<1> QED  BY <1>2, <1>3

\* on_submit_transaction adds at most one transaction and answers.
LEMMA SubmitStep ==
    ASSUME NodeAssumption, Inv, NEW n \in Node, NEW m \in network,
           on_submit_transaction(n, m)
    PROVE  TypeOK' /\ ChainsClimb /\ WireHeightsTrue'
<1> USE DEF Inv
<1> DEFINE accepted == CanAdd(pending[n], m.tx)
           r == [type |-> "SubmitTransactionResponse", src |-> n, dst |-> Server,
                 success |-> accepted, tx |-> m.tx]
<1>1. m.type = "SubmitTransaction" /\ m \in Message
  BY DEF on_submit_transaction, TypeOK
<1>2. m.tx \in Tx
  BY <1>1 DEF Message
<1>3. accepted \in BOOLEAN
  BY DEF CanAdd
<1>4. r \in Message
  <2> HIDE DEF accepted
  <2> QED  BY <1>2, <1>3 DEF Message, Peer, NodeAssumption
<1>5. network' = Handled(m, {r})
  BY DEF on_submit_transaction
<1>6. r.type = "SubmitTransactionResponse"
  OBVIOUS
<1> HIDE DEF r
<1>7. network' \in SUBSET Message /\ WireHeightsTrue'
  BY <1>4, <1>5, <1>6, HandledTrue DEF IsBlock
<1>8. pending' = [pending EXCEPT ![n] = @ \cup (IF accepted THEN {m.tx} ELSE {})]
  BY DEF on_submit_transaction
<1>9. UNCHANGED << chain, pool, inflight, peers, candidate, mined >>
  BY DEF on_submit_transaction
<1> HIDE DEF accepted
<1>10. pending' \in [Node -> SUBSET Tx]
  BY <1>2, <1>8 DEF TypeOK
<1>11. TypeOK'
  BY <1>7, <1>9, <1>10 DEF TypeOK
<1> QED  BY <1>7, <1>9, <1>11, SameChains

\* on_get_chain_height answers with the height of the tip it names.
LEMMA GetHeightStep ==
    ASSUME NodeAssumption, Inv, NEW n \in Node, NEW m \in network,
           on_get_chain_height(n, m)
    PROVE  TypeOK' /\ ChainsClimb /\ WireHeightsTrue'
<1> USE DEF Inv
<1> DEFINE r == [type |-> "ChainHeightResponse", src |-> n, dst |-> Server,
                 height |-> height(chain[n]), tip_hash |-> chain[n].tip_hash]
<1>1. /\ chain[n].tip_hash \in Block
      /\ height(chain[n]) = Len(chain[n].tip_hash)
      /\ Len(chain[n].tip_hash) \in Nat
  BY ChainInvFacts
<1>2. r \in Message
  BY <1>1 DEF Message, Peer, NodeAssumption
<1>3. r.type = "ChainHeightResponse" /\ r.height = Len(r.tip_hash)
  BY <1>1
<1>4. network' = Handled(m, {r})
  BY DEF on_get_chain_height
<1> HIDE DEF r
<1>5. network' \in SUBSET Message /\ WireHeightsTrue'
  <2>1. {r} \in SUBSET Message
    BY <1>2
  <2>2. \A x \in {r} : ~ IsBlock(x) /\ x.height = Len(x.tip_hash)
    BY <1>3 DEF IsBlock
  <2> QED  BY <1>4, <2>1, <2>2, HandledTrue
<1>6. UNCHANGED << chain, pending, pool, inflight, peers, candidate, mined >>
  BY DEF on_get_chain_height
<1>7. TypeOK'
  BY <1>5, <1>6 DEF TypeOK
<1> QED  BY <1>5, <1>6, <1>7, SameChains

\* on_get_block serves the block its index holds at the asked height, which
\* is a block of that height.
LEMMA GetBlockStep ==
    ASSUME NodeAssumption, Inv, NEW n \in Node, NEW m \in network,
           on_get_block(n, m)
    PROVE  TypeOK' /\ ChainsClimb /\ WireHeightsTrue'
<1> USE DEF Inv
<1> DEFINE t == chain[n].tip_hash
           found == m.height \in DOMAIN chain[n].by_height
           r == [type |-> "BlockResponse", src |-> n, dst |-> m.src,
                 height |-> m.height, block |-> chain[n].by_height[m.height]]
           out == IF found THEN SendTo(n, m.src, r) ELSE {}
<1>1. m.type = "GetBlock" /\ m \in Message /\ m.src \in Peer
  BY DEF on_get_block, TypeOK
<1>2. m.height \in Int
  BY <1>1 DEF Message
<1>3. /\ t \in Block /\ chain[n] = ChainOf(t)
      /\ DOMAIN chain[n].by_height = 0 .. Len(t)
  BY ChainInvFacts
<1>4. ASSUME found
      PROVE  /\ chain[n].by_height[m.height] \in Block
             /\ Len(chain[n].by_height[m.height]) = m.height
  <2>1. m.height \in 0 .. Len(t)
    BY <1>3, <1>4
  <2>2. chain[n].by_height[m.height] = SubSeq(t, 1, m.height)
    BY <1>3, <2>1 DEF ChainOf
  <2> QED  BY <1>3, <2>1, <2>2, PrefixBlock
<1>5. out \subseteq Message /\ \A x \in out : IsBlock(x) => x.height = Len(x.block)
  <2>1. CASE found
    <3>1. out \subseteq {r}
      BY <2>1, SendToFacts
    <3>2. r \in Message /\ r.height = Len(r.block)
      BY <1>1, <1>2, <1>4, <2>1 DEF Message, Peer, NodeAssumption
    <3> HIDE DEF r, out
    <3> QED  BY <3>1, <3>2
  <2>2. CASE ~ found
    BY <2>2
  <2> QED  BY <2>1, <2>2
<1>6. \A x \in out : x.type = "BlockResponse"
  BY DEF SendTo
<1>7. network' = Handled(m, out)
  BY DEF on_get_block
<1> HIDE DEF out
<1>8. network' \in SUBSET Message /\ WireHeightsTrue'
  BY <1>5, <1>6, <1>7, HandledTrue
<1>9. UNCHANGED << chain, pending, pool, inflight, peers, candidate, mined >>
  BY DEF on_get_block
<1>10. TypeOK'
  BY <1>8, <1>9 DEF TypeOK
<1> QED  BY <1>8, <1>9, <1>10, SameChains

\* The outcomes that park nothing and send nothing.
LEMMA QuietStep ==
    ASSUME NodeAssumption, Inv, NEW n \in Node, NEW m \in network,
           IngestKnown(n, m) \/ IngestInvalid(n, m) \/ Refuse(n, m)
    PROVE  TypeOK' /\ ChainsClimb /\ WireHeightsTrue'
<1> USE DEF Inv
<1>1. network' = Handled(m, {})
  BY DEF IngestKnown, IngestInvalid, Refuse
<1>2. network' \in SUBSET Message /\ WireHeightsTrue'
  BY <1>1, HandledTrue
<1>3. UNCHANGED << chain, pending, pool, peers, candidate, mined >>
  BY DEF IngestKnown, IngestInvalid, Refuse
<1>4. inflight' \in [Node -> SUBSET Block]
  BY DEF IngestKnown, IngestInvalid, Refuse, TypeOK
<1>5. TypeOK'
  BY <1>2, <1>3, <1>4 DEF TypeOK
<1> QED  BY <1>2, <1>3, <1>5, SameChains

\* IngestOrphan parks a block and may ask for its parent, which is a block.
LEMMA OrphanStep ==
    ASSUME NodeAssumption, Inv, NEW n \in Node, NEW m \in network,
           IngestOrphan(n, m)
    PROVE  TypeOK' /\ ChainsClimb /\ WireHeightsTrue'
<1> USE DEF Inv
<1> DEFINE parent == prev_hash(m.block)
           kick   == NeedsAsking(n, parent)
           out    == IF kick THEN SendTo(n, m.src, GetParent(n, m)) ELSE {}
<1>1. IsBlock(m) /\ m \in Message
  BY DEF IngestOrphan, TypeOK
<1>2. m.block \in Block /\ m.height \in Int /\ m.src \in Peer
  BY <1>1, BlockMessage
<1>3. m.block # GENESIS
  <2>1. chain[n].by_hash = Prefixes(chain[n].tip_hash) /\ chain[n].tip_hash \in Block
    BY ChainInvFacts
  <2>2. GENESIS \in chain[n].by_hash
    BY <2>1, WholeBlock DEF Prefixes
  <2> QED  BY <2>2 DEF IngestOrphan, Known
<1>4. parent \in Block
  BY <1>2, <1>3, ParentFacts
<1>5. /\ GetParent(n, m) \in Message /\ GetParent(n, m).type = "GetBlock"
  BY <1>2 DEF GetParent, Message, Peer, NodeAssumption
<1>6. out \subseteq {GetParent(n, m)}
  BY SendToFacts
<1>7. network' = Handled(m, out)
  BY DEF IngestOrphan
<1> HIDE DEF out
<1>8. network' \in SUBSET Message /\ WireHeightsTrue'
  <2>1. out \in SUBSET Message
    BY <1>5, <1>6
  <2>2. \A x \in out : ~ IsBlock(x) /\ x.type # "ChainHeightResponse"
    BY <1>5, <1>6 DEF IsBlock
  <2> QED  BY <1>7, <2>1, <2>2, HandledTrue
<1>9. UNCHANGED << chain, pending, peers, candidate, mined >>
  BY DEF IngestOrphan
<1>10. pool' \in [Node -> SUBSET Block]
  BY <1>2 DEF IngestOrphan, TypeOK
<1>11. inflight' \in [Node -> SUBSET Block]
  BY <1>4 DEF IngestOrphan, TypeOK
<1>12. TypeOK'
  BY <1>8, <1>9, <1>10, <1>11 DEF TypeOK
<1> QED  BY <1>8, <1>9, <1>12, SameChains

\* What a landing that drains to d and ends on the chain final takes out of
\* the mempool: the drained transactions, and all of an adopted chain.
Cleared(c, d, final) ==
    PathTxs(c.tip_hash, d)
    \cup (IF final = apply(c, Path(c.tip_hash, d)) THEN {}
          ELSE PathTxs(GENESIS, final.tip_hash))

\* What the outcome of a landing is made of, in a form the proofs below share.
LEMMA LandsFacts ==
    ASSUME NodeAssumption, Inv, NEW n \in Node, NEW m \in network,
           IngestLands(n, m)
    PROVE  /\ m.block \in Block
           /\ m.block # GENESIS
           /\ prev_hash(m.block) \in chain[n].by_hash
           /\ pool' = [pool EXCEPT ![n] = @ \cup {m.block}]
           /\ inflight' = [inflight EXCEPT ![n] = @ \ {m.block}]
           /\ UNCHANGED << peers, candidate, mined >>
           /\ \E start \in Block :
              \E d \in Drains(start, pool[n] \cup {m.block}) :
              \E final \in Reorgs(apply(chain[n], Path(chain[n].tip_hash, d)),
                                  pool[n] \cup {m.block}) :
              \E out :
                 /\ \/ start = chain[n].tip_hash
                    \/ start = m.block /\ validate_block(m.block, chain[n].tip_hash)
                 /\ chain' = [chain EXCEPT ![n] = final]
                 /\ pending' = [pending EXCEPT ![n] =
                        remove(@, Cleared(chain[n], d, final))]
                 /\ out \subseteq (IF final.tip_hash = m.block
                                   THEN broadcast_block(n, m.block, height(final))
                                   ELSE {})
                 /\ network' = Handled(m, out)
<1> USE DEF Inv
<1> DEFINE b      == m.block
           c      == chain[n]
           parked == pool[n] \cup {b}
           status == try_extend(c, b)
           start  == IF status = "EXTENDS_TIP" THEN b ELSE c.tip_hash
<1>1. IsBlock(m) /\ m \in Message
  BY DEF IngestLands, TypeOK
<1>2. b \in Block
  BY <1>1, BlockMessage
<1>3. /\ c.tip_hash \in Block /\ tip(c) = c.tip_hash
      /\ c.by_hash = Prefixes(c.tip_hash)
  BY ChainInvFacts
<1>4. b # GENESIS
  <2>1. GENESIS \in c.by_hash
    BY <1>3, WholeBlock DEF Prefixes
  <2> QED  BY <2>1 DEF IngestLands, Known
<1>5. status \in {"EXTENDS_TIP", "FORK_BRANCH"}
  BY DEF IngestLands
<1>6. status = "EXTENDS_TIP" => validate_block(b, c.tip_hash)
  BY <1>3 DEF try_extend
<1>7. prev_hash(b) \in c.by_hash
  <2>1. c.tip_hash \in c.by_hash
    <3>1. Len(c.tip_hash) \in 0 .. Len(c.tip_hash)
          /\ SubSeq(c.tip_hash, 1, Len(c.tip_hash)) = c.tip_hash
      BY <1>3, WholeBlock
    <3> QED  BY <1>3, <3>1 DEF Prefixes
  <2> QED  BY <1>5, <2>1 DEF try_extend
<1>8. start \in Block
  BY <1>2, <1>3
<1>9. \/ start = c.tip_hash
      \/ start = b /\ validate_block(b, c.tip_hash)
  BY <1>6
<1>10. PICK d \in Drains(start, parked) :
          LET drained == apply(c, Path(c.tip_hash, d))
              landed  == PathTxs(c.tip_hash, d)
          IN  \E final \in Reorgs(drained, parked) :
                  LET adopted == IF final = drained THEN {}
                                 ELSE PathTxs(GENESIS, final.tip_hash)
                      forward == m.type = "NewBlock" /\ final.tip_hash = b
                  IN  /\ chain'   = [chain EXCEPT ![n] = final]
                      /\ pending' = [pending EXCEPT ![n] = remove(@, landed \cup adopted)]
                      /\ network' = Handled(m, IF forward
                            THEN broadcast_block(n, b, height(final)) ELSE {})
  BY DEF IngestLands
<1>11. PICK final \in Reorgs(apply(c, Path(c.tip_hash, d)), parked) :
          \E out :
             /\ chain' = [chain EXCEPT ![n] = final]
             /\ pending' = [pending EXCEPT ![n] = remove(@, Cleared(c, d, final))]
             /\ out \subseteq (IF final.tip_hash = b
                               THEN broadcast_block(n, b, height(final)) ELSE {})
             /\ network' = Handled(m, out)
  BY <1>10 DEF Cleared
<1>12. /\ pool' = [pool EXCEPT ![n] = @ \cup {b}]
       /\ inflight' = [inflight EXCEPT ![n] = @ \ {b}]
       /\ UNCHANGED << peers, candidate, mined >>
  BY DEF IngestLands, TypeOK
<1> HIDE DEF start
<1> QED  BY <1>2, <1>4, <1>7, <1>8, <1>9, <1>11, <1>12

\* IngestLands leaves a higher valid chain or the same one, and forwards the
\* block only as the tip, at its height.
LEMMA LandsStep ==
    ASSUME NodeAssumption, Inv, NEW n \in Node, NEW m \in network,
           IngestLands(n, m)
    PROVE  TypeOK' /\ ChainsClimb /\ WireHeightsTrue'
<1> USE DEF Inv
<1> DEFINE b == m.block
<1>1. /\ b \in Block
      /\ pool' = [pool EXCEPT ![n] = @ \cup {b}]
      /\ inflight' = [inflight EXCEPT ![n] = @ \ {b}]
      /\ UNCHANGED << peers, candidate, mined >>
  BY LandsFacts
<1> DEFINE Ends(start, d, final, out) ==
             /\ \/ start = chain[n].tip_hash
                \/ start = b /\ validate_block(b, chain[n].tip_hash)
             /\ chain' = [chain EXCEPT ![n] = final]
             /\ pending' = [pending EXCEPT ![n] = remove(@, Cleared(chain[n], d, final))]
             /\ out \subseteq (IF final.tip_hash = b
                               THEN broadcast_block(n, b, height(final)) ELSE {})
             /\ network' = Handled(m, out)
           From(start, d) == Reorgs(apply(chain[n], Path(chain[n].tip_hash, d)),
                                    pool[n] \cup {b})
<1>a. PICK start \in Block : \E d \in Drains(start, pool[n] \cup {b}) :
        \E final \in From(start, d) : \E out : Ends(start, d, final, out)
  BY LandsFacts
<1>b. PICK d \in Drains(start, pool[n] \cup {b}) :
        \E final \in From(start, d) : \E out : Ends(start, d, final, out)
  BY <1>a
<1>c. PICK final \in From(start, d) : \E out : Ends(start, d, final, out)
  BY <1>b
<1>2. PICK out : Ends(start, d, final, out)
  BY <1>c
<1>3. /\ Climbs(chain[n], final) /\ final.tip_hash \in Block
      /\ final = ChainOf(final.tip_hash)
  BY <1>1, <1>2, LandClimbs
<1>4. DOMAIN chain = Node
  BY DEF TypeOK
<1>5. ChainsClimb
  BY <1>2, <1>3, <1>4 DEF ChainsClimb, Climbs
<1>6. height(final) = Len(final.tip_hash) /\ Len(final.tip_hash) \in Nat
  BY <1>3, ChainOfFacts, WholeBlock
<1>7. /\ out \in SUBSET Message
      /\ \A x \in out : x.height = Len(x.block) /\ x.type = "NewBlock"
  <2>1. CASE final.tip_hash = b
    <3>1. height(final) = Len(b) /\ height(final) \in Int
      BY <1>6, <2>1
    <3>2. /\ broadcast_block(n, b, height(final)) \subseteq Message
          /\ \A x \in broadcast_block(n, b, height(final)) :
                x.height = height(final) /\ x.type = "NewBlock" /\ x.block = b
      BY <1>1, <3>1, BroadcastFacts
    <3> QED  BY <1>2, <2>1, <3>1, <3>2
  <2>2. CASE final.tip_hash # b
    BY <1>2, <2>2
  <2> QED  BY <2>1, <2>2
<1>8. network' \in SUBSET Message /\ WireHeightsTrue'
  BY <1>2, <1>7, HandledTrue
<1>9. TypeOK'
  <2>1. DOMAIN chain' = Node /\ \A p \in Node : chain'[p].tip_hash \in Block
    BY <1>2, <1>3, <1>4 DEF TypeOK
  <2>2. pending' \in [Node -> SUBSET Tx]
    BY <1>2 DEF TypeOK, remove
  <2>3. pool' \in [Node -> SUBSET Block] /\ inflight' \in [Node -> SUBSET Block]
    BY <1>1 DEF TypeOK
  <2> QED  BY <1>1, <1>8, <2>1, <2>2, <2>3 DEF TypeOK
<1> QED  BY <1>5, <1>8, <1>9

\* Discover changes the peers alone.
LEMMA DiscoverStep ==
    ASSUME NodeAssumption, Inv, NEW n \in Node, NEW p \in Peer, Discover(n, p)
    PROVE  TypeOK' /\ ChainsClimb /\ WireHeightsTrue'
<1> USE DEF Inv
<1>1. UNCHANGED << chain, pending, pool, inflight, candidate, mined, network >>
  BY DEF Discover
<1>2. peers' \in [Node -> SUBSET Peer]
  BY DEF Discover, TypeOK
<1>3. TypeOK' /\ WireHeightsTrue'
  BY <1>1, <1>2 DEF TypeOK, WireHeightsTrue, IsBlock
<1> QED  BY <1>1, <1>3, SameChains

\* Every step keeps the types, moves each chain only up, and sends only true
\* heights.
LEMMA NextStep ==
    ASSUME LedgerAssumption, NodeAssumption, Inv, Next
    PROVE  TypeOK' /\ ChainsClimb /\ WireHeightsTrue'
<1>1. ASSUME NEW n \in Miner, MineLands(n) \/ MineStale(n)
      PROVE  TypeOK' /\ ChainsClimb /\ WireHeightsTrue'
  BY <1>1, MineLandsStep, MineStaleStep
<1>2. ASSUME NEW n \in Node, Deliver(n)
      PROVE  TypeOK' /\ ChainsClimb /\ WireHeightsTrue'
  <2>1. PICK m \in network : Receive(n, m)
    BY <1>2 DEF Deliver
  <2>2. CASE on_submit_transaction(n, m)
    BY <2>2, SubmitStep
  <2>3. CASE on_get_chain_height(n, m)
    BY <2>3, GetHeightStep
  <2>4. CASE on_get_block(n, m)
    BY <2>4, GetBlockStep
  <2>5. CASE IngestKnown(n, m) \/ IngestInvalid(n, m) \/ Refuse(n, m)
    BY <2>5, QuietStep
  <2>6. CASE IngestOrphan(n, m)
    BY <2>6, OrphanStep
  <2>7. CASE IngestLands(n, m)
    BY <2>7, LandsStep
  <2> QED  BY <2>1, <2>2, <2>3, <2>4, <2>5, <2>6, <2>7 DEF Receive
<1>3. ASSUME NEW n \in Node, NEW p \in Peer, Discover(n, p)
      PROVE  TypeOK' /\ ChainsClimb /\ WireHeightsTrue'
  BY <1>3, DiscoverStep
<1> QED  BY <1>1, <1>2, <1>3 DEF Next

\* A chain that only climbs stays the one valid chain of its tip.
LEMMA ClimbKeepsInv ==
    ASSUME Inv, TypeOK', ChainsClimb, WireHeightsTrue'
    PROVE  Inv'
<1>1. ASSUME NEW n \in Node
      PROVE  chain'[n] = ChainOf(chain'[n].tip_hash)
             /\ ValidFromGenesis(chain'[n].tip_hash)
  <2>1. CASE chain'[n] = chain[n]
    BY <2>1 DEF Inv, ChainInv
  <2>2. CASE \E b \in Block : chain'[n] = ChainOf(b) /\ ValidFromGenesis(b)
    BY <2>2 DEF ChainOf
  <2> QED  BY <2>1, <2>2 DEF ChainsClimb, Climbs
<1> QED  BY <1>1 DEF Inv, ChainInv

\* Inv is inductive.
LEMMA InvStep ==
    ASSUME LedgerAssumption, NodeAssumption
    PROVE  Inv /\ [Next]_vars => Inv'
<1> SUFFICES ASSUME Inv, [Next]_vars PROVE Inv'
  OBVIOUS
<1>1. CASE Next
  BY <1>1, NextStep, ClimbKeepsInv DEF Inv
<1>2. CASE UNCHANGED vars
  BY <1>2 DEF vars, Inv, TypeOK, ChainInv, WireHeightsTrue, IsBlock
<1> QED  BY <1>1, <1>2

\* Inv is an invariant.
LEMMA InvAlways == Spec => []Inv
  BY LedgerAssumption, NodeAssumption, InitInv, InvStep, PTL DEF Spec

-----------------------------------------------------------------------------
(* The theorems *)

\* Every variable keeps its type.
THEOREM TypeCorrect == Spec => []TypeOK
<1>1. Inv => TypeOK
  BY DEF Inv
<1> QED  BY <1>1, InvAlways, PTL

\* The list, both indexes and the tip of a chain always tell one story, and
\* every block on it is valid, whatever is mined, received, drained or adopted.
THEOREM LedgerCorrect == Spec => []LedgerAgrees
<1>1. ASSUME Inv, NEW n \in Node
      PROVE  OneStory(chain[n]) /\ ValidFromGenesis(chain[n].tip_hash)
  <2> DEFINE t == chain[n].tip_hash
  <2>1. t \in Block /\ chain[n] = ChainOf(t) /\ ValidFromGenesis(t)
    BY <1>1, ChainInvFacts DEF Inv
  <2> HIDE DEF t
  <2>2. /\ chain[n].blocks = walk_to_genesis(t)
        /\ chain[n].by_hash = Prefixes(t)
        /\ chain[n].by_height = [h \in 0 .. Len(t) |-> SubSeq(t, 1, h)]
    BY <2>1 DEF ChainOf
  <2> QED  BY <2>1, <2>2 DEF OneStory, t
<1>2. Inv => LedgerAgrees
  BY <1>1 DEF LedgerAgrees
<1> QED  BY <1>2, InvAlways, PTL

\* Every height a node sends beside a block or a tip is the true one.
THEOREM WireHeightsCorrect == Spec => []WireHeightsTrue
<1>1. Inv => WireHeightsTrue
  BY DEF Inv
<1> QED  BY <1>1, InvAlways, PTL

\* No step replaces a tip by a block that is not higher.
THEOREM TipsClimb == Spec => TipOnlyClimbs
<1>1. ASSUME LedgerAssumption, NodeAssumption, Inv, [Next]_vars
      PROVE  [\A n \in Node : chain'[n] # chain[n] =>
                  Len(chain'[n].tip_hash) > Len(chain[n].tip_hash)]_vars
  <2>1. CASE Next
    <3>1. ChainsClimb
      BY <1>1, <2>1, NextStep
    <3> QED  BY <3>1 DEF ChainsClimb, Climbs, ChainOf
  <2>2. CASE UNCHANGED vars
    BY <2>2
  <2> QED  BY <1>1, <2>1, <2>2
<1> QED  BY <1>1, InvAlways, LedgerAssumption, NodeAssumption, PTL DEF Spec, TipOnlyClimbs

=============================================================================
