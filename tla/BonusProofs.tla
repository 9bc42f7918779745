------------------------------ MODULE BonusProofs ------------------------------
(***************************************************************************)
(* Theorems of the bonus libraries: Reorganize, for every set of candidate *)
(* lists and every depth limit; Compact, for every set of transactions,    *)
(* every assignment of short identifiers and blocks of any length;         *)
(* Retarget, for every interval and cadence; TimestampGate, for every odd  *)
(* window and every drift.                                                 *)
(***************************************************************************)
EXTENDS Reorganize, Compact, Retarget, TimestampGate, LedgerProofs, FiniteSetTheorems

-----------------------------------------------------------------------------
(* Reorganize: lists that adopt_fork takes *)

\* A list that starts at GENESIS and in which each block is the parent of the
\* next is the path to its last block.
LEMMA ListIsWalk ==
    ASSUME NEW list \in Seq(Block), Len(list) >= 1, list[1] = GENESIS,
           \A i \in 2 .. Len(list) : validate_block(list[i], list[i - 1])
    PROVE  list = walk_to_genesis(list[Len(list)])
<1> DEFINE n == Len(list)
           Good(k) == /\ Len(list[k]) = k - 1
                      /\ \A j \in 1 .. k : list[j] = SubSeq(list[k], 1, j - 1)
           Bad == {k \in 1 .. n : ~ Good(k)}
<1>1. n \in Nat \ {0} /\ \A k \in 1 .. n : list[k] \in Block
  OBVIOUS
<1>2. Bad = {}
  <2>1. SUFFICES ASSUME Bad # {}
                 PROVE  FALSE
    OBVIOUS
  <2>2. PICK m \in Bad : \A k \in Bad : m <= k
    <3>1. Bad \in SUBSET Nat
      OBVIOUS
    <3> HIDE DEF Bad
    <3> QED  BY <2>1, <3>1, LeastExists
  <2>3. m \in 1 .. n /\ ~ Good(m)
    BY <2>2
  <2>4. CASE m = 1
    <3>1. Len(list[1]) = 0 /\ SubSeq(list[1], 1, 0) = list[1]
      BY GenesisBlock
    <3>2. \A j \in 1 .. 1 : j = 1 /\ j - 1 = 0
      OBVIOUS
    <3>3. Len(list[1]) = 1 - 1 /\ \A j \in 1 .. 1 : list[j] = SubSeq(list[1], 1, j - 1)
      <4>1. ASSUME NEW j \in 1 .. 1
            PROVE  list[j] = SubSeq(list[1], 1, j - 1)
        <5>1. j = 1 /\ j - 1 = 0
          BY <3>2
        <5> QED  BY <3>1, <5>1
      <4>2. Len(list[1]) = 1 - 1
        BY <3>1
      <4> QED  BY <4>1, <4>2
    <3> QED  BY <2>3, <2>4, <3>3
  <2>5. CASE m # 1
    <3>1. m - 1 \in 1 .. n /\ m \in 2 .. n /\ m \in Nat
      BY <1>1, <2>3, <2>5
    <3>2. Good(m - 1)
      <4>1. m - 1 \notin Bad
        <5> HIDE DEF Bad
        <5>1. ~ m <= m - 1
          BY <3>1
        <5> QED  BY <2>2, <5>1
      <4> QED  BY <3>1, <4>1
    <3>3. list[m] # GENESIS /\ prev_hash(list[m]) = list[m - 1] /\ list[m] \in Block
      BY <1>1, <3>1 DEF validate_block
    <3>4. /\ Len(list[m]) \in Nat \ {0}
          /\ Len(list[m - 1]) = Len(list[m]) - 1
          /\ list[m - 1] \in Block
      BY <3>3, ParentFacts
    <3>5. Len(list[m]) = m - 1
      BY <3>1, <3>2, <3>4
    <3>6. list[m - 1] = SubSeq(list[m], 1, m - 2)
      <4>1. Len(list[m]) - 1 = m - 2
        BY <3>1, <3>5
      <4> QED  BY <3>3, <4>1 DEF prev_hash, Front
    <3>7. ASSUME NEW j \in 1 .. m
          PROVE  list[j] = SubSeq(list[m], 1, j - 1)
      <4>1. CASE j = m
        BY <3>3, <3>5, <4>1, WholeBlock
      <4>2. CASE j # m
        <5>1. j \in 1 .. m - 1 /\ j - 1 \in 0 .. m - 2 /\ m - 2 \in 0 .. Len(list[m])
          BY <3>1, <3>5, <4>2
        <5>2. list[j] = SubSeq(list[m - 1], 1, j - 1)
          BY <3>2, <5>1
        <5>3. SubSeq(SubSeq(list[m], 1, m - 2), 1, j - 1) = SubSeq(list[m], 1, j - 1)
          BY <3>3, <5>1, PrefixPrefix
        <5> QED  BY <3>6, <5>2, <5>3
      <4> QED  BY <4>1, <4>2
    <3> QED  BY <2>3, <3>5, <3>7
  <2> QED  BY <2>4, <2>5
<1>3. Good(n)
  <2>1. n \in 1 .. n /\ n \notin Bad
    BY <1>1, <1>2
  <2> QED  BY <2>1
<1> DEFINE d == list[n]
<1>4. d \in Block /\ Len(d) + 1 = n
  BY <1>1, <1>3
<1>5. /\ walk_to_genesis(d) \in Seq(Block)
      /\ Len(walk_to_genesis(d)) = n
      /\ \A i \in 1 .. n : walk_to_genesis(d)[i] = SubSeq(d, 1, i - 1)
  <2> HIDE DEF d
  <2> QED  BY <1>4, WalkFacts
<1>6. \A i \in 1 .. n : list[i] = walk_to_genesis(d)[i]
  BY <1>3, <1>5
<1> HIDE DEF d
<1>7. list = walk_to_genesis(d)
  BY <1>5, <1>6, SeqEqual
<1> QED  BY <1>7 DEF d

\* What a list that is adopted looks like, and what it makes of the chain.
LEMMA AdoptFacts ==
    ASSUME NEW t \in Block, NEW list \in Seq(Block), CanAdopt(ChainOf(t), list)
    PROVE  LET d == list[Len(list)]
           IN  /\ d \in Block
               /\ Len(d) > Len(t)
               /\ Len(list) = Len(d) + 1
               /\ \A i \in 1 .. Len(list) : list[i] = SubSeq(d, 1, i - 1)
               /\ adopt_fork(ChainOf(t), list) = ChainOf(d)
<1> DEFINE d == list[Len(list)]
           c == adopt_fork(ChainOf(t), list)
<1>1. Len(ChainOf(t).blocks) = Len(t) + 1 /\ Len(t) \in Nat
  BY WalkFacts, WholeBlock DEF ChainOf
<1>2. /\ Len(list) > Len(t) + 1 /\ Len(list) \in Nat /\ list[1] = GENESIS
      /\ \A i \in 2 .. Len(list) : validate_block(list[i], list[i - 1])
  BY <1>1 DEF CanAdopt
<1>3. d \in Block
  BY <1>1, <1>2
<1>4. list = walk_to_genesis(d)
  BY <1>1, <1>2, ListIsWalk
<1> HIDE DEF d
<1>5. /\ Len(list) = Len(d) + 1
      /\ \A i \in 1 .. Len(d) + 1 : list[i] = SubSeq(d, 1, i - 1)
  BY <1>3, <1>4, WalkFacts
<1>6. Len(d) > Len(t)
  <2>1. Len(d) \in Nat
    BY <1>3, WholeBlock
  <2> QED  BY <1>1, <1>2, <1>5, <2>1
<1>7. c = ChainOf(d)
  <2>1. c = ChainOf(t) \/ c = ChainOf(d)
    BY <1>3, <1>4, AdoptWalk
  <2>2. c.tip_hash = d
    BY DEF adopt_fork, d
  <2>3. ChainOf(t).tip_hash = t
    BY DEF ChainOf
  <2> QED  BY <2>1, <2>2, <2>3
<1> QED  BY <1>3, <1>5, <1>6, <1>7 DEF d

-----------------------------------------------------------------------------
(* Reorganize: the common ancestor *)

\* Up to the common ancestor the candidate is the chain; height 0 may only
\* stand for no agreement.
LEMMA AncestorFacts ==
    ASSUME NEW t \in Block, NEW list \in Seq(Block), Len(list) > Len(t) + 1
    PROVE  LET a == find_common_ancestor_height(ChainOf(t), list)
           IN  /\ a \in 0 .. Len(t)
               /\ \A k \in 1 .. a : list[k + 1] = SubSeq(t, 1, k)
<1> DEFINE c == ChainOf(t)
           upper == IF Len(list) < Len(c.blocks) THEN Len(list) ELSE Len(c.blocks)
           agree == {h \in 0 .. upper - 1 : \A k \in 1 .. h + 1 : list[k] = c.blocks[k]}
           S == {0} \cup agree
           a == find_common_ancestor_height(c, list)
<1>1. /\ Len(t) \in Nat /\ Len(list) \in Nat
      /\ upper = Len(t) + 1
      /\ \A i \in 1 .. Len(t) + 1 : c.blocks[i] = SubSeq(t, 1, i - 1)
  <2>1. Len(t) \in Nat /\ Len(list) \in Nat
    BY WholeBlock
  <2>2. c.blocks = walk_to_genesis(t)
    BY DEF ChainOf
  <2>3. /\ Len(c.blocks) = Len(t) + 1
        /\ \A i \in 1 .. Len(t) + 1 : c.blocks[i] = SubSeq(t, 1, i - 1)
    BY <2>2, WalkFacts
  <2>4. upper = Len(t) + 1
    BY <2>1, <2>3
  <2> QED  BY <2>1, <2>3, <2>4
<1>4. a = CHOOSE h \in S : \A k \in agree : k <= h
  BY DEF find_common_ancestor_height
<1> HIDE DEF c, upper
<1>2. S \subseteq 0 .. Len(t)
  BY <1>1
<1>3. \E h \in S : \A k \in agree : k <= h
  <2> DEFINE T == {Len(t) - k : k \in S}
  <2>1. T \in SUBSET Nat /\ T # {}
    BY <1>1, <1>2
  <2> HIDE DEF T
  <2>2. PICK m \in T : \A k \in T : m <= k
    BY <2>1, LeastExists
  <2>3. PICK h \in S : m = Len(t) - h
    BY DEF T
  <2>4. ASSUME NEW k \in agree
        PROVE  k <= h
    <3>1. Len(t) - k \in T
      BY DEF T
    <3>2. m <= Len(t) - k
      BY <2>2, <3>1
    <3>3. k \in 0 .. Len(t) /\ h \in 0 .. Len(t)
      BY <1>2
    <3> QED  BY <1>1, <2>3, <3>2, <3>3
  <2> QED  BY <2>4
<1>5. a \in S
  <2> HIDE DEF S, agree, a
  <2> QED  BY <1>3, <1>4
<1>6. a \in 0 .. Len(t)
  BY <1>2, <1>5
<1>7. ASSUME NEW k \in 1 .. a
      PROVE  list[k + 1] = SubSeq(t, 1, k)
  <2>1. a \in agree /\ k + 1 \in 1 .. a + 1 /\ k + 1 \in 1 .. Len(t) + 1 /\ (k + 1) - 1 = k
    BY <1>1, <1>5, <1>6, <1>7
  <2>2. list[k + 1] = c.blocks[k + 1]
    BY <2>1
  <2> QED  BY <1>1, <2>1, <2>2
<1> HIDE DEF a
<1> QED  BY <1>6, <1>7 DEF a, c

-----------------------------------------------------------------------------
(* Transactions of a chain, of a list, and of the displaced blocks *)

\* The transactions of a block at a height of a path.
LEMMA HeaderOf ==
    ASSUME NEW b \in Block, NEW h \in 1 .. Len(b)
    PROVE  tx_hashes(SubSeq(b, 1, h)) = b[h].txs
<1>1. h \in 0 .. Len(b) /\ h \in 1 .. h
  BY WholeBlock
<1>2. Len(SubSeq(b, 1, h)) = h /\ SubSeq(b, 1, h)[h] = b[h]
  BY <1>1, PrefixBlock
<1> QED  BY <1>2 DEF tx_hashes, Last

\* What the chain of b holds.
LEMMA OnChainOf ==
    ASSUME NEW b \in Block
    PROVE  OnChain(ChainOf(b)) = UNION {b[h].txs : h \in 1 .. Len(b)}
<1>1. ChainOf(b).tip_hash = b
  BY DEF ChainOf
<1>2. Len(GENESIS) + 1 = 1
  BY GenesisBlock
<1> QED  BY <1>1, <1>2 DEF OnChain, PathTxs

\* The transactions of an adopted list are those of the new chain.
LEMMA NewTxs ==
    ASSUME NEW t \in Block, NEW list \in Seq(Block), CanAdopt(ChainOf(t), list)
    PROVE  new_tx_hashes(list) = OnChain(adopt_fork(ChainOf(t), list))
<1> DEFINE d == list[Len(list)]
<1>1. /\ d \in Block /\ Len(list) = Len(d) + 1
      /\ \A i \in 1 .. Len(list) : list[i] = SubSeq(d, 1, i - 1)
      /\ adopt_fork(ChainOf(t), list) = ChainOf(d)
  BY AdoptFacts
<1> HIDE DEF d
<1>2. Len(d) \in Nat
  BY <1>1, WholeBlock
<1>3. ASSUME NEW h \in 1 .. Len(d)
      PROVE  h + 1 \in 2 .. Len(list) /\ tx_hashes(list[h + 1]) = d[h].txs
  <2>1. h + 1 \in 2 .. Len(list) /\ h + 1 \in 1 .. Len(list) /\ (h + 1) - 1 = h
    BY <1>1, <1>2
  <2>2. list[h + 1] = SubSeq(d, 1, h)
    BY <1>1, <2>1
  <2> QED  BY <1>1, <2>1, <2>2, HeaderOf
<1>4. ASSUME NEW i \in 2 .. Len(list)
      PROVE  i - 1 \in 1 .. Len(d) /\ tx_hashes(list[i]) = d[i - 1].txs
  <2>1. i - 1 \in 1 .. Len(d) /\ i \in 1 .. Len(list)
    BY <1>1, <1>2
  <2> QED  BY <1>1, <2>1, HeaderOf
<1>5. {tx_hashes(list[i]) : i \in 2 .. Len(list)} = {d[h].txs : h \in 1 .. Len(d)}
  BY <1>3, <1>4
<1> QED  BY <1>1, <1>5, OnChainOf DEF new_tx_hashes

\* Displaced transactions were on the chain, and one that was on the chain is
\* on the new one or displaced.
LEMMA DisplacedFacts ==
    ASSUME NEW t \in Block, NEW list \in Seq(Block), CanAdopt(ChainOf(t), list)
    PROVE  /\ displaced_tx_hashes(ChainOf(t), list) \subseteq OnChain(ChainOf(t))
           /\ OnChain(ChainOf(t)) \subseteq
                  displaced_tx_hashes(ChainOf(t), list) \cup new_tx_hashes(list)
<1> DEFINE a == find_common_ancestor_height(ChainOf(t), list)
           blocks == ChainOf(t).blocks
           gone == displaced_tx_hashes(ChainOf(t), list)
<1>1. blocks = walk_to_genesis(t)
  BY DEF ChainOf
<1>2. /\ Len(t) \in Nat /\ Len(blocks) = Len(t) + 1
      /\ \A i \in 1 .. Len(t) + 1 : blocks[i] = SubSeq(t, 1, i - 1)
  <2> HIDE DEF blocks
  <2> QED  BY <1>1, WalkFacts, WholeBlock
<1>3. gone = UNION {tx_hashes(blocks[i]) : i \in a + 2 .. Len(blocks)}
  BY DEF displaced_tx_hashes
<1>4. Len(list) > Len(t) + 1
  <2>1. Len(list) > Len(blocks)
    BY DEF CanAdopt
  <2> HIDE DEF blocks
  <2> QED  BY <1>2, <2>1
<1>5. a \in 0 .. Len(t) /\ \A k \in 1 .. a : list[k + 1] = SubSeq(t, 1, k)
  BY <1>4, AncestorFacts
<1> HIDE DEF a, blocks, gone
<1>6. OnChain(ChainOf(t)) = UNION {t[h].txs : h \in 1 .. Len(t)}
  BY OnChainOf
<1>7. ASSUME NEW i \in a + 2 .. Len(blocks)
      PROVE  i - 1 \in 1 .. Len(t) /\ tx_hashes(blocks[i]) = t[i - 1].txs
  <2>1. i - 1 \in 1 .. Len(t) /\ i \in 1 .. Len(t) + 1
    BY <1>2, <1>5
  <2> QED  BY <1>2, <2>1, HeaderOf
<1>8. ASSUME NEW tx \in OnChain(ChainOf(t))
      PROVE  tx \in gone \cup new_tx_hashes(list)
  <2>1. PICK h \in 1 .. Len(t) : tx \in t[h].txs
    BY <1>6
  <2>2. CASE h <= a
    <3>1. h \in 1 .. a /\ h + 1 \in 2 .. Len(list)
      BY <1>2, <1>4, <1>5, <2>2
    <3>2. tx_hashes(list[h + 1]) = t[h].txs
      BY <1>5, <3>1, HeaderOf
    <3> QED  BY <2>1, <3>1, <3>2 DEF new_tx_hashes
  <2>3. CASE ~ h <= a
    <3>1. h + 1 \in a + 2 .. Len(blocks) /\ (h + 1) - 1 = h
      BY <1>2, <1>5, <2>3
    <3>2. tx_hashes(blocks[h + 1]) = t[h].txs
      BY <1>7, <3>1
    <3> QED  BY <1>3, <2>1, <3>1, <3>2
  <2> QED  BY <2>2, <2>3
<1>9. gone \subseteq OnChain(ChainOf(t))
  BY <1>3, <1>6, <1>7
<1> QED  BY <1>8, <1>9 DEF gone

\* Mining adds the transactions of the new block to the chain.
LEMMA MinedTxs ==
    ASSUME NEW t \in Block, NEW txs \in SUBSET Tx, NEW stamp \in Stamp
    PROVE  OnChain(ChainOf(MinedBlock(t, txs, stamp))) = OnChain(ChainOf(t)) \cup txs
<1> DEFINE h == [txs |-> txs, stamp |-> stamp]
           b == MinedBlock(t, txs, stamp)
<1>1. h \in Header /\ h.txs = txs
  BY DEF Header
<1>2. b \in Block
  BY MinedBlockFacts
<1>3. b = Append(t, h)
  BY DEF MinedBlock
<1> HIDE DEF h
<1>4. /\ Len(t) \in Nat /\ Len(b) = Len(t) + 1 /\ b[Len(t) + 1] = h
      /\ \A i \in 1 .. Len(t) : b[i] = t[i]
  BY <1>1, <1>3, SMT DEF Block
<1> HIDE DEF b
<1>5. 1 .. Len(t) + 1 = (1 .. Len(t)) \cup {Len(t) + 1}
  BY <1>4
<1>6. /\ OnChain(ChainOf(b)) = UNION {b[i].txs : i \in 1 .. Len(b)}
      /\ OnChain(ChainOf(t)) = UNION {t[i].txs : i \in 1 .. Len(t)}
  BY <1>2, OnChainOf
<1>7. {b[i].txs : i \in 1 .. Len(b)} = {t[i].txs : i \in 1 .. Len(t)} \cup {txs}
  BY <1>1, <1>4, <1>5
<1> QED  BY <1>6, <1>7 DEF b

-----------------------------------------------------------------------------
(* Reorganize: the inductive invariant *)

\* The chain is the path to its tip, and what is pending or archived verifies.
IInv ==
    /\ chain.tip_hash \in Block
    /\ chain = ChainOf(chain.tip_hash)
    /\ pending \subseteq SignedTx
    /\ tx_archive \subseteq SignedTx
    /\ AcceptedNeverLost

\* Nothing was accepted yet.
LEMMA InitHolds == Init => IInv
<1> SUFFICES ASSUME Init
             PROVE  IInv
  OBVIOUS
<1>1. chain = ChainOf(GENESIS) /\ chain.tip_hash = GENESIS /\ GENESIS \in Block
  BY NewChainFacts, GenesisBlock DEF Init, ChainOf
<1> QED  BY <1>1 DEF Init, IInv, AcceptedNeverLost

\* What a reorganisation leaves behind: nothing, or the chain of a higher
\* block, and every displaced transaction that was accepted and is not on it.
LEMMA ReorganizeFacts ==
    ASSUME Candidates \subseteq Seq(Block), IInv,
           NEW candidate \in Candidates, reorganize(candidate)
    PROVE  \/ chain' = chain /\ pending' = pending
           \/ \E d \in Block :
                  /\ chain' = ChainOf(d)
                  /\ Len(d) > Len(chain.tip_hash)
                  /\ \A tx \in pending' \ pending : tx \in OnChain(chain) \ OnChain(chain')
                  /\ pending \subseteq pending' /\ pending' \subseteq SignedTx
                  /\ OnChain(chain) \cap tx_archive \subseteq pending' \cup OnChain(chain')
                  /\ \A k \in 1 .. find_common_ancestor_height(chain, candidate) :
                         SubSeq(d, 1, k) = SubSeq(chain.tip_hash, 1, k) /\ k <= Len(d)
<1> DEFINE t == chain.tip_hash
           d == candidate[Len(candidate)]
           gone == displaced_tx_hashes(chain, candidate)
           back == Restored(chain, candidate)
<1>1. /\ candidate \in Seq(Block) /\ t \in Block /\ chain = ChainOf(t)
      /\ pending \subseteq SignedTx /\ tx_archive \subseteq SignedTx
  BY DEF IInv
<1>2. /\ chain' = adopt_fork(chain, candidate)
      /\ pending' = pending \cup back
  BY DEF reorganize
<1>3. CASE ~ CanAdopt(chain, candidate)
  BY <1>2, <1>3 DEF adopt_fork, Restored
<1>4. CASE CanAdopt(chain, candidate)
  <2>1. /\ d \in Block /\ Len(d) > Len(t) /\ Len(candidate) = Len(d) + 1
        /\ \A i \in 1 .. Len(candidate) : candidate[i] = SubSeq(d, 1, i - 1)
        /\ adopt_fork(chain, candidate) = ChainOf(d)
    <3> HIDE DEF t
    <3> QED  BY <1>1, <1>4, AdoptFacts
  <2>2. back = {tx \in gone \ new_tx_hashes(candidate) : tx \in tx_archive /\ CanAdd(pending, tx)}
    BY <1>4 DEF Restored
  <2>3. /\ gone \subseteq OnChain(chain)
        /\ OnChain(chain) \subseteq gone \cup new_tx_hashes(candidate)
        /\ new_tx_hashes(candidate) = OnChain(chain')
    <3> HIDE DEF t
    <3> QED  BY <1>1, <1>2, <1>4, DisplacedFacts, NewTxs
  <2> HIDE DEF gone, back, d, t
  <2>4. \A tx \in pending' \ pending : tx \in OnChain(chain) \ OnChain(chain')
    BY <1>2, <2>2, <2>3
  <2>5. pending \subseteq pending' /\ pending' \subseteq SignedTx
    BY <1>1, <1>2, <2>2
  <2>6. ASSUME NEW tx \in OnChain(chain), tx \in tx_archive
        PROVE  tx \in pending' \cup OnChain(chain')
    <3>1. tx \in OnChain(chain') \/ tx \in pending \/ tx \in back
      BY <1>1, <2>2, <2>3, <2>6 DEF CanAdd
    <3> QED  BY <1>2, <3>1
  <2>7. ASSUME NEW k \in 1 .. find_common_ancestor_height(chain, candidate)
        PROVE  SubSeq(d, 1, k) = SubSeq(t, 1, k) /\ k <= Len(d)
    <3>1. Len(t) \in Nat /\ Len(d) \in Nat
      BY <1>1, <2>1, WholeBlock
    <3>2. Len(candidate) > Len(t) + 1
      BY <2>1, <3>1
    <3>3. /\ find_common_ancestor_height(chain, candidate) \in 0 .. Len(t)
          /\ candidate[k + 1] = SubSeq(t, 1, k)
      BY <1>1, <2>7, <3>2, AncestorFacts
    <3>4. k + 1 \in 1 .. Len(candidate) /\ (k + 1) - 1 = k /\ k <= Len(d)
      BY <2>1, <3>1, <3>3
    <3> QED  BY <2>1, <3>3, <3>4
  <2> QED  BY <1>2, <2>1, <2>4, <2>5, <2>6, <2>7 DEF t
<1> QED  BY <1>3, <1>4

\* What mining leaves behind.
LEMMA MineFacts ==
    ASSUME IInv, Mine
    PROVE  \E b \in Block, txs \in SUBSET pending :
               /\ chain' = ChainOf(b) /\ chain'.tip_hash = b
               /\ IsPrefix(chain.tip_hash, b)
               /\ pending' = pending \ txs
               /\ OnChain(chain') = OnChain(chain) \cup txs
               /\ tx_archive' = tx_archive
<1> DEFINE t == chain.tip_hash
<1>1. PICK stamp \in GoodStamp, txs \in take(pending) :
          /\ chain' = apply(chain, << MinedBlock(t, txs, stamp) >>)
          /\ pending' = remove(pending, txs)
          /\ tx_archive' = tx_archive
  BY DEF Mine
<1>2. /\ t \in Block /\ chain = ChainOf(t) /\ stamp \in Stamp
      /\ txs \in SUBSET pending /\ txs \in SUBSET Tx
  BY TakeFacts, LedgerAssumption DEF IInv
<1> DEFINE b == MinedBlock(t, txs, stamp)
<1> HIDE DEF t
<1>3. b \in Block /\ IsPrefix(t, b)
  BY <1>2, MinedBlockFacts
<1>4. chain' = ChainOf(b)
  BY <1>1, <1>2, ApplyMined
<1>5. OnChain(chain') = OnChain(chain) \cup txs
  BY <1>2, <1>4, MinedTxs
<1> HIDE DEF b
<1>6. chain'.tip_hash = b
  BY <1>4 DEF ChainOf
<1> QED  BY <1>1, <1>2, <1>3, <1>4, <1>5, <1>6 DEF t, remove

\* Every step keeps the invariant.
LEMMA NextHolds ==
    ASSUME Candidates \subseteq Seq(Block), IInv, [Next]_vars
    PROVE  IInv'
<1>1. CASE UNCHANGED vars
  BY <1>1 DEF IInv, AcceptedNeverLost, vars, OnChain
<1>2. ASSUME NEW candidate \in Candidates, reorganize(candidate)
      PROVE  IInv'
  <2>0. tx_archive' = tx_archive
    BY <1>2 DEF reorganize
  <2>1. CASE chain' = chain /\ pending' = pending
    BY <2>0, <2>1 DEF IInv, AcceptedNeverLost, OnChain
  <2>2. CASE \E d \in Block :
                 /\ chain' = ChainOf(d)
                 /\ pending \subseteq pending' /\ pending' \subseteq SignedTx
                 /\ OnChain(chain) \cap tx_archive \subseteq pending' \cup OnChain(chain')
    <3>1. PICK d \in Block :
                 /\ chain' = ChainOf(d)
                 /\ pending \subseteq pending' /\ pending' \subseteq SignedTx
                 /\ OnChain(chain) \cap tx_archive \subseteq pending' \cup OnChain(chain')
      BY <2>2
    <3>2. chain'.tip_hash = d
      BY <3>1 DEF ChainOf
    <3>3. tx_archive \subseteq pending' \cup OnChain(chain')
      BY <3>1 DEF IInv, AcceptedNeverLost
    <3> QED  BY <2>0, <3>1, <3>2, <3>3 DEF IInv, AcceptedNeverLost, OnChain
  <2> QED  BY <1>2, <2>1, <2>2, ReorganizeFacts
<1>3. ASSUME NEW tx \in Tx, Submit(tx)
      PROVE  IInv'
  BY <1>3 DEF IInv, AcceptedNeverLost, Submit, CanAdd, OnChain
<1>4. CASE Mine
  <2>1. PICK b \in Block, txs \in SUBSET pending :
            /\ chain' = ChainOf(b) /\ chain'.tip_hash = b
            /\ pending' = pending \ txs
            /\ OnChain(chain') = OnChain(chain) \cup txs
            /\ tx_archive' = tx_archive
    BY <1>4, MineFacts
  <2>2. tx_archive \subseteq pending' \cup OnChain(chain')
    BY <2>1 DEF IInv, AcceptedNeverLost
  <2> QED  BY <2>1, <2>2 DEF IInv, AcceptedNeverLost, OnChain
<1> QED  BY <1>1, <1>2, <1>3, <1>4 DEF Next

\* The invariant holds throughout.
LEMMA Invariant ==
    ASSUME Candidates \subseteq Seq(Block)
    PROVE  Spec => []IInv
<1>1. Init => IInv
  BY InitHolds
<1>2. IInv /\ [Next]_vars => IInv'
  BY NextHolds
<1> QED  BY <1>1, <1>2, PTL DEF Spec

-----------------------------------------------------------------------------
(* Reorganize: the theorems *)

\* Through any sequence of submissions, mining, reorganisations and refusals,
\* an accepted transaction is pending or on the chain.
THEOREM NothingAcceptedIsLost ==
    ASSUME Candidates \subseteq Seq(Block)
    PROVE  Spec => []AcceptedNeverLost
<1>1. IInv => AcceptedNeverLost
  BY DEF IInv
<1> QED  BY <1>1, Invariant, PTL

\* A transaction returns to the mempool only in the step that takes it off the
\* chain.
THEOREM ReturnsOnlyDisplaced ==
    ASSUME Candidates \subseteq Seq(Block)
    PROVE  Spec => ComesBackOnlyDisplaced
<1> DEFINE A == \A tx \in pending' \ pending :
                    Submit(tx) \/ tx \in OnChain(chain) \ OnChain(chain')
<1>1. ASSUME IInv, Next
      PROVE  A
  <2>1. ASSUME NEW candidate \in Candidates, reorganize(candidate)
        PROVE  A
    <3>1. \A tx \in pending' \ pending : tx \in OnChain(chain) \ OnChain(chain')
      BY <1>1, <2>1, ReorganizeFacts
    <3> QED  BY <3>1
  <2>2. ASSUME NEW tx \in Tx, Submit(tx)
        PROVE  A
    <3>1. pending' \ pending \subseteq {tx}
      BY <2>2 DEF Submit
    <3> QED  BY <2>2, <3>1
  <2>3. CASE Mine
    <3>1. pending' \subseteq pending
      BY <1>1, <2>3, MineFacts
    <3> QED  BY <3>1
  <2> HIDE DEF A
  <2> QED  BY <1>1, <2>1, <2>2, <2>3 DEF Next
<1>2. IInv /\ [Next]_vars => [A]_vars
  <2> HIDE DEF A
  <2> QED  BY <1>1
<1>3. Spec => []IInv /\ [][Next]_vars
  BY Invariant, PTL DEF Spec
<1>4. Spec => [][A]_vars
  <2> HIDE DEF A
  <2> QED  BY <1>2, <1>3, PTL
<1> QED  BY <1>4 DEF ComesBackOnlyDisplaced

\* No step throws away more than max_depth blocks.
THEOREM DiscardsAtMostTheLimit ==
    ASSUME Candidates \subseteq Seq(Block), max_depth \in Nat
    PROVE  Spec => DiscardBounded
<1> DEFINE A == \A b \in chain.by_hash \ chain'.by_hash :
                    Len(chain.tip_hash) - Len(b) < max_depth
<1>1. ASSUME IInv, Next
      PROVE  A
  <2> DEFINE t == chain.tip_hash
  <2>0. t \in Block /\ chain = ChainOf(t) /\ chain.by_hash = Prefixes(t)
    BY <1>1 DEF IInv, ChainOf
  <2>1. ASSUME NEW candidate \in Candidates, reorganize(candidate)
        PROVE  A
    <3>1. CASE chain' = chain
      BY <3>1
    <3>2. CASE chain' # chain
      <4> DEFINE a == find_common_ancestor_height(chain, candidate)
      <4>1. PICK d \in Block :
                /\ chain' = ChainOf(d) /\ Len(d) > Len(t)
                /\ \A k \in 1 .. a : SubSeq(d, 1, k) = SubSeq(t, 1, k) /\ k <= Len(d)
        BY <1>1, <2>1, <3>2, ReorganizeFacts
      <4>2. candidate \in Seq(Block) /\ CanAdopt(chain, candidate)
        BY <2>1, <3>2 DEF reorganize, adopt_fork
      <4>3. Len(t) - a <= max_depth
        <5>1. height(chain) = Len(t)
          BY <2>0, ChainOfFacts
        <5>2. ~ height(chain) - a > max_depth
          BY <2>1 DEF reorganize, Deep, reorg_depth
        <5>3. Len(t) \in Nat /\ a \in Int
          <6>1. Len(chain.blocks) = Len(t) + 1
            BY <2>0, WalkFacts DEF ChainOf
          <6>2. Len(candidate) > Len(t) + 1
            BY <4>2, <6>1 DEF CanAdopt
          <6>3. a \in 0 .. Len(t)
            BY <2>0, <4>2, <6>2, AncestorFacts
          <6> QED  BY <2>0, <6>3, WholeBlock
        <5> HIDE DEF a, t
        <5> QED  BY <5>1, <5>2, <5>3
      <4>4. chain'.by_hash = Prefixes(d)
        BY <4>1 DEF ChainOf
      <4>5. a \in 0 .. Len(t) /\ Len(t) \in Nat /\ Len(d) \in Nat
        <5>1. Len(chain.blocks) = Len(t) + 1
          BY <2>0, WalkFacts DEF ChainOf
        <5>2. Len(candidate) > Len(t) + 1
          BY <4>2, <5>1 DEF CanAdopt
        <5> QED  BY <2>0, <4>1, <4>2, <5>2, AncestorFacts, WholeBlock
      <4> HIDE DEF a, t
      <4>6. ASSUME NEW b \in Prefixes(t), b \notin Prefixes(d)
            PROVE  Len(t) - Len(b) < max_depth
        <5>1. PICK k \in 0 .. Len(t) : b = SubSeq(t, 1, k)
          BY DEF Prefixes
        <5>2. Len(b) = k
          BY <2>0, <5>1, PrefixBlock
        <5>3. ~ k <= a
          <6>1. SUFFICES ASSUME k <= a
                         PROVE  b \in Prefixes(d)
            BY <4>6
          <6>2. CASE k = 0
            <7>1. b = SubSeq(d, 1, 0) /\ 0 \in 0 .. Len(d)
              BY <2>0, <4>5, <5>1, <6>2, WholeBlock
            <7> QED  BY <7>1 DEF Prefixes
          <6>3. CASE k # 0
            <7>1. k \in 1 .. a
              BY <4>5, <5>1, <6>1, <6>3
            <7>2. b = SubSeq(d, 1, k) /\ k \in 0 .. Len(d)
              BY <4>1, <4>5, <5>1, <7>1
            <7> QED  BY <7>2 DEF Prefixes
          <6> QED  BY <6>2, <6>3
        <5> QED  BY <4>3, <4>5, <5>2, <5>3
      <4> QED  BY <2>0, <4>4, <4>6 DEF t
    <3> QED  BY <3>1, <3>2
  <2>2. ASSUME NEW tx \in Tx, Submit(tx)
        PROVE  A
    BY <2>2 DEF Submit
  <2>3. CASE Mine
    <3>1. PICK b \in Block : chain' = ChainOf(b) /\ IsPrefix(t, b)
      BY <1>1, <2>3, MineFacts
    <3>2. chain'.by_hash = Prefixes(b)
      BY <3>1 DEF ChainOf
    <3> HIDE DEF t
    <3>3. Len(t) \in 0 .. Len(b) /\ t = SubSeq(b, 1, Len(t)) /\ Len(b) \in Nat
      BY <2>0, <3>1, PrefixIsAncestor, WholeBlock
    <3>4. \A k \in 0 .. Len(t) : SubSeq(t, 1, k) = SubSeq(b, 1, k) /\ k \in 0 .. Len(b)
      BY <3>3, PrefixPrefix
    <3>5. Prefixes(t) \subseteq Prefixes(b)
      BY <3>4 DEF Prefixes
    <3> QED  BY <2>0, <3>2, <3>5
  <2> HIDE DEF A
  <2> QED  BY <1>1, <2>1, <2>2, <2>3 DEF Next
<1>2. IInv /\ [Next]_vars => [A]_vars
  <2>1. CASE UNCHANGED vars
    BY <2>1
  <2> HIDE DEF A
  <2> QED  BY <1>1, <2>1
<1>3. Spec => []IInv /\ [][Next]_vars
  BY Invariant, PTL DEF Spec
<1>4. Spec => [][A]_vars
  <2> HIDE DEF A
  <2> QED  BY <1>2, <1>3, PTL
<1> QED  BY <1>4 DEF DiscardBounded

-----------------------------------------------------------------------------
(* Compact blocks: the first candidate *)

\* A non-empty set of positions has a least one.
LEMMA FirstIsFirst ==
    ASSUME NEW positions \in SUBSET Nat, positions # {}
    PROVE  /\ First(positions) \in positions
           /\ \A j \in positions : First(positions) <= j
  BY LeastExists DEF First

\* A slot that the mempool resolves holds the first pooled transaction with
\* the slot's identifier, and one that it leaves open has no candidate.
LEMMA PooledFacts ==
    ASSUME NEW pool \in Seq(TxHash), NEW nonce, NEW sid
    PROVE  \/ /\ Pooled(pool, nonce, sid) = << >>
              /\ \A k \in DOMAIN pool : short_id(pool[k], nonce) # sid
           \/ \E k \in DOMAIN pool :
                  /\ Pooled(pool, nonce, sid) = << pool[k] >>
                  /\ short_id(pool[k], nonce) = sid
                  /\ \A j \in 1 .. k - 1 : short_id(pool[j], nonce) # sid
<1> DEFINE found == short_index(pool, nonce, sid)
<1>1. CASE found = {}
  BY <1>1 DEF Pooled, short_index
<1>2. CASE found # {}
  <2>1. found \in SUBSET Nat
    BY DEF short_index
  <2>2. First(found) \in found /\ \A j \in found : First(found) <= j
    <3> HIDE DEF found
    <3> QED  BY <1>2, <2>1, FirstIsFirst
  <2>3. Pooled(pool, nonce, sid) = << pool[First(found)] >>
    BY <1>2 DEF Pooled
  <2>4. First(found) \in DOMAIN pool /\ short_id(pool[First(found)], nonce) = sid
    <3> DEFINE k == First(found)
    <3>1. k \in {j \in DOMAIN pool : short_id(pool[j], nonce) = sid}
      BY <2>2 DEF short_index
    <3> HIDE DEF k
    <3>2. k \in DOMAIN pool /\ short_id(pool[k], nonce) = sid
      BY <3>1
    <3> QED  BY <3>2 DEF k
  <2>5. ASSUME NEW j \in 1 .. First(found) - 1
        PROVE  short_id(pool[j], nonce) # sid
    <3>1. DOMAIN pool = 1 .. Len(pool) /\ Len(pool) \in Nat
      OBVIOUS
    <3> DEFINE k == First(found)
    <3>2. k \in 1 .. Len(pool) /\ j \in 1 .. k - 1 /\ \A i \in found : k <= i
      BY <2>2, <2>4, <2>5, <3>1
    <3> HIDE DEF k
    <3>3. j \in DOMAIN pool /\ ~ k <= j
      BY <3>1, <3>2
    <3>4. j \notin found
      BY <3>2, <3>3
    <3> QED  BY <3>3, <3>4 DEF short_index
  <2> QED  BY <2>3, <2>4, <2>5
<1> QED  BY <1>1, <1>2

\* What one pass makes of each slot of block b, given fills that are right.
LEMMA SlotFacts ==
    ASSUME NEW b, b.txs \in Seq(TxHash), NEW pool \in Seq(TxHash), NEW prefilled,
           \A i \in DOMAIN prefilled : prefilled[i] = b.txs[i]
    PROVE  LET r == Resolved(make_compact_block(b), pool, prefilled)
               Alike(k, i) == short_id(pool[k], b.nonce) = short_id(b.txs[i], b.nonce)
           IN  /\ DOMAIN r = DOMAIN b.txs
               /\ \A i \in DOMAIN b.txs :
                      \/ i \in DOMAIN prefilled /\ r[i] = << b.txs[i] >>
                      \/ /\ i \notin DOMAIN prefilled /\ r[i] = << >>
                         /\ \A k \in DOMAIN pool : ~ Alike(k, i)
                      \/ /\ i \notin DOMAIN prefilled
                         /\ \E k \in DOMAIN pool :
                                /\ r[i] = << pool[k] >> /\ Alike(k, i)
                                /\ \A j \in 1 .. k - 1 : ~ Alike(j, i)
<1> DEFINE c == make_compact_block(b)
           r == Resolved(c, pool, prefilled)
           Alike(k, i) == short_id(pool[k], b.nonce) = short_id(b.txs[i], b.nonce)
<1>1. /\ c.nonce = b.nonce
      /\ c.short_ids = [i \in DOMAIN b.txs |-> short_id(b.txs[i], b.nonce)]
  BY DEF make_compact_block
<1>2. DOMAIN c.short_ids = DOMAIN b.txs
  BY <1>1
<1>3. r = [i \in DOMAIN b.txs |->
              IF i \in DOMAIN prefilled THEN << prefilled[i] >>
              ELSE Pooled(pool, b.nonce, c.short_ids[i])]
  BY <1>1, <1>2 DEF Resolved
<1>4. ASSUME NEW i \in DOMAIN b.txs
      PROVE  \/ i \in DOMAIN prefilled /\ r[i] = << b.txs[i] >>
             \/ /\ i \notin DOMAIN prefilled /\ r[i] = << >>
                /\ \A k \in DOMAIN pool : ~ Alike(k, i)
             \/ /\ i \notin DOMAIN prefilled
                /\ \E k \in DOMAIN pool :
                       /\ r[i] = << pool[k] >> /\ Alike(k, i)
                       /\ \A j \in 1 .. k - 1 : ~ Alike(j, i)
  <2>1. CASE i \in DOMAIN prefilled
    BY <1>3, <1>4, <2>1
  <2>2. CASE i \notin DOMAIN prefilled
    <3> DEFINE sid == short_id(b.txs[i], b.nonce)
    <3>1. c.short_ids[i] = sid
      BY <1>1, <1>4
    <3>2. r[i] = Pooled(pool, b.nonce, sid)
      BY <1>3, <1>4, <2>2, <3>1
    <3> HIDE DEF r, sid
    <3>3. \/ /\ r[i] = << >>
             /\ \A k \in DOMAIN pool : short_id(pool[k], b.nonce) # sid
          \/ \E k \in DOMAIN pool :
                 /\ r[i] = << pool[k] >>
                 /\ short_id(pool[k], b.nonce) = sid
                 /\ \A j \in 1 .. k - 1 : short_id(pool[j], b.nonce) # sid
      BY <3>2, PooledFacts
    <3> QED  BY <2>2, <3>3 DEF sid
  <2> QED  BY <2>1, <2>2
<1>5. DOMAIN r = DOMAIN b.txs
  BY <1>3
<1> HIDE DEF r
<1> QED  BY <1>4, <1>5 DEF r, c

\* What the verdicts of a pass mean, slot by slot.
LEMMA PassFacts ==
    ASSUME NEW b, b.txs \in Seq(TxHash), b.txs_hash \in Seq(TxHash),
           NEW pool \in Seq(TxHash), NEW prefilled,
           \A i \in DOMAIN prefilled : prefilled[i] = b.txs[i]
    PROVE  LET p == reconstruct(make_compact_block(b), pool, prefilled)
               Alike(k, i) == short_id(pool[k], b.nonce) = short_id(b.txs[i], b.nonce)
           IN  /\ p.verdict \in {"missing", "abandoned", "rebuilt"}
               /\ p.verdict = "missing" <=> p.missing # {}
               /\ p.missing = {i \in DOMAIN b.txs \ DOMAIN prefilled :
                                  \A k \in DOMAIN pool : ~ Alike(k, i)}
               /\ p.verdict = "abandoned" /\ b.txs_hash = b.txs =>
                      \E i \in DOMAIN b.txs \ DOMAIN prefilled :
                          \E k \in DOMAIN pool :
                              /\ pool[k] # b.txs[i] /\ Alike(k, i)
                              /\ \A j \in 1 .. k - 1 : pool[j] # b.txs[i]
<1> DEFINE c == make_compact_block(b)
           r == Resolved(c, pool, prefilled)
           p == reconstruct(c, pool, prefilled)
           v == Verdict(c, r)
           full == [i \in DOMAIN r |-> r[i][1]]
           Alike(k, i) == short_id(pool[k], b.nonce) = short_id(b.txs[i], b.nonce)
<1>1. c.txs_hash = b.txs_hash
  BY DEF make_compact_block
<1>2. /\ DOMAIN r = DOMAIN b.txs
      /\ \A i \in DOMAIN b.txs :
             \/ i \in DOMAIN prefilled /\ r[i] = << b.txs[i] >>
             \/ /\ i \notin DOMAIN prefilled /\ r[i] = << >>
                /\ \A k \in DOMAIN pool : ~ Alike(k, i)
             \/ /\ i \notin DOMAIN prefilled
                /\ \E k \in DOMAIN pool :
                       /\ r[i] = << pool[k] >> /\ Alike(k, i)
                       /\ \A j \in 1 .. k - 1 : ~ Alike(j, i)
  BY SlotFacts
<1>3. p.verdict = v /\ p.missing = Open(r)
  BY DEF reconstruct
<1> HIDE DEF r, p, c
<1>4. /\ v \in {"missing", "abandoned", "rebuilt"}
      /\ v = "missing" <=> Open(r) # {}
      /\ v = "abandoned" => Open(r) = {} /\ full # b.txs_hash
  BY <1>1 DEF Verdict
<1>5. Open(r) = {i \in DOMAIN b.txs \ DOMAIN prefilled :
                    \A k \in DOMAIN pool : ~ Alike(k, i)}
  <2>1. ASSUME NEW x
        PROVE  << x >> # << >>
    OBVIOUS
  <2>2. ASSUME NEW i \in DOMAIN b.txs
        PROVE  r[i] = << >> <=> /\ i \notin DOMAIN prefilled
                                /\ \A k \in DOMAIN pool : ~ Alike(k, i)
    <3> HIDE DEF Alike
    <3> QED  BY <1>2, <2>1
  <2> HIDE DEF Alike
  <2> QED  BY <1>2, <2>2 DEF Open
<1>6. ASSUME v = "abandoned", b.txs_hash = b.txs
      PROVE  \E i \in DOMAIN b.txs \ DOMAIN prefilled :
                 \E k \in DOMAIN pool :
                     /\ pool[k] # b.txs[i] /\ Alike(k, i)
                     /\ \A j \in 1 .. k - 1 : pool[j] # b.txs[i]
  <2>1. full # b.txs /\ Open(r) = {}
    BY <1>4, <1>6
  <2>2. b.txs = [i \in DOMAIN b.txs |-> b.txs[i]]
    OBVIOUS
  <2>3. PICK i \in DOMAIN b.txs : r[i][1] # b.txs[i]
    BY <1>2, <2>1, <2>2
  <2>4. r[i] # << >>
    BY <1>2, <2>1 DEF Open
  <2>5. ASSUME NEW x
        PROVE  << x >>[1] = x
    OBVIOUS
  <2>6. \A j : ~ Alike(j, i) => pool[j] # b.txs[i]
    OBVIOUS
  <2> HIDE DEF Alike
  <2>7. i \notin DOMAIN prefilled /\ \E k \in DOMAIN pool :
            r[i] = << pool[k] >> /\ Alike(k, i) /\ \A j \in 1 .. k - 1 : ~ Alike(j, i)
    BY <1>2, <2>3, <2>4, <2>5
  <2> QED  BY <2>3, <2>5, <2>6, <2>7
<1> HIDE DEF v, full
<1> HIDE DEF Alike
<1>7. /\ p.verdict \in {"missing", "abandoned", "rebuilt"}
      /\ p.verdict = "missing" <=> p.missing # {}
  BY <1>3, <1>4
<1> QED  BY <1>3, <1>5, <1>6, <1>7 DEF p, c, Alike

-----------------------------------------------------------------------------
(* Compact blocks: the inductive invariant *)

\* What the state holds are sequences of transactions.
Typed ==
    /\ mempool \in Seq(TxHash)
    /\ block.txs \in Seq(TxHash)
    /\ block.txs_hash \in Seq(TxHash)
    /\ shrunk \in BOOLEAN

\* Fills are right, and there are none before the sender answered.
FillsRight ==
    /\ \A i \in DOMAIN fills : fills[i] = block.txs[i]
    /\ phase \in {"idle", "sent", "missing"} => fills = Nothing

Alike(tx, i) == short_id(tx, block.nonce) = short_id(block.txs[i], block.nonce)

\* While no transaction left the mempool, every slot the first pass did not
\* report still has a candidate.
StillResolved ==
    phase \in {"missing", "filled"} /\ ~ shrunk =>
        \A i \in DOMAIN block.txs \ missing :
            \E k \in DOMAIN mempool : Alike(mempool[k], i)

\* The sender answered for every slot it could.
Answered ==
    phase = "filled" =>
        \A i \in DOMAIN block.txs : i \in missing /\ block.txs[i] \in archive => i \in DOMAIN fills

CompactIInv == Typed /\ FillsRight /\ StillResolved /\ Answered

\* Initially nothing was sent and nothing is pooled.
LEMMA CompactInitHolds == CompactInit => CompactIInv
<1> SUFFICES ASSUME CompactInit
             PROVE  CompactIInv
  OBVIOUS
<1>1. << >> \in Seq(TxHash) /\ DOMAIN << >> = {}
  OBVIOUS
<1>2. /\ block.txs = << >> /\ block.txs_hash = << >> /\ mempool = << >>
      /\ fills = << >> /\ phase = "idle" /\ shrunk = FALSE
  BY DEF CompactInit, Nothing
<1> QED
  BY <1>1, <1>2 DEF CompactIInv, Typed, FillsRight, StillResolved, Answered, Nothing

\* Every step keeps the invariant, for blocks that are lists of transactions.
LEMMA CompactNextHolds ==
    ASSUME Bodies \subseteq Seq(TxHash), CompactIInv, [CompactNext]_compactVars
    PROVE  CompactIInv'
<1> USE DEF CompactIInv, Typed, FillsRight, StillResolved, Answered, Alike, Nothing
<1>1. DOMAIN << >> = {}
  OBVIOUS
<1>2. CASE UNCHANGED compactVars
  BY <1>2 DEF compactVars, short_id
<1>3. CASE Send
  BY <1>1, <1>3 DEF Send
<1> DEFINE c == make_compact_block(block)
<1>4. CASE FirstPass
  <2> DEFINE p == reconstruct(c, mempool, << >>)
  <2>1. /\ phase = "sent" /\ phase' = p.verdict
        /\ missing' = p.missing /\ rebuilt' = p.body /\ shrunk' = FALSE
        /\ UNCHANGED << block, archive, mempool, fills >>
    BY <1>4 DEF FirstPass
  <2>2. /\ p.verdict \in {"missing", "abandoned", "rebuilt"}
        /\ p.missing = {i \in DOMAIN block.txs \ DOMAIN << >> :
                           \A k \in DOMAIN mempool : ~ Alike(mempool[k], i)}
    BY <1>1, PassFacts
  <2> HIDE DEF p, c
  <2> QED  BY <1>1, <2>1, <2>2 DEF short_id
<1>5. CASE Fill
  <2>1. fills' = [i \in {i \in missing : i \in DOMAIN block.txs /\ block.txs[i] \in archive} |->
                     block.txs[i]]
    BY <1>5 DEF Fill, fill_missing
  <2> QED  BY <1>5, <2>1 DEF Fill, short_id
<1>6. CASE SecondPass
  <2> DEFINE p == reconstruct(c, mempool, fills)
  <2>1. /\ phase = "filled"
        /\ phase' = IF p.verdict = "missing" THEN "short" ELSE p.verdict
        /\ missing' = p.missing /\ rebuilt' = p.body
        /\ UNCHANGED << block, archive, mempool, fills, shrunk >>
    BY <1>6 DEF SecondPass
  <2>2. p.verdict \in {"missing", "abandoned", "rebuilt"}
    BY PassFacts
  <2> HIDE DEF p, c
  <2> QED  BY <2>1, <2>2
<1>7. ASSUME NEW tx \in TxHash, Arrives(tx)
      PROVE  CompactIInv'
  <2>1. /\ mempool' = Append(mempool, tx)
        /\ UNCHANGED << block, archive, phase, missing, fills, rebuilt, shrunk >>
    BY <1>7 DEF Arrives
  <2>2. /\ mempool' \in Seq(TxHash)
        /\ \A k \in DOMAIN mempool : k \in DOMAIN mempool' /\ mempool'[k] = mempool[k]
    BY <2>1
  <2>3. StillResolved'
    BY <2>1, <2>2 DEF short_id
  <2> QED  BY <2>1, <2>2, <2>3
<1>8. ASSUME NEW k \in DOMAIN mempool, Leaves(k)
      PROVE  CompactIInv'
  <2>1. /\ mempool' = SubSeq(mempool, 1, k - 1) \o SubSeq(mempool, k + 1, Len(mempool))
        /\ shrunk' = TRUE
        /\ UNCHANGED << block, archive, phase, missing, fills, rebuilt >>
    BY <1>8 DEF Leaves, RemoveAt
  <2>2. SubSeq(mempool, 1, k - 1) \in Seq(TxHash) /\ SubSeq(mempool, k + 1, Len(mempool)) \in Seq(TxHash)
    OBVIOUS
  <2>3. mempool' \in Seq(TxHash)
    BY <2>1, <2>2
  <2> QED  BY <2>1, <2>3
<1> QED  BY <1>2, <1>3, <1>4, <1>5, <1>6, <1>7, <1>8 DEF CompactNext, Step

\* The invariant holds throughout.
LEMMA CompactInvariant ==
    ASSUME Bodies \subseteq Seq(TxHash)
    PROVE  CompactSpec => []CompactIInv
<1>1. CompactInit => CompactIInv
  BY CompactInitHolds
<1>2. CompactIInv /\ [CompactNext]_compactVars => CompactIInv'
  BY CompactNextHolds
<1> QED  BY <1>1, <1>2, PTL DEF CompactSpec

-----------------------------------------------------------------------------
(* Compact blocks: the theorems *)

\* An honest block is given up only because of a pooled transaction that
\* shadows one of its own: a right fill is never the reason, nor a collision
\* in which its own transaction was pooled first.
THEOREM AbandonedForAReason ==
    ASSUME Bodies \subseteq Seq(TxHash)
    PROVE  CompactSpec => AbandonsOnlyShadowed
<1> DEFINE A == phase' = "abandoned" /\ Honest =>
                    \E i \in DOMAIN block.txs \ DOMAIN fills : Shadowed(i)
<1>1. ASSUME CompactIInv, CompactNext, phase' # phase, phase' = "abandoned", Honest
      PROVE  \E i \in DOMAIN block.txs \ DOMAIN fills : Shadowed(i)
  <2>1. FirstPass \/ SecondPass
    BY <1>1 DEF CompactNext, Step, Send, Fill, Arrives, Leaves
  <2>2. \/ phase' = reconstruct(make_compact_block(block), mempool, fills).verdict
        \/ phase' = "short"
    BY <1>1, <2>1 DEF FirstPass, SecondPass, CompactIInv, FillsRight
  <2>3. PICK i \in DOMAIN block.txs \ DOMAIN fills :
            \E k \in DOMAIN mempool :
                /\ mempool[k] # block.txs[i]
                /\ short_id(mempool[k], block.nonce) = short_id(block.txs[i], block.nonce)
                /\ \A j \in 1 .. k - 1 : mempool[j] # block.txs[i]
    BY <1>1, <2>2, PassFacts DEF CompactIInv, Typed, FillsRight, Honest
  <2> QED  BY <2>3 DEF Shadowed
<1>2. ASSUME CompactIInv, phase' = phase, phase' = "abandoned", CompactNext
      PROVE  FALSE
  BY <1>2 DEF CompactNext, Ended
<1>3. CompactIInv /\ [CompactNext]_compactVars => [A]_compactVars
  BY <1>1, <1>2 DEF compactVars
<1>4. CompactSpec => []CompactIInv /\ [][CompactNext]_compactVars
  BY CompactInvariant, PTL DEF CompactSpec
<1>5. CompactSpec => [][A]_compactVars
  <2> HIDE DEF A
  <2> QED  BY <1>3, <1>4, PTL
<1> QED  BY <1>5 DEF AbandonsOnlyShadowed

\* The second pass is short only when the receiver lost a transaction since
\* the first, or the sender could not look one up.
THEOREM ShortForAReason ==
    ASSUME Bodies \subseteq Seq(TxHash)
    PROVE  CompactSpec => ShortOnlyWhenLost
<1> DEFINE A == phase' = "short" =>
                    shrunk \/ \E i \in missing : block.txs[i] \notin archive
<1>1. ASSUME CompactIInv, CompactNext, phase' = "short", ~ shrunk
      PROVE  \E i \in missing : block.txs[i] \notin archive
  <2> DEFINE p == reconstruct(make_compact_block(block), mempool, fills)
  <2>1. /\ p.verdict # "short"
        /\ p.verdict = "missing" <=> p.missing # {}
        /\ p.missing = {i \in DOMAIN block.txs \ DOMAIN fills :
                           \A k \in DOMAIN mempool : ~ Alike(mempool[k], i)}
    BY <1>1, PassFacts DEF CompactIInv, Typed, FillsRight, Alike
  <2>2. ~ FirstPass
    BY <1>1, <2>1 DEF FirstPass, CompactIInv, FillsRight
  <2>3. SecondPass
    BY <1>1, <2>2 DEF CompactNext, Step, Send, Fill, Arrives, Leaves, Ended
  <2>4. phase = "filled" /\ p.verdict = "missing"
    <3>1. phase = "filled" /\ phase' = IF p.verdict = "missing" THEN "short" ELSE p.verdict
      BY <2>3 DEF SecondPass
    <3> HIDE DEF p
    <3> QED  BY <1>1, <2>1, <3>1
  <2>5. PICK i \in DOMAIN block.txs \ DOMAIN fills :
            \A k \in DOMAIN mempool : ~ Alike(mempool[k], i)
    BY <2>1, <2>4
  <2>6. i \in missing
    BY <1>1, <2>4, <2>5 DEF CompactIInv, StillResolved
  <2>7. block.txs[i] \notin archive
    BY <1>1, <2>4, <2>5, <2>6 DEF CompactIInv, Answered
  <2> QED  BY <2>6, <2>7
<1>2. CompactIInv /\ [CompactNext]_compactVars => [A]_compactVars
  BY <1>1 DEF compactVars
<1>3. CompactSpec => []CompactIInv /\ [][CompactNext]_compactVars
  BY CompactInvariant, PTL DEF CompactSpec
<1>4. CompactSpec => [][A]_compactVars
  <2> HIDE DEF A
  <2> QED  BY <1>2, <1>3, PTL
<1> QED  BY <1>4 DEF ShortOnlyWhenLost

-----------------------------------------------------------------------------
(* Retarget: every second is measured *)

\* Quotients and remainders of consecutive numbers.
LEMMA NextRemainder ==
    ASSUME NEW R \in Nat \ {0}, NEW h \in Nat
    PROVE  /\ h % R \in 0 .. R - 1 /\ h % R <= h
           /\ (h + 1) % R = IF h % R = R - 1 THEN 0 ELSE (h % R) + 1
<1> DEFINE q == h \div R
           r == h % R
           p == (h + 1) \div R
           t == (h + 1) % R
<1>1. /\ q \in Int /\ r \in 0 .. R - 1 /\ h = R * q + r
      /\ p \in Int /\ t \in 0 .. R - 1 /\ h + 1 = R * p + t
  BY SMT
<1> HIDE DEF q, r, p, t
<1>2. R * (p - q) = r + 1 - t
  <2>1. R * (p - q) = R * p - R * q /\ R * p \in Int /\ R * q \in Int
    BY <1>1
  <2> QED  BY <1>1, <2>1
<1>3. p - q = 0 \/ p - q = 1
  <2> DEFINE d == p - q
  <2>0. d \in Int
    BY <1>1
  <2> HIDE DEF d
  <2>1. d <= -1 => R * d <= -R
    BY <2>0
  <2>2. d >= 2 => R * d >= 2 * R
    BY <2>0
  <2>3. ~ (d <= -1) /\ ~ (d >= 2)
    BY <1>1, <1>2, <2>0, <2>1, <2>2 DEF d
  <2> QED  BY <2>0, <2>3 DEF d
<1>4. t = IF r = R - 1 THEN 0 ELSE r + 1
  <2>1. CASE p - q = 0
    <3>1. R * 0 = 0
      OBVIOUS
    <3> QED  BY <1>1, <1>2, <2>1, <3>1
  <2>2. CASE p - q = 1
    <3>1. R * 1 = R
      OBVIOUS
    <3> QED  BY <1>1, <1>2, <2>2, <3>1
  <2> QED  BY <1>3, <2>1, <2>2
<1>5. h % R <= h
  OBVIOUS
<1> QED  BY <1>1, <1>4, <1>5 DEF r, t

\* The last boundary at or below height h, or 0 below the first.
Boundary(h) == h - (h % RETARGET_INTERVAL)

\* The windows measured add up to the time between the first stamp and the
\* last boundary.
RetargetInv ==
    /\ timestamps \in Seq(Int) /\ Len(timestamps) >= 1
    /\ measured = timestamps[Boundary(LastHeight) + 1] - timestamps[1]

\* From one height to the next the last boundary stays, or it moves to the new
\* height by one interval.
LEMMA BoundaryFacts ==
    ASSUME RetargetAssumption, NEW h \in Nat
    PROVE  /\ Boundary(h) \in 0 .. h
           /\ IsBoundary(h + 1) <=> (h + 1) % RETARGET_INTERVAL = 0
           /\ IsBoundary(h + 1) =>
                  /\ Boundary(h + 1) = h + 1
                  /\ Boundary(h) = h + 1 - RETARGET_INTERVAL
           /\ ~ IsBoundary(h + 1) => Boundary(h + 1) = Boundary(h)
<1> DEFINE r == h % RETARGET_INTERVAL
           t == (h + 1) % RETARGET_INTERVAL
<1>1. RETARGET_INTERVAL \in Nat \ {0}
  BY DEF RetargetAssumption
<1>2. /\ r \in 0 .. RETARGET_INTERVAL - 1 /\ r <= h
      /\ t = IF r = RETARGET_INTERVAL - 1 THEN 0 ELSE r + 1
  BY <1>1, NextRemainder
<1>3. /\ Boundary(h) = h - r /\ Boundary(h + 1) = h + 1 - t
      /\ IsBoundary(h + 1) <=> h + 1 >= RETARGET_INTERVAL /\ t = 0
  <2>1. Boundary(h) = h - r
    BY DEF Boundary
  <2>2. Boundary(h + 1) = h + 1 - t
    BY DEF Boundary
  <2>3. IsBoundary(h + 1) <=> h + 1 >= RETARGET_INTERVAL /\ t = 0
    BY <1>1 DEF IsBoundary
  <2> QED  BY <2>1, <2>2, <2>3
<1> HIDE DEF r, t
<1>4. t = (h + 1) % RETARGET_INTERVAL
  BY DEF t
<1>5. /\ Boundary(h) \in 0 .. h
      /\ IsBoundary(h + 1) <=> t = 0
      /\ IsBoundary(h + 1) =>
             Boundary(h + 1) = h + 1 /\ Boundary(h) = h + 1 - RETARGET_INTERVAL
      /\ ~ IsBoundary(h + 1) => Boundary(h + 1) = Boundary(h)
  BY <1>1, <1>2, <1>3
<1> QED  BY <1>4, <1>5

\* RetargetInv is inductive.
LEMMA RetargetStep ==
    ASSUME RetargetAssumption, RetargetInv, Simulated
    PROVE  RetargetInv'
<1> USE DEF RetargetInv
<1> DEFINE R == RETARGET_INTERVAL
           h == LastHeight
<1>1. PICK gap \in Cadence :
        LET stamps == Append(timestamps, Last(timestamps) + gap)
        IN  /\ timestamps' = stamps
            /\ measured' = measured + (IF IsBoundary(h + 1) THEN Elapsed(stamps) ELSE 0)
  BY DEF Simulated
<1>2. gap \in Int
  BY DEF Cadence, RetargetAssumption
<1> DEFINE stamps == Append(timestamps, Last(timestamps) + gap)
<1>3. /\ stamps \in Seq(Int) /\ Len(stamps) = Len(timestamps) + 1
      /\ \A i \in 1 .. Len(timestamps) : stamps[i] = timestamps[i]
      /\ \A i \in 1 .. Len(timestamps) : timestamps[i] \in Int
      /\ \A i \in 1 .. Len(stamps) : stamps[i] \in Int
      /\ Len(timestamps) \in Nat \ {0}
  <2>1. Last(timestamps) \in Int
    BY DEF Last
  <2>2. Last(timestamps) + gap \in Int
    BY <1>2, <2>1
  <2> QED  BY <2>2, SMT
<1>4. /\ h \in Nat /\ h = Len(timestamps) - 1
  BY <1>3 DEF LastHeight
<1> HIDE DEF stamps, h
<1>5. LastHeight' = h + 1
  BY <1>1, <1>3, <1>4 DEF LastHeight, stamps
<1>6. measured' = stamps[Boundary(h + 1) + 1] - stamps[1]
  <2>0. Boundary(h) \in 0 .. h
    BY <1>4, BoundaryFacts
  <2>1. measured = stamps[Boundary(h) + 1] - stamps[1]
    <3>1. Boundary(h) + 1 \in 1 .. Len(timestamps) /\ 1 \in 1 .. Len(timestamps)
      BY <1>3, <1>4, <2>0
    <3>2. measured = timestamps[Boundary(h) + 1] - timestamps[1]
      BY DEF h
    <3> QED  BY <1>3, <3>1, <3>2
  <2>2. /\ stamps[Boundary(h) + 1] \in Int /\ stamps[1] \in Int
        /\ stamps[Len(stamps)] \in Int
    <3>1. Boundary(h) + 1 \in 1 .. Len(stamps) /\ 1 \in 1 .. Len(stamps)
          /\ Len(stamps) \in 1 .. Len(stamps)
      BY <1>3, <1>4, <2>0
    <3> QED  BY <1>3, <3>1
  <2>3. CASE IsBoundary(h + 1)
    <3>1. Boundary(h) = h + 1 - R /\ Boundary(h + 1) = h + 1 /\ R \in Nat
      BY <1>4, <2>3, BoundaryFacts DEF RetargetAssumption
    <3>2. Len(stamps) - R = Boundary(h) + 1 /\ Len(stamps) = Boundary(h + 1) + 1
      BY <1>3, <1>4, <3>1
    <3>3. Elapsed(stamps) = stamps[Boundary(h + 1) + 1] - stamps[Boundary(h) + 1]
      BY <3>2 DEF Elapsed, Last
    <3>4. measured' = measured + Elapsed(stamps)
      BY <1>1, <2>3 DEF stamps
    <3> QED  BY <2>1, <2>2, <3>2, <3>3, <3>4
  <2>4. CASE ~ IsBoundary(h + 1)
    <3>1. Boundary(h + 1) = Boundary(h)
      BY <1>4, <2>4, BoundaryFacts
    <3>2. measured' = measured + 0
      BY <1>1, <2>4 DEF stamps
    <3> QED  BY <2>1, <2>2, <3>1, <3>2
  <2> QED  BY <2>3, <2>4
<1>7. timestamps' = stamps
  BY <1>1 DEF stamps
<1>8. Boundary(LastHeight)' = Boundary(h + 1)
  BY <1>5 DEF Boundary
<1> QED  BY <1>3, <1>5, <1>6, <1>7, <1>8

\* Initially no window was measured.
LEMMA RetargetStarts ==
    ASSUME RetargetAssumption, RetargetInit
    PROVE  RetargetInv
<1>1. LastHeight = 0 /\ timestamps = << 0 >> /\ measured = 0
  BY DEF RetargetInit, LastHeight
<1>2. Boundary(0) \in 0 .. 0
  BY BoundaryFacts
<1>3. Boundary(LastHeight) = 0
  BY <1>1, <1>2
<1> QED  BY <1>1, <1>3 DEF RetargetInv, RetargetInit, Bits, RetargetAssumption

\* At a boundary the windows measured add up to the whole time, so no gap
\* between two windows can be used to win time: for every interval, cadence
\* and length of the chain.
THEOREM EveryGapMeasured == RetargetSpec => []NoGapEscapes
<1>1. ASSUME RetargetAssumption, RetargetInit PROVE RetargetInv
  BY <1>1, RetargetStarts
<1>2. ASSUME RetargetAssumption, RetargetInv, [Simulated]_retargetVars PROVE RetargetInv'
  <2>1. CASE UNCHANGED retargetVars
    BY <1>2, <2>1 DEF RetargetInv, retargetVars, LastHeight, Boundary
  <2> QED  BY <1>2, <2>1, RetargetStep
<1>3. ASSUME RetargetAssumption, RetargetInv PROVE NoGapEscapes
  <2> SUFFICES ASSUME IsBoundary(LastHeight)
               PROVE  measured = Last(timestamps) - timestamps[1]
    BY DEF NoGapEscapes
  <2>1. LastHeight \in Nat /\ LastHeight + 1 = Len(timestamps)
    BY <1>3 DEF RetargetInv, LastHeight
  <2>2. LastHeight % RETARGET_INTERVAL = 0
    BY DEF IsBoundary
  <2>3. Boundary(LastHeight) + 1 = Len(timestamps)
    BY <2>1, <2>2 DEF Boundary
  <2> QED  BY <1>3, <2>3 DEF RetargetInv, Last
<1> QED  BY <1>1, <1>2, <1>3, RetargetAssumption, PTL DEF RetargetSpec

-----------------------------------------------------------------------------
(* Retarget: the nearest step *)

\* A larger factor gives a larger product.
LEMMA Grows ==
    ASSUME NEW x \in Nat, NEW y \in Nat, NEW z \in Nat \ {0}
    PROVE  x <= y => x * z <= y * z /\ z * x <= z * y
<1> SUFFICES ASSUME x <= y
             PROVE  x * z <= y * z /\ z * x <= z * y
  OBVIOUS
<1> DEFINE w == y - x
<1>1. w \in Nat /\ y = x + w
  OBVIOUS
<1> HIDE DEF w
<1>2. (x + w) * z = x * z + w * z /\ w * z \in Nat /\ x * z \in Nat
  BY <1>1
<1>3. z * x = x * z /\ z * y = y * z
  OBVIOUS
<1> QED  BY <1>1, <1>2, <1>3

\* The longer of two times over the shorter.
Fit(a, b) == IF a < b THEN [long |-> b, short |-> a] ELSE [long |-> a, short |-> b]

\* Of two times around a target b, the one nearer by its factor is told by
\* their product and the square of the target.
LEMMA FitFacts ==
    ASSUME NEW a \in Nat \ {0}, NEW c \in Nat \ {0}, NEW b \in Nat \ {0}, a < c
    PROVE  /\ a * c >= b * b => NoWorse(Fit(a, b), Fit(c, b))
           /\ a * c <= b * b => NoWorse(Fit(c, b), Fit(a, b))
<1>0. /\ a * c \in Nat /\ b * b \in Nat /\ b * a \in Nat /\ b * c \in Nat
      /\ c * a = a * c /\ a * b = b * a /\ c * b = b * c
  OBVIOUS
<1>1. b * a <= b * c
  BY Grows
<1>2. CASE c < b
  <2>1. Fit(a, b) = [long |-> b, short |-> a] /\ Fit(c, b) = [long |-> b, short |-> c]
    BY <1>2 DEF Fit
  <2>2. a * c <= a * b /\ b * a < b * b
    <3>1. a * c <= a * b
      BY <1>2, Grows
    <3>2. b * (a + 1) <= b * b /\ b * (a + 1) = b * a + b
      BY <1>2, Grows
    <3> QED  BY <1>0, <3>1, <3>2
  <2> QED  BY <1>0, <1>1, <2>1, <2>2 DEF NoWorse
<1>3. CASE a < b /\ ~ c < b
  <2>1. Fit(a, b) = [long |-> b, short |-> a] /\ Fit(c, b) = [long |-> c, short |-> b]
    BY <1>3 DEF Fit
  <2> QED  BY <1>0, <2>1 DEF NoWorse
<1>4. CASE ~ a < b
  <2>1. Fit(a, b) = [long |-> a, short |-> b] /\ Fit(c, b) = [long |-> c, short |-> b]
    BY <1>4 DEF Fit
  <2>2. b * c <= a * c /\ b * b < b * c
    <3>1. b * c <= a * c
      BY <1>4, Grows
    <3>2. b * (b + 1) <= b * c /\ b * (b + 1) = b * b + b
      BY <1>4, Grows
    <3> QED  BY <1>0, <3>1, <3>2
  <2> QED  BY <1>0, <1>1, <2>1, <2>2 DEF NoWorse
<1> QED  BY <1>2, <1>3, <1>4

\* What the rounded logarithm of e / s says of their squares.
LEMMA RoundedFacts ==
    ASSUME NEW e \in Nat \ {0}, NEW s \in Nat \ {0}
    PROVE  LET r == Rounded(e, s)  ee == e * e  ss == s * s
           IN  /\ r \in -2 .. 2 /\ ee \in Nat /\ ss \in Nat
               /\ r >= -1 => ss <= 8 * ee
               /\ r >= 0  => ss <= 2 * ee
               /\ r >= 1  => 2 * ss <= ee
               /\ r >= 2  => 8 * ss <= ee
               /\ r <= 1  => ee < 8 * ss
               /\ r <= 0  => ee < 2 * ss
               /\ r <= -1 => 2 * ee < ss
               /\ r <= -2 => 8 * ee < ss
<1> DEFINE ee == e * e
           ss == s * s
<1>1. ee \in Nat /\ ss \in Nat
  OBVIOUS
<1>2. Rounded(e, s) = CASE 8 * ee < ss                    -> -2
                        [] ss <= 8 * ee /\ 2 * ee < ss    -> -1
                        [] ss <= 2 * ee /\ ee < 2 * ss    -> 0
                        [] 2 * ss <= ee /\ ee < 8 * ss    -> 1
                        [] 8 * ss <= ee                   -> 2
  BY DEF Rounded
<1> HIDE DEF ee, ss
<1>3. CASE 8 * ee < ss
  <2>1. Rounded(e, s) = -2
    BY <1>1, <1>2, <1>3
  <2> QED  BY <1>1, <1>3, <2>1 DEF ee, ss
<1>4. CASE ss <= 8 * ee /\ 2 * ee < ss
  <2>1. Rounded(e, s) = -1
    BY <1>1, <1>2, <1>4
  <2> QED  BY <1>1, <1>4, <2>1 DEF ee, ss
<1>5. CASE ss <= 2 * ee /\ ee < 2 * ss
  <2>1. Rounded(e, s) = 0
    BY <1>1, <1>2, <1>5
  <2> QED  BY <1>1, <1>5, <2>1 DEF ee, ss
<1>6. CASE 2 * ss <= ee /\ ee < 8 * ss
  <2>1. Rounded(e, s) = 1
    BY <1>1, <1>2, <1>6
  <2> QED  BY <1>1, <1>6, <2>1 DEF ee, ss
<1>7. CASE 8 * ss <= ee
  <2>1. Rounded(e, s) = 2
    BY <1>1, <1>2, <1>7
  <2> QED  BY <1>1, <1>7, <2>1 DEF ee, ss
<1> QED  BY <1>1, <1>3, <1>4, <1>5, <1>6, <1>7

\* The scales 2^(d + 2), one by one.
LEMMA Scales ==
    ASSUME NEW d \in -2 .. 2
    PROVE  /\ d = -2 => 2^(d + 2) = 1
           /\ d = -1 => 2^(d + 2) = 2
           /\ d = 0  => 2^(d + 2) = 4
           /\ d = 1  => 2^(d + 2) = 8
           /\ d = 2  => 2^(d + 2) = 16
           /\ 2^(d + 2) \in 1 .. 16
<1>1. 2^0 = 1 /\ 2^1 = 2 /\ 2^2 = 4 /\ 2^3 = 8 /\ 2^4 = 16
  OBVIOUS
<1>2. d = -2 \/ d = -1 \/ d = 0 \/ d = 1 \/ d = 2
  OBVIOUS
<1>3. CASE d = -2
  <2>1. d + 2 = 0
    BY <1>3
  <2> QED  BY <1>1, <1>3, <2>1
<1>4. CASE d = -1
  <2>1. d + 2 = 1
    BY <1>4
  <2> QED  BY <1>1, <1>4, <2>1
<1>5. CASE d = 0
  <2>1. d + 2 = 2
    BY <1>5
  <2> QED  BY <1>1, <1>5, <2>1
<1>6. CASE d = 1
  <2>1. d + 2 = 3
    BY <1>6
  <2> QED  BY <1>1, <1>6, <2>1
<1>7. CASE d = 2
  <2>1. d + 2 = 4
    BY <1>7
  <2> QED  BY <1>1, <1>7, <2>1
<1> QED  BY <1>2, <1>3, <1>4, <1>5, <1>6, <1>7

\* The product of two scaled spans, against the square of the scaled target:
\* up to the rounded logarithm a step more comes nearer, above it farther.
LEMMA ProductFacts ==
    ASSUME NEW e \in Nat \ {0}, NEW s \in Nat \ {0},
           NEW j \in -2 .. 2, NEW k \in -2 .. 2, j < k
    PROVE  LET a == s * 2^(j + 2)
               c == s * 2^(k + 2)
               b == 4 * e
           IN  /\ a \in Nat \ {0} /\ c \in Nat \ {0} /\ a < c
               /\ k <= Rounded(e, s) => a * c <= b * b
               /\ j >= Rounded(e, s) => a * c >= b * b
<1> DEFINE p == 2^(j + 2)
           q == 2^(k + 2)
           ee == e * e
           ss == s * s
           r == Rounded(e, s)
<1>0. /\ p \in 1 .. 16 /\ q \in 1 .. 16
      /\ j = -2 => p = 1
      /\ j = -1 => p = 2
      /\ j = 0  => p = 4
      /\ j = 1  => p = 8
      /\ k = -1 => q = 2
      /\ k = 0  => q = 4
      /\ k = 1  => q = 8
      /\ k = 2  => q = 16
  BY Scales
<1>2. /\ r \in -2 .. 2 /\ ee \in Nat /\ ss \in Nat
      /\ r >= -1 => ss <= 8 * ee
      /\ r >= 0  => ss <= 2 * ee
      /\ r >= 1  => 2 * ss <= ee
      /\ r >= 2  => 8 * ss <= ee
      /\ r <= 1  => ee < 8 * ss
      /\ r <= 0  => ee < 2 * ss
      /\ r <= -1 => 2 * ee < ss
      /\ r <= -2 => 8 * ee < ss
  BY RoundedFacts
<1> HIDE DEF p, q, r
<1>1. p < q
  BY <1>0
<1>3. s * p \in Nat \ {0} /\ s * q \in Nat \ {0} /\ s * p < s * q
  <2>1. s * (p + 1) <= s * q /\ s * (p + 1) = s * p + s /\ s * 1 <= s * p
    BY <1>0, <1>1, Grows
  <2> QED  BY <1>0, <2>1
<1>4. (s * p) * (s * q) = (p * q) * ss /\ (4 * e) * (4 * e) = 16 * ee
  BY <1>0
<1> HIDE DEF ee, ss
<1>5. k <= r => (p * q) * ss <= 16 * ee
  BY <1>0, <1>2
<1>6. j >= r => (p * q) * ss >= 16 * ee
  BY <1>0, <1>2
<1> QED  BY <1>3, <1>4, <1>5, <1>6 DEF p, q, r

\* The clamped step comes nearer than any other step of at most two bits that
\* stays within the bounds.
LEMMA NearestFacts ==
    ASSUME RetargetAssumption, NEW e \in Nat \ {0}, NEW s \in Nat \ {0},
           NEW current \in Bits
    PROVE  \E step \in -2 .. 2 :
               /\ Clamped(current + Rounded(e, s)) = current + step
               /\ current + step \in Bits
               /\ \A d \in -2 .. 2 : current + d \in Bits =>
                      NoWorse(Fit(s * 2^(step + 2), 4 * e), Fit(s * 2^(d + 2), 4 * e))
<1> DEFINE r == Rounded(e, s)
           step == Clamped(current + r) - current
<1>1. r \in -2 .. 2
  BY RoundedFacts
<1> HIDE DEF r
<1>2. /\ step \in -2 .. 2 /\ current + step \in Bits
      /\ Clamped(current + r) = current + step
      /\ step = r \/ (step < r /\ current + step = MAX_DIFFICULTY)
                  \/ (step > r /\ current + step = MIN_DIFFICULTY)
  BY <1>1 DEF RetargetAssumption, Bits, Clamped
<1> HIDE DEF step
<1>3. ASSUME NEW d \in -2 .. 2, current + d \in Bits
      PROVE  NoWorse(Fit(s * 2^(step + 2), 4 * e), Fit(s * 2^(d + 2), 4 * e))
  <2>1. d < step => step <= r
    BY <1>1, <1>2, <1>3 DEF RetargetAssumption, Bits
  <2>2. step < d => r <= step
    BY <1>1, <1>2, <1>3 DEF RetargetAssumption, Bits
  <2> DEFINE a == s * 2^(step + 2)
             c == s * 2^(d + 2)
             b == 4 * e
  <2>3. b \in Nat \ {0}
    OBVIOUS
  <2>4. ASSUME d < step
        PROVE  a \in Nat \ {0} /\ c \in Nat \ {0} /\ c < a /\ c * a <= b * b
    BY <1>2, <2>1, <2>4, ProductFacts DEF r
  <2>5. ASSUME step < d
        PROVE  a \in Nat \ {0} /\ c \in Nat \ {0} /\ a < c /\ a * c >= b * b
    BY <1>2, <2>2, <2>5, ProductFacts DEF r
  <2>6. ASSUME step = d
        PROVE  a \in Nat /\ a = c
    <3>1. 2^(step + 2) \in 1 .. 16
      BY <1>2, Scales
    <3> QED  BY <2>6, <3>1
  <2> HIDE DEF a, b, c
  <2>7. ASSUME d < step
        PROVE  NoWorse(Fit(a, b), Fit(c, b))
    BY <2>3, <2>4, <2>7, FitFacts
  <2>8. ASSUME step < d
        PROVE  NoWorse(Fit(a, b), Fit(c, b))
    BY <2>3, <2>5, <2>8, FitFacts
  <2>9. ASSUME step = d
        PROVE  NoWorse(Fit(a, b), Fit(c, b))
    BY <2>3, <2>6, <2>9 DEF Fit, NoWorse
  <2>10. NoWorse(Fit(a, b), Fit(c, b))
    BY <1>2, <2>7, <2>8, <2>9
  <2> QED  BY <2>10 DEF a, b, c
<1> QED  BY <1>2, <1>3 DEF r

\* What a turn of the loop does to stamps and difficulty, at a boundary and
\* between two.
LEMMA TurnFacts ==
    ASSUME RetargetAssumption, RetargetInv, difficulty \in Bits, Simulated
    PROVE  /\ ~ IsBoundary(LastHeight') => difficulty' = difficulty
           /\ IsBoundary(LastHeight') =>
                  \E s \in Nat \ {0} :
                      /\ difficulty' = Clamped(difficulty + Rounded(expected, s))
                      /\ s = AtLeastOne(timestamps'[LastHeight' + 1]
                                        - timestamps'[LastHeight' + 1 - RETARGET_INTERVAL])
<1> DEFINE R == RETARGET_INTERVAL
           h == LastHeight
<1>1. PICK gap \in Cadence :
        LET stamps == Append(timestamps, Last(timestamps) + gap)
        IN  /\ timestamps' = stamps
            /\ difficulty' = retarget(h + 1, stamps, difficulty)
  BY DEF Simulated
<1>2. gap \in Int
  BY DEF Cadence, RetargetAssumption
<1> DEFINE stamps == Append(timestamps, Last(timestamps) + gap)
<1>3. stamps \in Seq(Int) /\ Len(stamps) = Len(timestamps) + 1 /\ Len(timestamps) \in Nat \ {0}
  <2>1. timestamps \in Seq(Int) /\ Len(timestamps) >= 1
    BY DEF RetargetInv
  <2>2. Last(timestamps) \in Int
    BY <2>1 DEF Last
  <2>3. Last(timestamps) + gap \in Int
    BY <1>2, <2>2
  <2> QED  BY <2>1, <2>3
<1>4. timestamps' = stamps /\ difficulty' = retarget(h + 1, stamps, difficulty)
  BY <1>1
<1> HIDE DEF stamps
<1>5. h \in Nat /\ Len(stamps) = h + 2 /\ LastHeight' = h + 1
  BY <1>3, <1>4 DEF LastHeight
<1> HIDE DEF h
<1>6. CASE ~ IsBoundary(h + 1)
  BY <1>4, <1>5, <1>6 DEF retarget
<1>7. CASE IsBoundary(h + 1)
  <2> DEFINE s == AtLeastOne(Elapsed(stamps))
  <2>1. R \in Nat \ {0} /\ h + 1 >= R
    BY <1>7 DEF RetargetAssumption, IsBoundary
  <2>2. difficulty' = Clamped(difficulty + Rounded(expected, s))
    BY <1>4, <1>5, <1>7, <2>1 DEF retarget, Delta
  <2>3. Elapsed(stamps) = stamps[h + 2] - stamps[h + 2 - R]
    BY <1>5 DEF Elapsed, Last
  <2>4. stamps[h + 2] \in Int /\ stamps[h + 2 - R] \in Int
    <3>1. h + 2 \in 1 .. Len(stamps) /\ h + 2 - R \in 1 .. Len(stamps)
      BY <1>5, <2>1
    <3> QED  BY <1>3, <3>1
  <2>5. s \in Nat \ {0}
    BY <2>3, <2>4 DEF AtLeastOne
  <2>6. LastHeight' + 1 = h + 2 /\ LastHeight' + 1 - R = h + 2 - R
    BY <1>5, <2>1
  <2>7. s = AtLeastOne(timestamps'[LastHeight' + 1] - timestamps'[LastHeight' + 1 - R])
    BY <1>4, <2>3, <2>6
  <2> HIDE DEF s
  <2> QED  BY <1>5, <1>7, <2>2, <2>5, <2>7
<1> QED  BY <1>5, <1>6, <1>7

\* A turn of the loop keeps the difficulty within its bounds and moves it by
\* the nearest step.
LEMMA NearestTurn ==
    ASSUME RetargetAssumption, RetargetInv, difficulty \in Bits, Simulated
    PROVE  /\ difficulty' \in Bits
           /\ IF IsBoundary(LastHeight')
              THEN \E step \in -2 .. 2 :
                       /\ difficulty' = difficulty + step
                       /\ difficulty' \in Bits
                       /\ \A d \in -2 .. 2 :
                              difficulty + d \in Bits => NoWorse(Misfit(step), Misfit(d))'
              ELSE difficulty' = difficulty
<1>1. CASE ~ IsBoundary(LastHeight')
  BY <1>1, TurnFacts
<1>2. CASE IsBoundary(LastHeight')
  <2>1. PICK s \in Nat \ {0} :
            /\ difficulty' = Clamped(difficulty + Rounded(expected, s))
            /\ s = AtLeastOne(timestamps'[LastHeight' + 1]
                              - timestamps'[LastHeight' + 1 - RETARGET_INTERVAL])
    BY <1>2, TurnFacts
  <2>2. expected \in Nat \ {0}
    <3>1. RETARGET_INTERVAL * 1 <= RETARGET_INTERVAL * TARGET_BLOCK_SECONDS
      BY Grows DEF RetargetAssumption
    <3> QED  BY <3>1 DEF RetargetAssumption, expected
  <2>3. PICK step \in -2 .. 2 :
            /\ Clamped(difficulty + Rounded(expected, s)) = difficulty + step
            /\ difficulty + step \in Bits
            /\ \A d \in -2 .. 2 : difficulty + d \in Bits =>
                   NoWorse(Fit(s * 2^(step + 2), 4 * expected), Fit(s * 2^(d + 2), 4 * expected))
    BY <2>2, NearestFacts
  <2>4. difficulty' = difficulty + step
    BY <2>1, <2>3
  <2>5. \A d \in -2 .. 2 : Misfit(d)' = Fit(s * 2^(d + 2), 4 * expected)
    <3>1. ASSUME NEW d \in -2 .. 2
          PROVE  Misfit(d)' = Fit(s * 2^(d + 2), 4 * expected)
      <4>1. 4 * expected = 4 * RETARGET_INTERVAL * TARGET_BLOCK_SECONDS
        BY DEF RetargetAssumption, expected
      <4> QED  BY <2>1, <4>1 DEF Misfit, Fit
    <3> QED  BY <3>1
  <2>6. \A d \in -2 .. 2 : difficulty + d \in Bits => NoWorse(Misfit(step), Misfit(d))'
    BY <2>3, <2>5 DEF NoWorse
  <2> QED  BY <1>2, <2>3, <2>4, <2>6
<1> QED  BY <1>1, <1>2

\* At a boundary the difficulty takes the best step of at most two bits within
\* its bounds, and elsewhere none: for every interval, target, bounds and
\* cadence, with spans that are zero or negative.
THEOREM StepsAreNearest == RetargetSpec => NearestStep
<1> DEFINE A == IF IsBoundary(LastHeight')
                THEN \E step \in -2 .. 2 :
                         /\ difficulty' = difficulty + step
                         /\ difficulty' \in Bits
                         /\ \A d \in -2 .. 2 :
                                difficulty + d \in Bits => NoWorse(Misfit(step), Misfit(d))'
                ELSE difficulty' = difficulty
<1>1. RetargetInit => RetargetInv /\ difficulty \in Bits
  <2>1. RetargetInit => RetargetInv
    BY RetargetAssumption, RetargetStarts
  <2> QED  BY <2>1 DEF RetargetInit, Bits
<1>2. RetargetInv /\ difficulty \in Bits /\ [Simulated]_retargetVars
          => RetargetInv' /\ (difficulty \in Bits)' /\ [A]_retargetVars
  <2> SUFFICES ASSUME RetargetInv, difficulty \in Bits, [Simulated]_retargetVars
               PROVE  RetargetInv' /\ (difficulty \in Bits)' /\ [A]_retargetVars
    OBVIOUS
  <2>1. CASE Simulated
    <3>1. RetargetInv'
      BY <2>1, RetargetAssumption, RetargetStep
    <3>2. difficulty' \in Bits /\ A
      BY <2>1, RetargetAssumption, NearestTurn
    <3> QED  BY <3>1, <3>2 DEF Bits
  <2>2. CASE UNCHANGED retargetVars
    BY <2>2 DEF retargetVars, RetargetInv, LastHeight, Boundary, Bits
  <2> QED  BY <2>1, <2>2
<1>3. RetargetSpec => [][A]_retargetVars
  <2> HIDE DEF A
  <2> QED  BY <1>1, <1>2, PTL DEF RetargetSpec
<1> QED  BY <1>3 DEF NearestStep

-----------------------------------------------------------------------------
(* The timestamp gate: medians *)

\* The positions of the stamps below a value, and of those up to it.
Below(s, v) == {i \in DOMAIN s : s[i] < v}
Upto(s, v) == {i \in DOMAIN s : s[i] <= v}

\* Sets of positions are finite and as large as the list at the most; a subset
\* is no larger.
LEMMA Positions ==
    ASSUME NEW n \in Nat, NEW P \in SUBSET (1 .. n)
    PROVE  /\ IsFiniteSet(P) /\ Cardinality(P) \in 0 .. n
           /\ \A Q \in SUBSET P : IsFiniteSet(Q) /\ Cardinality(Q) <= Cardinality(P)
<1>1. IsFiniteSet(1 .. n) /\ Cardinality(1 .. n) = n
  BY FS_Interval
<1>2. IsFiniteSet(P) /\ Cardinality(P) <= n
  BY <1>1, FS_Subset
<1>3. Cardinality(P) \in Nat
  BY <1>2, FS_CardinalityType
<1>4. \A Q \in SUBSET P : IsFiniteSet(Q) /\ Cardinality(Q) <= Cardinality(P)
  BY <1>2, FS_Subset
<1> QED  BY <1>2, <1>3, <1>4

\* In a list of bounded stamps there is one of each rank.
LEMMA RankedFacts ==
    ASSUME NEW s \in Seq(Nat), NEW bound \in Nat, \A i \in DOMAIN s : s[i] <= bound,
           NEW k \in 1 .. Len(s)
    PROVE  /\ Ranked(s, k) \in Nat
           /\ Cardinality(Below(s, Ranked(s, k))) < k
           /\ Cardinality(Upto(s, Ranked(s, k))) >= k
<1> DEFINE n == Len(s)
           V == {v \in Nat : Cardinality(Upto(s, v)) >= k}
<1>1. n \in Nat /\ DOMAIN s = 1 .. n /\ \A i \in 1 .. n : s[i] \in Nat
  OBVIOUS
<1>2. \A v : Upto(s, v) \subseteq 1 .. n /\ Below(s, v) \subseteq 1 .. n
  BY <1>1 DEF Upto, Below
<1>3. \A v : Cardinality(Upto(s, v)) \in Nat /\ Cardinality(Below(s, v)) \in Nat
  BY <1>1, <1>2, Positions
<1>4. bound \in V
  <2>1. Upto(s, bound) = 1 .. n
    BY <1>1 DEF Upto
  <2>2. Cardinality(1 .. n) = n
    BY <1>1, FS_Interval
  <2> QED  BY <1>1, <2>1, <2>2
<1>5. PICK x \in V : \A v \in V : x <= v
  <2> HIDE DEF V
  <2>1. V \subseteq Nat
    BY DEF V
  <2> QED  BY <1>4, <2>1, LeastExists
<1>6. Cardinality(Below(s, x)) < k
  <2>1. CASE x = 0
    <3>1. Below(s, x) = {}
      BY <1>1, <2>1 DEF Below
    <3> QED  BY <3>1, FS_EmptySet
  <2>2. CASE x # 0
    <3>1. x - 1 \in Nat /\ x - 1 \notin V
      BY <1>5, <2>2
    <3>2. Cardinality(Upto(s, x - 1)) < k
      BY <1>3, <3>1
    <3>3. Upto(s, x - 1) = Below(s, x)
      BY <1>1, <3>1 DEF Upto, Below
    <3> QED  BY <3>2, <3>3
  <2> QED  BY <2>1, <2>2
<1>7. x \in ToSet(s)
  <2> SUFFICES ASSUME \A i \in 1 .. n : s[i] # x
               PROVE  FALSE
    BY <1>1 DEF ToSet
  <2>1. Upto(s, x) = Below(s, x)
    BY <1>1 DEF Upto, Below
  <2> QED  BY <1>3, <1>6, <2>1
<1> DEFINE Fits(y) == Cardinality(Below(s, y)) < k /\ Cardinality(Upto(s, y)) >= k
<1>8. x \in ToSet(s) /\ Fits(x)
  BY <1>6, <1>7
<1>9. Ranked(s, k) = CHOOSE y \in ToSet(s) : Fits(y)
  BY DEF Ranked, Below, Upto
<1>10. Ranked(s, k) \in ToSet(s) /\ Fits(Ranked(s, k))
  <2> HIDE DEF Fits
  <2> QED  BY <1>8, <1>9
<1>11. Ranked(s, k) \in Nat
  BY <1>1, <1>10 DEF ToSet
<1> QED  BY <1>10, <1>11

\* The stamp of rank k is at least every value with fewer than k stamps below
\* it, and at most every value with k stamps up to it.
LEMMA RankedBounds ==
    ASSUME NEW s \in Seq(Nat), NEW bound \in Nat, \A i \in DOMAIN s : s[i] <= bound,
           NEW k \in 1 .. Len(s), NEW v \in Nat
    PROVE  /\ Cardinality(Below(s, v)) < k => Ranked(s, k) >= v
           /\ Cardinality(Upto(s, v)) >= k => Ranked(s, k) <= v
<1> DEFINE n == Len(s)
           x == Ranked(s, k)
<1>1. n \in Nat /\ DOMAIN s = 1 .. n /\ \A i \in 1 .. n : s[i] \in Nat
  OBVIOUS
<1>2. x \in Nat /\ Cardinality(Below(s, x)) < k /\ Cardinality(Upto(s, x)) >= k
  BY RankedFacts
<1> HIDE DEF x
<1>3. \A u : /\ Upto(s, u) \subseteq 1 .. n /\ Below(s, u) \subseteq 1 .. n
             /\ Cardinality(Upto(s, u)) \in Nat /\ Cardinality(Below(s, u)) \in Nat
  <2>1. \A u : Upto(s, u) \subseteq 1 .. n /\ Below(s, u) \subseteq 1 .. n
    BY <1>1 DEF Upto, Below
  <2> QED  BY <1>1, <2>1, Positions
<1>4. ASSUME Cardinality(Below(s, v)) < k, x < v PROVE FALSE
  <2>1. Upto(s, x) \subseteq Below(s, v)
    BY <1>1, <1>2, <1>4 DEF Upto, Below
  <2>2. Cardinality(Upto(s, x)) <= Cardinality(Below(s, v))
    BY <1>1, <1>3, <2>1, Positions
  <2> QED  BY <1>2, <1>3, <1>4, <2>2
<1>5. ASSUME Cardinality(Upto(s, v)) >= k, v < x PROVE FALSE
  <2>1. Upto(s, v) \subseteq Below(s, x)
    BY <1>1, <1>2, <1>5 DEF Upto, Below
  <2>2. Cardinality(Upto(s, v)) <= Cardinality(Below(s, x))
    BY <1>1, <1>3, <2>1, Positions
  <2> QED  BY <1>2, <1>3, <1>5, <2>2
<1> QED  BY <1>2, <1>4, <1>5 DEF x

\* The window: stamps of which none lies further ahead than the drift, and the
\* honest ones not at all.
GateInv ==
    /\ now \in Nat
    /\ recent \in Seq(Nat) /\ Len(recent) <= MEDIAN_PAST_WINDOW
    /\ lies \in Seq(BOOLEAN) /\ Len(lies) = Len(recent)
    /\ \A i \in DOMAIN recent :
           /\ recent[i] <= now + MAX_FUTURE_DRIFT
           /\ ~ lies[i] => recent[i] <= now

\* A window q is s with x at its end, without the first of s if s was full.
Pushed(q, s, x) ==
    /\ Len(s) < MEDIAN_PAST_WINDOW =>
           /\ Len(q) = Len(s) + 1 /\ q[Len(s) + 1] = x
           /\ \A i \in 1 .. Len(s) : q[i] = s[i]
    /\ Len(s) = MEDIAN_PAST_WINDOW =>
           /\ Len(q) = Len(s) /\ q[Len(s)] = x
           /\ \A i \in 1 .. Len(s) - 1 : q[i] = s[i + 1]

\* What Newest(Append(_, _)) holds while the window fills and when it slides.
LEMMA NewestFacts ==
    ASSUME GateAssumption, NEW T, NEW s \in Seq(T), NEW x \in T,
           Len(s) <= MEDIAN_PAST_WINDOW
    PROVE  Pushed(Newest(Append(s, x)), s, x) /\ Newest(Append(s, x)) \in Seq(T)
<1> DEFINE q == Newest(Append(s, x))
           n == Len(s)
           W == MEDIAN_PAST_WINDOW
           a == Append(s, x)
<1>1. W \in Nat \ {0} /\ n \in Nat
  <2>1. W \in Nat /\ W % 2 = 1
    BY DEF GateAssumption
  <2> QED  BY <2>1
<1>2. /\ a \in Seq(T) /\ Len(a) = n + 1 /\ a[n + 1] = x
      /\ \A i \in 1 .. n : a[i] = s[i]
  OBVIOUS
<1>3. CASE n < W
  <2>1. q = a
    BY <1>1, <1>2, <1>3 DEF Newest
  <2> QED  BY <1>1, <1>2, <1>3, <2>1 DEF Pushed
<1>4. CASE n = W
  <2>1. q = SubSeq(a, 2, n + 1)
    BY <1>1, <1>2, <1>4 DEF Newest
  <2> HIDE DEF a, q
  <2>2. /\ q \in Seq(T) /\ Len(q) = n
        /\ \A i \in 1 .. n : q[i] = a[i + 1]
    BY <1>1, <1>2, <2>1
  <2> QED  BY <1>1, <1>2, <1>4, <2>2 DEF a, q, Pushed
<1> QED  BY <1>1, <1>3, <1>4 DEF Pushed

\* GateInv is inductive.
LEMMA GateInvariant == GateSpec => []GateInv
<1>1. ASSUME GateAssumption, GateInit PROVE GateInv
  BY <1>1 DEF GateInit, GateInv, GateAssumption
<1>2. ASSUME GateAssumption, GateInv, [GateNext]_gateVars PROVE GateInv'
  <2> USE DEF GateInv
  <2>0. MAX_FUTURE_DRIFT \in Nat /\ MEDIAN_PAST_WINDOW \in Nat
    BY <1>2 DEF GateAssumption
  <2>1. ASSUME NEW x \in Nat, NEW lie \in BOOLEAN, Append_(x, lie), ~ lie => x <= now
        PROVE  GateInv'
    <3> DEFINE n == Len(recent)
               W == MEDIAN_PAST_WINDOW
    <3>1. /\ recent' = Newest(Append(recent, x)) /\ lies' = Newest(Append(lies, lie))
          /\ now' = now /\ x <= now + MAX_FUTURE_DRIFT
      BY <2>1 DEF Append_, is_valid_timestamp
    <3>2. recent' \in Seq(Nat) /\ Pushed(recent', recent, x)
      <4>1. recent \in Seq(Nat) /\ Len(recent) <= MEDIAN_PAST_WINDOW
        BY <1>2
      <4> QED  BY <1>2, <2>1, <3>1, <4>1, NewestFacts
    <3>3. lies' \in Seq(BOOLEAN) /\ Pushed(lies', lies, lie) /\ Len(lies) = n
      <4>1. lies \in Seq(BOOLEAN) /\ Len(lies) = n /\ n <= MEDIAN_PAST_WINDOW
        BY <1>2
      <4> QED  BY <1>2, <2>1, <3>1, <4>1, NewestFacts
    <3>4. /\ n \in Nat /\ n <= W /\ W \in Nat /\ now \in Nat
          /\ \A i \in 1 .. n : /\ recent[i] \in Nat /\ recent[i] <= now + MAX_FUTURE_DRIFT
                               /\ ~ lies[i] => recent[i] <= now
      BY <1>2, <2>0
    <3>5. Len(recent') <= W /\ Len(lies') = Len(recent')
      BY <3>2, <3>3, <3>4 DEF Pushed
    <3>6. ASSUME NEW i \in 1 .. Len(recent')
          PROVE  /\ recent'[i] <= now + MAX_FUTURE_DRIFT
                 /\ ~ lies'[i] => recent'[i] <= now
      <4>1. CASE n < W
        <5>1. CASE i \in 1 .. n
          BY <3>2, <3>3, <3>4, <4>1, <5>1 DEF Pushed
        <5>2. CASE i = n + 1
          BY <2>1, <3>1, <3>2, <3>3, <3>4, <4>1, <5>2 DEF Pushed
        <5> QED  BY <3>2, <3>4, <3>6, <4>1, <5>1, <5>2 DEF Pushed
      <4>2. CASE n = W
        <5>1. CASE i \in 1 .. n - 1
          <6>1. /\ i + 1 \in 1 .. n
                /\ recent'[i] = recent[i + 1] /\ lies'[i] = lies[i + 1]
            BY <3>2, <3>3, <3>4, <4>2, <5>1 DEF Pushed
          <6> QED  BY <3>4, <6>1
        <5>2. CASE i = n
          BY <2>1, <3>1, <3>2, <3>3, <3>4, <4>2, <5>2 DEF Pushed
        <5> QED  BY <3>2, <3>4, <3>6, <4>2, <5>1, <5>2 DEF Pushed
      <4> QED  BY <3>4, <4>1, <4>2
    <3> QED  BY <3>1, <3>2, <3>3, <3>4, <3>5, <3>6
  <2>2. CASE HonestBlock
    <3>1. Append_(now, FALSE) /\ now \in Nat
      BY <1>2, <2>2 DEF HonestBlock
    <3>2. Append_(now, FALSE) => GateInv'
      <4>1. ~ FALSE => now <= now
        BY <3>1
      <4> QED  BY <2>1, <3>1, <4>1
    <3> QED  BY <3>1, <3>2
  <2>3. CASE LyingBlock
    <3>1. PICK x \in 0 .. now + MAX_FUTURE_DRIFT + 1 : Append_(x, TRUE)
      BY <2>3 DEF LyingBlock
    <3>2. x \in Nat
      BY <1>2, <2>0
    <3> QED  BY <2>1, <3>1, <3>2
  <2>4. CASE Tick
    BY <1>2, <2>0, <2>4 DEF Tick
  <2>5. CASE UNCHANGED gateVars
    BY <1>2, <2>5 DEF gateVars
  <2> QED  BY <1>2, <2>2, <2>3, <2>4, <2>5 DEF GateNext
<1> QED  BY <1>1, <1>2, GateAssumption, PTL DEF GateSpec

\* Halves of consecutive numbers.
LEMMA Halves ==
    ASSUME NEW n \in Nat \ {0}
    PROVE  /\ (n + 1) \div 2 \in 1 .. n /\ n \div 2 + 1 \in 1 .. n
           /\ (n + 1) \div 2 <= n \div 2 + 1
           /\ (n + 2) \div 2 = n \div 2 + 1
           /\ n % 2 = 1 => (n + 1) \div 2 = n \div 2 + 1
           /\ \A m \in Nat : 2 * m > n => m >= n \div 2 + 1
OBVIOUS

\* The two ranks of which the median is the mean.
Lower(s) == Ranked(s, (Len(s) + 1) \div 2)
Upper(s) == Ranked(s, Len(s) \div 2 + 1)

\* The median lies between the two.
LEMMA MedianFacts ==
    ASSUME NEW s \in Seq(Nat), NEW bound \in Nat, \A i \in DOMAIN s : s[i] <= bound, s # << >>
    PROVE  /\ Lower(s) \in Nat /\ Upper(s) \in Nat /\ Lower(s) <= Upper(s)
           /\ median_past_timestamp(s) \in Nat
           /\ Lower(s) <= median_past_timestamp(s) /\ median_past_timestamp(s) <= Upper(s)
<1> DEFINE n == Len(s)
           j == (n + 1) \div 2
           k == n \div 2 + 1
<1>1. n \in Nat \ {0}
  OBVIOUS
<1>2. j \in 1 .. n /\ k \in 1 .. n /\ j <= k
  BY <1>1, Halves
<1> HIDE DEF j, k
<1>3. /\ Ranked(s, j) \in Nat /\ Ranked(s, k) \in Nat
      /\ Cardinality(Below(s, Ranked(s, j))) < j
  BY <1>2, RankedFacts
<1>4. Cardinality(Below(s, Ranked(s, j))) < k
  <2>1. Below(s, Ranked(s, j)) \in SUBSET (1 .. n)
    BY DEF Below
  <2>2. Cardinality(Below(s, Ranked(s, j))) \in Nat
    BY <1>1, <2>1, Positions
  <2> QED  BY <1>2, <1>3, <2>2
<1>5. Ranked(s, j) <= Ranked(s, k)
  BY <1>2, <1>3, <1>4, RankedBounds
<1>6. median_past_timestamp(s) = (Ranked(s, j) + Ranked(s, k)) \div 2
  BY DEF median_past_timestamp, j, k
<1>7. \A a, b \in Nat : a <= b => (a + b) \div 2 \in Nat /\ a <= (a + b) \div 2 /\ (a + b) \div 2 <= b
  OBVIOUS
<1> QED  BY <1>3, <1>5, <1>6, <1>7 DEF Lower, Upper, j, k

\* As long as fewer than half of the blocks in the window lie, the stamps up to
\* now fill more than half of it, both ranks are among them and the next second
\* passes: for every window and drift.
THEOREM HonestMinersPass == GateSpec => []HonestNotLockedOut
<1>1. ASSUME GateAssumption, GateInv PROVE HonestNotLockedOut
  <2> DEFINE n == Len(recent)
             Liars == {i \in DOMAIN lies : lies[i]}
             Truthful == (1 .. n) \ Liars
             drift == MAX_FUTURE_DRIFT
  <2> SUFFICES ASSUME 2 * Cardinality(Liars) < Len(lies)
               PROVE  is_valid_timestamp(now + 1, recent, now + 1)
    BY DEF HonestNotLockedOut
  <2>1. /\ n \in Nat /\ recent \in Seq(Nat) /\ now \in Nat /\ drift \in Nat
        /\ DOMAIN lies = 1 .. n /\ DOMAIN recent = 1 .. n /\ Len(lies) = n
        /\ \A i \in 1 .. n : /\ recent[i] \in Nat /\ recent[i] <= now + drift
                             /\ ~ lies[i] => recent[i] <= now
    BY <1>1 DEF GateInv, GateAssumption
  <2>2. Liars \subseteq 1 .. n /\ Truthful \subseteq Upto(recent, now)
    BY <2>1 DEF Upto
  <2>3. Cardinality(Truthful) = n - Cardinality(Liars)
    <3>1. n \in Nat /\ Liars \subseteq 1 .. n
      BY <2>1, <2>2
    <3> HIDE DEF Liars, n
    <3>2. IsFiniteSet(1 .. n) /\ Cardinality(1 .. n) = n
      BY <3>1, FS_Interval
    <3>3. (1 .. n) \cap Liars = Liars
      BY <3>1
    <3>4. Cardinality(Truthful) = Cardinality(1 .. n) - Cardinality((1 .. n) \cap Liars)
      BY <3>2, FS_Difference
    <3> QED  BY <3>2, <3>3, <3>4
  <2>4. Cardinality(Liars) \in Nat /\ 2 * Cardinality(Liars) < n
    BY <2>1, <2>2, Positions
  <2> HIDE DEF Liars, n
  <2>5. /\ Cardinality(Upto(recent, now)) \in Nat
        /\ Cardinality(Truthful) <= Cardinality(Upto(recent, now))
    <3>1. Upto(recent, now) \in SUBSET (1 .. n)
      BY <2>1 DEF Upto
    <3> HIDE DEF Truthful
    <3> QED  BY <2>1, <2>2, <3>1, Positions
  <2>6. 2 * Cardinality(Upto(recent, now)) > n
    BY <2>1, <2>3, <2>4, <2>5
  <2>7. n \in Nat \ {0}
    BY <2>1, <2>4
  <2>8. Cardinality(Upto(recent, now)) >= n \div 2 + 1 /\ n \div 2 + 1 \in 1 .. n
    BY <2>5, <2>6, <2>7, Halves
  <2>9. recent # << >> /\ n = Len(recent)
    BY <2>7 DEF n
  <2>10. now + drift \in Nat /\ \A i \in DOMAIN recent : recent[i] <= now + drift
    BY <2>1
  <2>11. Upper(recent) <= now
    BY <2>1, <2>8, <2>9, <2>10, RankedBounds DEF Upper
  <2>12. /\ median_past_timestamp(recent) \in Nat /\ Upper(recent) \in Nat
         /\ median_past_timestamp(recent) <= Upper(recent)
    BY <2>1, <2>9, <2>10, MedianFacts
  <2> QED  BY <2>1, <2>11, <2>12 DEF is_valid_timestamp
<1> QED  BY <1>1, GateInvariant, GateAssumption, PTL

\* Pushing a stamp of at least m puts no further stamp below m.
LEMMA PushedBelow ==
    ASSUME NEW s \in Seq(Nat), NEW q \in Seq(Nat), NEW x \in Nat, NEW m \in Nat,
           Len(s) = MEDIAN_PAST_WINDOW \/ Len(s) < MEDIAN_PAST_WINDOW,
           Pushed(q, s, x), m <= x
    PROVE  Cardinality(Below(q, m)) <= Cardinality(Below(s, m))
<1> DEFINE n == Len(s)
           A == Below(q, m)
           B == Below(s, m)
<1>1. /\ n \in Nat /\ B \subseteq 1 .. n
      /\ \A i \in 1 .. n : s[i] \in Nat
  BY DEF Below
<1>2. IsFiniteSet(B)
  BY <1>1, Positions
<1>3. CASE n < MEDIAN_PAST_WINDOW
  <2>1. /\ Len(q) = n + 1 /\ q[n + 1] = x
        /\ \A i \in 1 .. n : q[i] = s[i]
    BY <1>3 DEF Pushed
  <2>2. A \subseteq B
    <3> SUFFICES ASSUME NEW i \in A
                 PROVE  i \in B
      OBVIOUS
    <3>1. i \in 1 .. n + 1 /\ q[i] < m
      BY <1>1, <2>1 DEF Below
    <3>2. i # n + 1
      BY <1>1, <2>1, <3>1
    <3>3. i \in 1 .. n
      BY <1>1, <3>1, <3>2
    <3> QED  BY <2>1, <3>1, <3>3 DEF Below
  <2> HIDE DEF A, B
  <2>3. Cardinality(A) <= Cardinality(B)
    BY <1>2, <2>2, FS_Subset
  <2> QED  BY <2>3 DEF A, B
<1>4. CASE n = MEDIAN_PAST_WINDOW
  <2>1. /\ Len(q) = n /\ (n >= 1 => q[n] = x)
        /\ \A i \in 1 .. n - 1 : q[i] = s[i + 1]
    BY <1>4 DEF Pushed
  <2>2. \A i \in A : i \in Int /\ i + 1 \in B
    <3> SUFFICES ASSUME NEW i \in A
                 PROVE  i \in Int /\ i + 1 \in B
      OBVIOUS
    <3>1. i \in 1 .. n /\ q[i] < m
      BY <2>1 DEF Below
    <3>2. i # n
      BY <1>1, <2>1, <3>1
    <3>3. i \in 1 .. n - 1 /\ i + 1 \in 1 .. n
      BY <1>1, <3>1, <3>2
    <3> QED  BY <2>1, <3>1, <3>3 DEF Below
  <2> HIDE DEF A, B
  <2> DEFINE f == [i \in A |-> i + 1]
  <2>3. f \in Injection(A, B)
    <3>1. f \in [A -> B]
      BY <2>2
    <3>2. \A i, k \in A : f[i] = f[k] => i = k
      BY <2>2
    <3> HIDE DEF f
    <3> QED  BY <3>1, <3>2 DEF Injection, IsInjective
  <2>4. Cardinality(A) <= Cardinality(B)
    BY <1>2, <2>3, FS_Injection
  <2> QED  BY <2>4 DEF A, B
<1> QED  BY <1>3, <1>4

\* A stamp the gate lets through is above the median m, so no further stamp
\* comes to lie below m, and the lower of the new middle ranks is the upper of
\* the old ones: the median never falls, for every odd window and every drift.
THEOREM MedianRises == GateSpec => MedianNeverFalls
<1> DEFINE A == median_past_timestamp(recent') >= median_past_timestamp(recent)
<1>1. ASSUME GateAssumption, GateInv, GateInv', [GateNext]_gateVars PROVE A
  <2>0. /\ now \in Nat /\ MAX_FUTURE_DRIFT \in Nat
        /\ recent \in Seq(Nat) /\ recent' \in Seq(Nat)
        /\ Len(recent) \in Nat /\ Len(recent) <= MEDIAN_PAST_WINDOW
        /\ MEDIAN_PAST_WINDOW \in Nat \ {0} /\ MEDIAN_PAST_WINDOW % 2 = 1
    <3>1. MEDIAN_PAST_WINDOW # 0
      BY <1>1 DEF GateAssumption
    <3> QED  BY <1>1, <3>1 DEF GateInv, GateAssumption
  <2>1. /\ now + MAX_FUTURE_DRIFT \in Nat /\ now' + MAX_FUTURE_DRIFT \in Nat
        /\ \A i \in DOMAIN recent : recent[i] <= now + MAX_FUTURE_DRIFT
        /\ \A i \in DOMAIN recent' : recent'[i] <= now' + MAX_FUTURE_DRIFT
    <3>1. /\ now' \in Nat
          /\ \A i \in DOMAIN recent' : recent'[i] <= now' + MAX_FUTURE_DRIFT
      BY <1>1 DEF GateInv
    <3>2. \A i \in DOMAIN recent : recent[i] <= now + MAX_FUTURE_DRIFT
      BY <1>1 DEF GateInv
    <3>3. now + MAX_FUTURE_DRIFT \in Nat
      BY <2>0
    <3>4. now' \in Nat /\ MAX_FUTURE_DRIFT \in Nat
      BY <2>0, <3>1
    <3>5. now' + MAX_FUTURE_DRIFT \in Nat
      <4>1. \A a, b \in Nat : a + b \in Nat
        OBVIOUS
      <4> QED  BY <3>4, <4>1, Zenon
    <3> QED  BY <3>1, <3>2, <3>3, <3>5, Zenon
  <2>2. median_past_timestamp(recent) \in Nat
    <3>1. CASE recent = << >>
      BY <3>1 DEF median_past_timestamp
    <3>2. CASE recent # << >>
      BY <2>0, <2>1, <3>2, MedianFacts
    <3> QED  BY <3>1, <3>2
  <2>3. ASSUME NEW x \in Nat, NEW lie, Append_(x, lie) PROVE A
    <3> DEFINE m == median_past_timestamp(recent)
               n == Len(recent)
    <3>1. /\ recent' = Newest(Append(recent, x))
          /\ recent # << >> => x > m
      BY <2>3 DEF Append_, is_valid_timestamp
    <3>2. Pushed(recent', recent, x)
      BY <1>1, <2>0, <3>1, NewestFacts
    <3>3. Len(recent') = (IF n < MEDIAN_PAST_WINDOW THEN n + 1 ELSE n) /\ Len(recent') # 0
      <4>1. CASE n < MEDIAN_PAST_WINDOW
        BY <2>0, <3>2, <4>1 DEF Pushed
      <4>2. CASE n = MEDIAN_PAST_WINDOW
        BY <2>0, <3>2, <4>2 DEF Pushed
      <4> QED  BY <2>0, <4>1, <4>2
    <3>4. recent' # << >>
      BY <3>3
    <3>5. /\ median_past_timestamp(recent') \in Nat /\ Lower(recent') \in Nat
          /\ Lower(recent') <= median_past_timestamp(recent')
      BY <2>0, <2>1, <3>4, MedianFacts
    <3>6. CASE recent = << >>
      BY <3>5, <3>6 DEF median_past_timestamp
    <3>7. CASE recent # << >>
      <4>1. m \in Nat /\ m <= Upper(recent) /\ Upper(recent) \in Nat
        BY <2>0, <2>1, <3>7, MedianFacts
      <4> HIDE DEF m
      <4> DEFINE k == n \div 2 + 1
      <4>2. n \in Nat \ {0} /\ k \in 1 .. n /\ k \in Nat
        <5>1. n \in Nat \ {0}
          BY <2>0, <3>7
        <5> QED  BY <5>1, Halves
      <4>3. Cardinality(Below(recent, m)) < k
        <5>1. Cardinality(Below(recent, Upper(recent))) < k
          BY <2>0, <2>1, <4>2, RankedFacts DEF Upper
        <5>2. /\ Below(recent, Upper(recent)) \in SUBSET (1 .. n)
              /\ Below(recent, m) \subseteq Below(recent, Upper(recent))
          BY <2>0, <4>1 DEF Below
        <5>3. /\ Cardinality(Below(recent, m)) <= Cardinality(Below(recent, Upper(recent)))
              /\ Cardinality(Below(recent, m)) \in Nat
              /\ Cardinality(Below(recent, Upper(recent))) \in Nat
          <6>1. Below(recent, m) \in SUBSET (1 .. n)
            BY <5>2
          <6> QED  BY <2>0, <5>2, <6>1, Positions
        <5> QED  BY <4>2, <5>1, <5>3
      <4>4. Cardinality(Below(recent', m)) < k
        <5>1. Cardinality(Below(recent', m)) <= Cardinality(Below(recent, m))
          <6>1. Len(recent) = MEDIAN_PAST_WINDOW \/ Len(recent) < MEDIAN_PAST_WINDOW
            BY <2>0
          <6>2. m <= x
            BY <3>1, <3>7, <4>1 DEF m
          <6> QED  BY <2>0, <3>2, <4>1, <6>1, <6>2, PushedBelow
        <5>2. Cardinality(Below(recent, m)) \in Nat /\ Cardinality(Below(recent', m)) \in Nat
          <6>1. /\ Below(recent, m) \in SUBSET (1 .. n)
                /\ Below(recent', m) \in SUBSET (1 .. Len(recent'))
                /\ Len(recent') \in Nat
            BY <2>0 DEF Below
          <6> QED  BY <2>0, <6>1, Positions
        <5> QED  BY <4>2, <4>3, <5>1, <5>2
      <4>5. (Len(recent') + 1) \div 2 = k
        <5>1. CASE n < MEDIAN_PAST_WINDOW
          <6>1. Len(recent') + 1 = n + 2
            BY <3>3, <4>2, <5>1
          <6> QED  BY <4>2, <6>1, Halves
        <5>2. CASE n = MEDIAN_PAST_WINDOW
          <6>1. Len(recent') + 1 = n + 1 /\ n % 2 = 1
            BY <2>0, <3>3, <4>2, <5>2
          <6> QED  BY <4>2, <6>1, Halves
        <5> QED  BY <2>0, <5>1, <5>2
      <4>6. k \in 1 .. Len(recent')
        BY <2>0, <3>3, <4>2
      <4>7. Lower(recent') >= m
        BY <2>0, <2>1, <4>1, <4>4, <4>5, <4>6, RankedBounds DEF Lower
      <4> QED  BY <3>5, <4>1, <4>7 DEF m
    <3> QED  BY <3>6, <3>7
  <2>4. CASE HonestBlock
    BY <2>0, <2>3, <2>4 DEF HonestBlock
  <2>5. CASE LyingBlock
    <3>1. PICK x \in 0 .. now + MAX_FUTURE_DRIFT + 1 : Append_(x, TRUE)
      BY <2>5 DEF LyingBlock
    <3>2. x \in Nat
      BY <2>0
    <3> QED  BY <2>3, <3>1, <3>2
  <2>6. CASE Tick \/ UNCHANGED gateVars
    <3>1. recent' = recent
      BY <2>6 DEF Tick, gateVars
    <3>2. median_past_timestamp(recent') = median_past_timestamp(recent)
      BY <3>1
    <3> QED  BY <2>2, <3>2
  <2> QED  BY <1>1, <2>4, <2>5, <2>6 DEF GateNext
<1>2. GateSpec => [][A]_gateVars
  <2>1. GateAssumption /\ GateInv /\ GateInv' /\ [GateNext]_gateVars => [A]_gateVars
    BY <1>1
  <2> HIDE DEF A
  <2> QED  BY <2>1, GateInvariant, GateAssumption, PTL DEF GateSpec
<1> QED  BY <1>2 DEF MedianNeverFalls
=============================================================================
