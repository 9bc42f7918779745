---------------------------- MODULE LedgerProofs ----------------------------
(***************************************************************************)
(* Facts about the operators of Ledger: a block is a path, and the chain   *)
(* operations keep the list, the two indexes and the tip in step.          *)
(***************************************************************************)
EXTENDS Ledger, SequenceTheorems, WellFoundedInduction, TLAPS

-----------------------------------------------------------------------------
(* The natural numbers are well ordered, stated with sets: what a proof    *)
(* over positions or heights needs in the place of an induction.           *)

\* A non-empty set of natural numbers has a least element.
LEMMA LeastExists ==
    ASSUME NEW T \in SUBSET Nat, T # {}
    PROVE  \E m \in T : \A k \in T : m <= k
<1> DEFINE R == OpToRel(<, Nat)
<1>1. IsWellFoundedOn(R, Nat)
  BY NatLessThanWellFounded
<1>2. R = {ss \in Nat \X Nat : ss[1] < ss[2]}
  BY DEF OpToRel
<1> HIDE DEF R
<1>3. PICK m \in T : \A k \in T : ~ (<< k, m >> \in R)
  BY <1>1, WFMin
<1>4. ASSUME NEW k \in T
      PROVE  m <= k
  <2>1. << k, m >> \notin {ss \in Nat \X Nat : ss[1] < ss[2]}
    BY <1>2, <1>3
  <2>2. ~ k < m
    BY <2>1
  <2> QED  BY <2>2
<1> QED  BY <1>4

-----------------------------------------------------------------------------
(* Paths *)

\* The part of a block's path up to height k is a block of height k.
LEMMA PrefixBlock ==
    ASSUME NEW b \in Block, NEW k \in 0 .. Len(b)
    PROVE  /\ SubSeq(b, 1, k) \in Block
           /\ Len(SubSeq(b, 1, k)) = k
           /\ \A i \in 1 .. k : SubSeq(b, 1, k)[i] = b[i]
  BY SMT DEF Block

\* A block is determined by its height and its headers.
LEMMA SameBlock ==
    ASSUME NEW b \in Block, NEW d \in Block, Len(b) = Len(d),
           \A i \in 1 .. Len(b) : b[i] = d[i]
    PROVE  b = d
  BY SeqEqual DEF Block

\* The genesis block is the empty path.
LEMMA GenesisBlock ==
    /\ GENESIS \in Block
    /\ Len(GENESIS) = 0
    /\ SubSeq(GENESIS, 1, 0) = GENESIS
  BY SMT DEF Block, GENESIS

\* A block is its own highest prefix, and GENESIS the lowest of every block.
LEMMA WholeBlock ==
    ASSUME NEW b \in Block
    PROVE  /\ SubSeq(b, 1, Len(b)) = b
           /\ SubSeq(b, 1, 0) = GENESIS
           /\ GENESIS \in Block
           /\ Len(GENESIS) = 0
           /\ Len(b) \in Nat
  BY SMT DEF Block, GENESIS

\* Prefixes of prefixes are prefixes.
LEMMA PrefixPrefix ==
    ASSUME NEW b \in Block, NEW k \in 0 .. Len(b), NEW j \in 0 .. k
    PROVE  SubSeq(SubSeq(b, 1, k), 1, j) = SubSeq(b, 1, j)
<1> DEFINE p == SubSeq(b, 1, k)
<1>1. /\ p \in Block /\ Len(p) = k
      /\ \A i \in 1 .. k : p[i] = b[i]
  BY PrefixBlock
<1>2. j \in 0 .. Len(b) /\ j \in 0 .. Len(p)
  BY <1>1 DEF Block
<1>3. /\ SubSeq(p, 1, j) \in Block /\ Len(SubSeq(p, 1, j)) = j
      /\ \A i \in 1 .. j : SubSeq(p, 1, j)[i] = p[i]
  BY <1>1, <1>2, PrefixBlock
<1>4. /\ SubSeq(b, 1, j) \in Block /\ Len(SubSeq(b, 1, j)) = j
      /\ \A i \in 1 .. j : SubSeq(b, 1, j)[i] = b[i]
  BY <1>2, PrefixBlock
<1>5. \A i \in 1 .. j : SubSeq(p, 1, j)[i] = SubSeq(b, 1, j)[i]
  BY <1>1, <1>3, <1>4
<1> HIDE DEF p
<1>6. SubSeq(p, 1, j) = SubSeq(b, 1, j)
  BY <1>3, <1>4, <1>5, SameBlock
<1> QED  BY <1>6 DEF p

-----------------------------------------------------------------------------
(* Prefix order *)

\* t is a prefix of d exactly when d's path passes through t.
LEMMA PrefixIsAncestor ==
    ASSUME NEW t \in Block, NEW d \in Block, IsPrefix(t, d)
    PROVE  /\ Len(t) \in 0 .. Len(d)
           /\ t = SubSeq(d, 1, Len(t))
<1>1. SubSeq(t, 1, Len(t)) = t /\ Len(t) \in Nat /\ Len(d) \in Nat
  BY WholeBlock
<1> QED  BY <1>1 DEF IsPrefix

\* Ancestry is transitive.
LEMMA PrefixTransitive ==
    ASSUME NEW t \in Block, NEW b \in Block, NEW d \in Block,
           IsPrefix(t, b), IsPrefix(b, d)
    PROVE  IsPrefix(t, d)
<1>1. /\ Len(t) \in 0 .. Len(b) /\ t = SubSeq(b, 1, Len(t))
      /\ Len(b) \in 0 .. Len(d) /\ b = SubSeq(d, 1, Len(b))
  BY PrefixIsAncestor
<1>2. Len(t) \in Nat /\ Len(b) \in Nat /\ Len(d) \in Nat
  BY WholeBlock
<1>3. SubSeq(SubSeq(d, 1, Len(b)), 1, Len(t)) = SubSeq(d, 1, Len(t))
  BY <1>1, PrefixPrefix
<1>4. t = SubSeq(d, 1, Len(t))
  BY <1>1, <1>3
<1>5. SubSeq(t, 1, Len(t)) = t
  BY WholeBlock
<1>6. Len(t) <= Len(d)
  BY <1>1, <1>2
<1> QED  BY <1>4, <1>5, <1>6 DEF IsPrefix

\* The parent of a block is the prefix one lower.
LEMMA ParentFacts ==
    ASSUME NEW b \in Block, b # GENESIS
    PROVE  /\ Len(b) \in Nat \ {0}
           /\ prev_hash(b) \in Block
           /\ Len(prev_hash(b)) = Len(b) - 1
           /\ IsPrefix(prev_hash(b), b)
<1>1. Len(b) \in Nat /\ Len(b) # 0
  BY SMT DEF Block, GENESIS
<1>2. Len(b) - 1 \in 0 .. Len(b)
  BY <1>1
<1>3. prev_hash(b) = SubSeq(b, 1, Len(b) - 1)
  BY DEF prev_hash, Front
<1>4. prev_hash(b) \in Block /\ Len(prev_hash(b)) = Len(b) - 1
  BY <1>2, <1>3, PrefixBlock
<1>5. SubSeq(prev_hash(b), 1, Len(prev_hash(b))) = prev_hash(b)
  BY <1>4, WholeBlock
<1>6. IsPrefix(prev_hash(b), b)
  BY <1>1, <1>3, <1>4, <1>5 DEF IsPrefix
<1> QED  BY <1>1, <1>4, <1>6

\* The ancestors of a block: itself, GENESIS, and all the ancestors of each.
LEMMA PrefixesFacts ==
    ASSUME NEW b \in Block
    PROVE  /\ b \in Prefixes(b) /\ GENESIS \in Prefixes(b)
           /\ \A e \in Prefixes(b) : /\ e \in Block /\ Len(e) <= Len(b)
                                     /\ Prefixes(e) \subseteq Prefixes(b)
<1>1. Len(b) \in Nat /\ SubSeq(b, 1, Len(b)) = b /\ SubSeq(b, 1, 0) = GENESIS
  BY WholeBlock
<1>2. b \in Prefixes(b) /\ GENESIS \in Prefixes(b)
  <2>1. Len(b) \in 0 .. Len(b) /\ 0 \in 0 .. Len(b)
    BY <1>1
  <2> QED  BY <1>1, <2>1 DEF Prefixes
<1>3. ASSUME NEW k \in 0 .. Len(b)
      PROVE  LET e == SubSeq(b, 1, k)
             IN  /\ e \in Block /\ Len(e) <= Len(b)
                 /\ Prefixes(e) \subseteq Prefixes(b)
  <2> DEFINE e == SubSeq(b, 1, k)
  <2>1. e \in Block /\ Len(e) = k
    BY PrefixBlock
  <2>2. ASSUME NEW j \in 0 .. Len(e)
        PROVE  SubSeq(e, 1, j) \in Prefixes(b)
    <3>1. j \in 0 .. k /\ j \in 0 .. Len(b)
      BY <1>1, <2>1
    <3>2. SubSeq(e, 1, j) = SubSeq(b, 1, j)
      BY <3>1, PrefixPrefix
    <3> HIDE DEF e
    <3> QED  BY <3>1, <3>2 DEF Prefixes
  <2> HIDE DEF e
  <2>3. Prefixes(e) \subseteq Prefixes(b)
    BY <2>2 DEF Prefixes
  <2> QED  BY <1>1, <2>1, <2>3 DEF e
<1>4. \A e \in Prefixes(b) : \E k \in 0 .. Len(b) : e = SubSeq(b, 1, k)
  BY DEF Prefixes
<1> QED  BY <1>2, <1>3, <1>4

\* The ancestors of a descendant d of t are those of t and those in between.
LEMMA PrefixesAbove ==
    ASSUME NEW t \in Block, NEW d \in Block, IsPrefix(t, d)
    PROVE  Prefixes(d) = Prefixes(t) \cup {SubSeq(d, 1, h) : h \in Len(t) + 1 .. Len(d)}
<1>1. /\ Len(t) \in 0 .. Len(d) /\ t = SubSeq(d, 1, Len(t))
      /\ Len(t) \in Nat /\ Len(d) \in Nat
  BY PrefixIsAncestor, WholeBlock
<1>2. \A k \in 0 .. Len(t) : SubSeq(t, 1, k) = SubSeq(d, 1, k)
  BY <1>1, PrefixPrefix
<1>3. 0 .. Len(d) = (0 .. Len(t)) \cup (Len(t) + 1 .. Len(d))
  BY <1>1
<1>4. Prefixes(t) = {SubSeq(d, 1, k) : k \in 0 .. Len(t)}
  BY <1>2 DEF Prefixes
<1> QED  BY <1>3, <1>4 DEF Prefixes

\* Validity is inherited along sound blocks.
LEMMA ValidExtends ==
    ASSUME NEW t \in Block, NEW d \in Block, IsPrefix(t, d),
           ValidFromGenesis(t),
           \A h \in Len(t) + 1 .. Len(d) : Sound(SubSeq(d, 1, h))
    PROVE  ValidFromGenesis(d)
<1>1. /\ Len(t) \in 0 .. Len(d) /\ t = SubSeq(d, 1, Len(t))
      /\ Len(t) \in Nat /\ Len(d) \in Nat
  BY PrefixIsAncestor, WholeBlock
<1>2. ASSUME NEW h \in 1 .. Len(d)
      PROVE  Sound(SubSeq(d, 1, h))
  <2>1. CASE h <= Len(t)
    <3>1. h \in 0 .. Len(t) /\ h \in 1 .. Len(t)
      BY <2>1
    <3>2. SubSeq(t, 1, h) = SubSeq(d, 1, h)
      BY <1>1, <3>1, PrefixPrefix
    <3> QED  BY <3>1, <3>2 DEF ValidFromGenesis
  <2>2. CASE ~ h <= Len(t)
    <3>1. h \in Len(t) + 1 .. Len(d)
      BY <1>1, <2>2
    <3> QED  BY <3>1
  <2> QED  BY <2>1, <2>2
<1> QED  BY <1>2 DEF ValidFromGenesis

\* A mined block is one higher than its parent, and its prefixes are itself
\* and the prefixes of its parent.
LEMMA MinedBlockFacts ==
    ASSUME NEW t \in Block, NEW txs \in SUBSET Tx, NEW stamp \in Stamp
    PROVE  LET b == MinedBlock(t, txs, stamp)
           IN  /\ b \in Block
               /\ Len(b) = Len(t) + 1
               /\ IsPrefix(t, b)
               /\ prev_hash(b) = t
               /\ \A k \in 0 .. Len(t) : SubSeq(b, 1, k) = SubSeq(t, 1, k)
<1> DEFINE h == [txs |-> txs, stamp |-> stamp]
           b == Append(t, h)
<1>1. h \in Header  BY DEF Header
<1>2. /\ b \in Block /\ Len(b) = Len(t) + 1 /\ Len(t) \in Nat
      /\ \A i \in 1 .. Len(t) : b[i] = t[i]
  BY <1>1, SMT DEF Block
<1>3. ASSUME NEW k \in 0 .. Len(t)
      PROVE  SubSeq(b, 1, k) = SubSeq(t, 1, k)
  <2>1. k \in 0 .. Len(b)  BY <1>2
  <2>2. /\ SubSeq(b, 1, k) \in Block /\ Len(SubSeq(b, 1, k)) = k
        /\ \A i \in 1 .. k : SubSeq(b, 1, k)[i] = b[i]
    BY <1>2, <2>1, PrefixBlock
  <2>3. /\ SubSeq(t, 1, k) \in Block /\ Len(SubSeq(t, 1, k)) = k
        /\ \A i \in 1 .. k : SubSeq(t, 1, k)[i] = t[i]
    BY <1>3, PrefixBlock
  <2>4. \A i \in 1 .. k : SubSeq(b, 1, k)[i] = SubSeq(t, 1, k)[i]
    BY <1>2, <2>2, <2>3
  <2> HIDE DEF b
  <2> QED  BY <2>2, <2>3, <2>4, SameBlock
<1>4. SubSeq(b, 1, Len(t)) = t
  BY <1>2, <1>3, WholeBlock
<1>5. prev_hash(b) = t /\ IsPrefix(t, b)
  BY <1>2, <1>3, <1>4 DEF prev_hash, Front, IsPrefix
<1> QED  BY <1>2, <1>3, <1>5 DEF MinedBlock

\* The ancestors of a mined block are itself and those of its parent.
LEMMA MinedPrefixes ==
    ASSUME NEW t \in Block, NEW txs \in SUBSET Tx, NEW stamp \in Stamp
    PROVE  LET b == MinedBlock(t, txs, stamp)
           IN  Prefixes(b) = Prefixes(t) \cup {b}
<1> DEFINE b == MinedBlock(t, txs, stamp)
<1>1. /\ b \in Block /\ Len(b) = Len(t) + 1 /\ IsPrefix(t, b)
      /\ Len(t) \in Nat /\ SubSeq(b, 1, Len(b)) = b
  BY MinedBlockFacts, WholeBlock
<1> HIDE DEF b
<1>2. Len(t) + 1 .. Len(b) = {Len(b)}
  BY <1>1
<1>3. Prefixes(b) = Prefixes(t) \cup {SubSeq(b, 1, h) : h \in {Len(b)}}
  BY <1>1, <1>2, PrefixesAbove
<1> QED  BY <1>1, <1>3 DEF b

\* The headers of a mined block are the new one and those of its parent.
LEMMA MinedHeaders ==
    ASSUME NEW t \in Block, NEW txs \in SUBSET Tx, NEW stamp \in Stamp
    PROVE  LET b == MinedBlock(t, txs, stamp)
           IN  /\ \A h \in 1 .. Len(t) : b[h] = t[h]
               /\ b[Len(t) + 1].txs = txs
               /\ tx_hashes(b) = txs
<1> DEFINE x == [txs |-> txs, stamp |-> stamp]
           b == Append(t, x)
<1>1. x \in Header  BY DEF Header
<1>2. /\ Len(b) = Len(t) + 1 /\ b[Len(t) + 1] = x
      /\ \A i \in 1 .. Len(t) : b[i] = t[i]
  BY <1>1, SMT DEF Block
<1>3. x.txs = txs
  OBVIOUS
<1> HIDE DEF x
<1> QED  BY <1>2, <1>3 DEF MinedBlock, tx_hashes, Last, x

\* The transactions of the block at height h of the path to d, and of the path
\* above t when h is above t.
LEMMA PathTxsFacts ==
    ASSUME NEW t \in Block, NEW d \in Block, NEW h \in 1 .. Len(d)
    PROVE  /\ tx_hashes(SubSeq(d, 1, h)) = d[h].txs
           /\ h > Len(t) => d[h].txs \subseteq PathTxs(t, d)
<1>1. /\ Len(d) \in Nat /\ Len(t) \in Nat /\ h \in Nat
      /\ DOMAIN d = 1 .. Len(d)
  BY WholeBlock DEF Block
<1>2. /\ Len(SubSeq(d, 1, h)) = h
      /\ SubSeq(d, 1, h)[h] = d[h]
  BY <1>1, PrefixBlock, SMT DEF Block
<1>3. tx_hashes(SubSeq(d, 1, h)) = d[h].txs
  BY <1>2 DEF tx_hashes, Last
<1>4. ASSUME h > Len(t) PROVE h \in Len(t) + 1 .. Len(d)
  BY <1>1, <1>4
<1> QED  BY <1>3, <1>4 DEF PathTxs

-----------------------------------------------------------------------------
(* Chains *)

\* The one chain that ends in block b.
ChainOf(b) ==
    [blocks    |-> walk_to_genesis(b),
     by_hash   |-> Prefixes(b),
     by_height |-> [h \in 0 .. Len(b) |-> SubSeq(b, 1, h)],
     tip_hash  |-> b]

\* _walk_to_genesis lists the prefixes of the block in order.
LEMMA WalkFacts ==
    ASSUME NEW b \in Block
    PROVE  /\ walk_to_genesis(b) = [i \in 1 .. Len(b) + 1 |-> SubSeq(b, 1, i - 1)]
           /\ walk_to_genesis(b) \in Seq(Block)
           /\ Len(walk_to_genesis(b)) = Len(b) + 1
           /\ DOMAIN walk_to_genesis(b) = 1 .. Len(b) + 1
           /\ \A i \in 1 .. Len(b) + 1 : walk_to_genesis(b)[i] = SubSeq(b, 1, i - 1)
<1> DEFINE p == Path(GENESIS, b)
           w == << GENESIS >> \o p
<1>1. /\ Len(b) \in Nat /\ GENESIS \in Block /\ Len(GENESIS) = 0
      /\ SubSeq(b, 1, 0) = GENESIS
  BY WholeBlock
<1>2. p = [i \in 1 .. Len(b) |-> SubSeq(b, 1, i)]
  BY <1>1 DEF Path
<1>3. \A i \in 1 .. Len(b) : SubSeq(b, 1, i) \in Block
  BY <1>1, PrefixBlock
<1>4. p \in Seq(Block) /\ Len(p) = Len(b)
  BY <1>1, <1>2, <1>3, SMT
<1>5. /\ w \in Seq(Block) /\ Len(w) = Len(b) + 1
      /\ w[1] = GENESIS
      /\ \A i \in 2 .. Len(b) + 1 : w[i] = p[i - 1]
  <2> HIDE DEF p
  <2> QED  BY <1>1, <1>4, SMT
<1>6. \A i \in 1 .. Len(b) + 1 : w[i] = SubSeq(b, 1, i - 1)
  <2> SUFFICES ASSUME NEW i \in 1 .. Len(b) + 1
               PROVE  w[i] = SubSeq(b, 1, i - 1)
    OBVIOUS
  <2>1. CASE i = 1
    BY <1>1, <1>5, <2>1
  <2>2. CASE i # 1
    <3>1. i \in 2 .. Len(b) + 1 /\ i - 1 \in 1 .. Len(b)
      BY <1>1, <2>2
    <3>2. p[i - 1] = SubSeq(b, 1, i - 1)
      BY <1>2, <3>1
    <3> QED  BY <1>5, <3>1, <3>2
  <2> QED  BY <2>1, <2>2
<1>7. w = [i \in 1 .. Len(b) + 1 |-> SubSeq(b, 1, i - 1)]
  <2> HIDE DEF w
  <2> QED  BY <1>1, <1>5, <1>6, SMT
<1> QED  BY <1>1, <1>5, <1>6, <1>7 DEF walk_to_genesis

\* The node starts on the chain that ends in GENESIS.
LEMMA NewChainFacts == NewChain = ChainOf(GENESIS)
<1>1. /\ GENESIS \in Block /\ Len(GENESIS) = 0
      /\ SubSeq(GENESIS, 1, 0) = GENESIS
  BY GenesisBlock
<1>2. walk_to_genesis(GENESIS) = << GENESIS >>
  <2>1. Path(GENESIS, GENESIS) = << >>
    BY <1>1, SMT DEF Path
  <2>2. << GENESIS >> \o << >> = << GENESIS >>
    BY <1>1, SMT
  <2> QED  BY <2>1, <2>2 DEF walk_to_genesis
<1>3. Prefixes(GENESIS) = {GENESIS}
  <2>1. 0 .. 0 = {0}  OBVIOUS
  <2> QED  BY <1>1, <2>1 DEF Prefixes
<1>4. [h \in 0 .. Len(GENESIS) |-> SubSeq(GENESIS, 1, h)] = [h \in {0} |-> GENESIS]
  <2>1. 0 .. 0 = {0}  OBVIOUS
  <2> QED  BY <1>1, <2>1
<1> QED  BY <1>2, <1>3, <1>4 DEF NewChain, ChainOf

\* What the accessors read off such a chain.
LEMMA ChainOfFacts ==
    ASSUME NEW b \in Block
    PROVE  /\ tip(ChainOf(b)) = b
           /\ height(ChainOf(b)) = Len(b)
           /\ ChainOf(b).tip_hash = b
           /\ ChainOf(b).by_hash = Prefixes(b)
           /\ DOMAIN ChainOf(b).by_height = 0 .. Len(b)
<1>1. Len(b) \in Nat /\ SubSeq(b, 1, Len(b)) = b
  BY WholeBlock
<1>2. ChainOf(b).blocks[Len(b) + 1] = b
  <2>1. Len(b) + 1 \in 1 .. Len(b) + 1 /\ (Len(b) + 1) - 1 = Len(b)
    BY <1>1
  <2>2. walk_to_genesis(b)[Len(b) + 1] = SubSeq(b, 1, (Len(b) + 1) - 1)
    BY <2>1, WalkFacts
  <2> QED  BY <1>1, <2>1, <2>2 DEF ChainOf
<1>3. Len(ChainOf(b).blocks) = Len(b) + 1
  BY WalkFacts DEF ChainOf
<1> QED  BY <1>1, <1>2, <1>3 DEF tip, height, Last, ChainOf

\* _apply, one block at a time along the path from the tip t to d, turns the
\* chain of t into the chain of d: list and indexes stay in step.
LEMMA ApplyPath ==
    ASSUME NEW t \in Block, NEW d \in Block, IsPrefix(t, d)
    PROVE  apply(ChainOf(t), Path(t, d)) = ChainOf(d)
<1> DEFINE p == Path(t, d)
           wt == walk_to_genesis(t)
           wd == walk_to_genesis(d)
<1>1. /\ Len(t) \in 0 .. Len(d) /\ t = SubSeq(d, 1, Len(t))
      /\ Len(t) \in Nat /\ Len(d) \in Nat /\ SubSeq(d, 1, Len(d)) = d
  BY PrefixIsAncestor, WholeBlock
<1>2. \A k \in 0 .. Len(t) : SubSeq(t, 1, k) = SubSeq(d, 1, k)
  BY <1>1, PrefixPrefix
<1>3. /\ p = [i \in 1 .. Len(d) - Len(t) |-> SubSeq(d, 1, Len(t) + i)]
      /\ p \in Seq(Block) /\ Len(p) = Len(d) - Len(t)
  <2>1. \A i \in 1 .. Len(d) - Len(t) : SubSeq(d, 1, Len(t) + i) \in Block
    BY <1>1, PrefixBlock
  <2>2. Len(d) - Len(t) \in Nat
    BY <1>1
  <2>3. p = [i \in 1 .. Len(d) - Len(t) |-> SubSeq(d, 1, Len(t) + i)]
    BY DEF Path
  <2>4. p \in Seq(Block)
    BY <2>1, <2>2, <2>3, IsASeq
  <2>5. Len(p) = Len(d) - Len(t)
    BY <2>2, <2>3, SMT
  <2> QED  BY <2>3, <2>4, <2>5
<1>4. CASE p = << >>
  <2>1. Len(t) = Len(d)
    <3>1. Len(p) = Len(d) - Len(t)
      BY <1>3
    <3> HIDE DEF p
    <3>2. Len(p) = 0
      BY <1>4
    <3>3. Len(t) \in Nat /\ Len(d) \in Nat
      BY <1>1
    <3> QED  BY <3>1, <3>2, <3>3
  <2>2. t = d
    BY <1>1, <2>1
  <2> QED  BY <1>4, <2>2 DEF apply
<1>5. CASE p # << >>
  <2>1. Len(t) < Len(d)
    BY <1>1, <1>3, <1>5, SMT
  <2>2. /\ wt \in Seq(Block) /\ Len(wt) = Len(t) + 1
        /\ \A i \in 1 .. Len(t) + 1 : wt[i] = SubSeq(t, 1, i - 1)
        /\ wd \in Seq(Block) /\ Len(wd) = Len(d) + 1
        /\ \A i \in 1 .. Len(d) + 1 : wd[i] = SubSeq(d, 1, i - 1)
    BY WalkFacts
  <2>3. wt \o p = wd
    <3> HIDE DEF wt, wd, p
    <3>0. /\ wt \o p \in Seq(Block)
          /\ Len(wt \o p) = Len(wt) + Len(p)
          /\ \A i \in 1 .. Len(wt) + Len(p) :
                 (wt \o p)[i] = IF i <= Len(wt) THEN wt[i] ELSE p[i - Len(wt)]
      BY <1>3, <2>2, ConcatProperties
    <3>1. wt \o p \in Seq(Block) /\ Len(wt \o p) = Len(wd)
      BY <1>1, <1>3, <2>2, <3>0
    <3>2. ASSUME NEW i \in 1 .. Len(wd)
          PROVE  (wt \o p)[i] = wd[i]
      <4>1. CASE i <= Len(t) + 1
        <5>1. (wt \o p)[i] = wt[i] /\ i \in 1 .. Len(t) + 1 /\ i - 1 \in 0 .. Len(t)
          BY <1>1, <1>3, <2>2, <3>0, <4>1
        <5> QED  BY <1>1, <1>2, <2>2, <5>1
      <4>2. CASE ~ i <= Len(t) + 1
        <5>0. /\ i \in Int /\ i \in 1 .. Len(d) + 1
              /\ i - (Len(t) + 1) \in 1 .. Len(d) - Len(t)
              /\ Len(t) + (i - (Len(t) + 1)) = i - 1
          BY <1>1, <2>2, <4>2
        <5>1. (wt \o p)[i] = p[i - (Len(t) + 1)]
          <6>1. i \in 1 .. Len(wt) + Len(p) /\ ~ i <= Len(wt)
            BY <1>1, <1>3, <2>2, <4>2, <5>0
          <6> QED  BY <2>2, <3>0, <6>1
        <5>2. p[i - (Len(t) + 1)] = SubSeq(d, 1, i - 1)
          BY <1>3, <5>0
        <5> QED  BY <2>2, <5>0, <5>1, <5>2
      <4> QED  BY <4>1, <4>2
    <3> QED  BY <2>2, <3>1, <3>2, SeqEqual
  <2>4. Prefixes(t) \cup {p[i] : i \in DOMAIN p} = Prefixes(d)
    <3>1. DOMAIN p = 1 .. Len(d) - Len(t)
      BY <1>3
    <3>2. {p[i] : i \in DOMAIN p} = {SubSeq(d, 1, k) : k \in Len(t) + 1 .. Len(d)}
      <4>1. ASSUME NEW i \in 1 .. Len(d) - Len(t)
            PROVE  p[i] \in {SubSeq(d, 1, k) : k \in Len(t) + 1 .. Len(d)}
        BY <1>1, <1>3
      <4>2. ASSUME NEW k \in Len(t) + 1 .. Len(d)
            PROVE  SubSeq(d, 1, k) \in {p[i] : i \in 1 .. Len(d) - Len(t)}
        <5>1. k - Len(t) \in 1 .. Len(d) - Len(t) /\ Len(t) + (k - Len(t)) = k
          BY <1>1
        <5> QED  BY <1>3, <5>1
      <4> HIDE DEF p
      <4> QED  BY <3>1, <4>1, <4>2
    <3>3. Prefixes(t) = {SubSeq(d, 1, k) : k \in 0 .. Len(t)}
      BY <1>2 DEF Prefixes
    <3>4. 0 .. Len(d) = (0 .. Len(t)) \cup (Len(t) + 1 .. Len(d))
      BY <1>1
    <3> QED  BY <3>2, <3>3, <3>4 DEF Prefixes
  <2>5. height(ChainOf(t)) = Len(t)
    BY ChainOfFacts
  <2> DEFINE bh == [h \in 0 .. Len(t) |-> SubSeq(t, 1, h)]
             D  == 0 .. Len(t) \cup {Len(t) + i : i \in DOMAIN p}
             nh == [h \in D |-> IF h > Len(t) THEN p[h - Len(t)] ELSE bh[h]]
  <2>6. nh = [h \in 0 .. Len(d) |-> SubSeq(d, 1, h)]
    <3>1. DOMAIN p = 1 .. Len(d) - Len(t)
      BY <1>3
    <3>2. D = 0 .. Len(d)
      <4>1. ASSUME NEW h \in Len(t) + 1 .. Len(d)
            PROVE  \E i \in 1 .. Len(d) - Len(t) : h = Len(t) + i
        <5>1. h - Len(t) \in 1 .. Len(d) - Len(t) /\ h = Len(t) + (h - Len(t))
          BY <1>1
        <5> QED  BY <5>1
      <4>2. D = 0 .. Len(t) \cup {Len(t) + i : i \in 1 .. Len(d) - Len(t)}
        BY <3>1
      <4>3. {Len(t) + i : i \in 1 .. Len(d) - Len(t)} = Len(t) + 1 .. Len(d)
        <5>1. ASSUME NEW i \in 1 .. Len(d) - Len(t)
              PROVE  Len(t) + i \in Len(t) + 1 .. Len(d)
          BY <1>1
        <5> QED  BY <4>1, <5>1
      <4>4. 0 .. Len(d) = (0 .. Len(t)) \cup (Len(t) + 1 .. Len(d))
        BY <1>1
      <4> QED  BY <4>2, <4>3, <4>4
    <3>3. ASSUME NEW h \in 0 .. Len(d)
          PROVE  (IF h > Len(t) THEN p[h - Len(t)] ELSE bh[h]) = SubSeq(d, 1, h)
      <4>1. CASE h > Len(t)
        <5>1. h - Len(t) \in 1 .. Len(d) - Len(t) /\ Len(t) + (h - Len(t)) = h
          BY <1>1, <4>1
        <5>2. p[h - Len(t)] = SubSeq(d, 1, h)
          BY <1>3, <5>1
        <5> QED  BY <4>1, <5>2
      <4>2. CASE ~ h > Len(t)
        <5>1. h \in 0 .. Len(t)
          BY <1>1, <4>2
        <5> QED  BY <1>2, <4>2, <5>1
      <4> QED  BY <4>1, <4>2
    <3> HIDE DEF D, p, bh
    <3> QED  BY <3>2, <3>3
  <2>7. p[Len(p)] = d
    <3>1. Len(p) \in 1 .. Len(d) - Len(t) /\ Len(t) + Len(p) = Len(d)
      BY <1>1, <1>3, <2>1
    <3> QED  BY <1>1, <1>3, <3>1
  <2>8. apply(ChainOf(t), p) =
            [blocks    |-> wt \o p,
             by_hash   |-> Prefixes(t) \cup {p[i] : i \in DOMAIN p},
             by_height |-> nh,
             tip_hash  |-> p[Len(p)]]
    <3> DEFINE c == ChainOf(t)
    <3>1. /\ c.blocks = wt /\ c.by_hash = Prefixes(t)
          /\ c.by_height = bh /\ DOMAIN c.by_height = 0 .. Len(t)
      BY DEF ChainOf
    <3>2. apply(c, p) =
            [blocks    |-> c.blocks \o p,
             by_hash   |-> c.by_hash \cup {p[i] : i \in DOMAIN p},
             by_height |-> [h \in DOMAIN c.by_height \cup
                                  {height(c) + i : i \in DOMAIN p} |->
                              IF h > height(c) THEN p[h - height(c)]
                                               ELSE c.by_height[h]],
             tip_hash  |-> p[Len(p)]]
      <4> HIDE DEF p, c
      <4> QED  BY <1>5 DEF apply
    <3> HIDE DEF p, wt, bh, c
    <3>3. [h \in DOMAIN c.by_height \cup {height(c) + i : i \in DOMAIN p} |->
              IF h > height(c) THEN p[h - height(c)] ELSE c.by_height[h]] = nh
      <4>1. height(c) = Len(t)
        BY <2>5 DEF c
      <4> QED  BY <3>1, <4>1
    <3>4. apply(c, p) = [blocks    |-> wt \o p,
                         by_hash   |-> Prefixes(t) \cup {p[i] : i \in DOMAIN p},
                         by_height |-> nh,
                         tip_hash  |-> p[Len(p)]]
      <4> HIDE DEF nh
      <4> QED  BY <3>1, <3>2, <3>3
    <3> QED  BY <3>4 DEF c
  <2> QED  BY <2>3, <2>4, <2>6, <2>7, <2>8 DEF ChainOf
<1> QED  BY <1>4, <1>5

\* append: a block mined on the tip extends the chain by itself.
LEMMA ApplyMined ==
    ASSUME NEW t \in Block, NEW txs \in SUBSET Tx, NEW stamp \in Stamp
    PROVE  LET b == MinedBlock(t, txs, stamp)
           IN  apply(ChainOf(t), << b >>) = ChainOf(b)
<1> DEFINE b == MinedBlock(t, txs, stamp)
<1>1. /\ b \in Block /\ Len(b) = Len(t) + 1 /\ IsPrefix(t, b)
      /\ Len(t) \in Nat /\ SubSeq(b, 1, Len(b)) = b
  BY MinedBlockFacts, WholeBlock
<1> HIDE DEF b
<1>2. Path(t, b) = << b >>
  <2>1. 1 .. Len(b) - Len(t) = {1}
    BY <1>1
  <2>2. Path(t, b) = [i \in {1} |-> b]
    BY <1>1, <2>1 DEF Path
  <2> QED  BY <2>2
<1>3. apply(ChainOf(t), Path(t, b)) = ChainOf(b)
  BY <1>1, ApplyPath
<1> QED  BY <1>2, <1>3 DEF b

\* adopt_fork, offered the list that _walk_to_genesis builds for b, leaves the
\* chain alone or leaves the chain of b; the latter only when b is strictly
\* higher than the tip and valid all the way down.
LEMMA AdoptWalk ==
    ASSUME NEW t \in Block, NEW b \in Block
    PROVE  LET c == adopt_fork(ChainOf(t), walk_to_genesis(b))
           IN  \/ c = ChainOf(t)
               \/ c = ChainOf(b) /\ Len(b) > Len(t) /\ ValidFromGenesis(b)
<1> DEFINE w == walk_to_genesis(b)
           c == ChainOf(t)
<1>1. /\ w = [i \in 1 .. Len(b) + 1 |-> SubSeq(b, 1, i - 1)]
      /\ Len(w) = Len(b) + 1 /\ DOMAIN w = 1 .. Len(b) + 1
      /\ \A i \in 1 .. Len(b) + 1 : w[i] = SubSeq(b, 1, i - 1)
  BY WalkFacts
<1>2. /\ Len(b) \in Nat /\ Len(t) \in Nat /\ SubSeq(b, 1, Len(b)) = b
  BY WholeBlock
<1>3. Len(c.blocks) = Len(t) + 1
  BY WalkFacts DEF ChainOf
<1> HIDE DEF w, c
<1>4. CASE ~ CanAdopt(c, w)
  BY <1>4 DEF adopt_fork, w, c
<1>5. CASE CanAdopt(c, w)
  <2>1. Len(b) > Len(t)
    BY <1>1, <1>2, <1>3, <1>5 DEF CanAdopt
  <2>2. ASSUME NEW h \in 1 .. Len(b)
        PROVE  Sound(SubSeq(b, 1, h))
    <3>1. h + 1 \in 2 .. Len(w) /\ h + 1 \in 1 .. Len(b) + 1 /\ (h + 1) - 1 = h
      BY <1>1, <1>2
    <3>2. w[h + 1] = SubSeq(b, 1, h)
      BY <1>1, <3>1
    <3> QED  BY <1>5, <3>1, <3>2 DEF CanAdopt, validate_block
  <2>3. {w[i] : i \in DOMAIN w} = Prefixes(b)
    <3>1. ASSUME NEW i \in 1 .. Len(b) + 1
          PROVE  i - 1 \in 0 .. Len(b)
      BY <1>2
    <3>2. ASSUME NEW k \in 0 .. Len(b)
          PROVE  \E i \in 1 .. Len(b) + 1 : w[i] = SubSeq(b, 1, k)
      <4>1. k + 1 \in 1 .. Len(b) + 1 /\ (k + 1) - 1 = k
        BY <1>2
      <4> QED  BY <1>1, <4>1
    <3> QED  BY <1>1, <3>1, <3>2 DEF Prefixes
  <2>4. [h \in 0 .. Len(w) - 1 |-> w[h + 1]] = [h \in 0 .. Len(b) |-> SubSeq(b, 1, h)]
    <3>1. Len(w) - 1 = Len(b)
      BY <1>1, <1>2
    <3>2. ASSUME NEW h \in 0 .. Len(b)
          PROVE  w[h + 1] = SubSeq(b, 1, h)
      <4>1. h + 1 \in 1 .. Len(b) + 1 /\ (h + 1) - 1 = h
        BY <1>2
      <4> QED  BY <1>1, <4>1
    <3> QED  BY <3>1, <3>2
  <2>5. w[Len(w)] = b
    <3>1. Len(w) \in 1 .. Len(b) + 1 /\ Len(w) - 1 = Len(b)
      BY <1>1, <1>2
    <3> QED  BY <1>1, <1>2, <3>1
  <2>6. adopt_fork(c, w) = ChainOf(b)
    <3>1. adopt_fork(c, w) =
            [blocks |-> w, by_hash |-> {w[i] : i \in DOMAIN w},
             by_height |-> [h \in 0 .. Len(w) - 1 |-> w[h + 1]],
             tip_hash |-> w[Len(w)]]
      BY <1>5 DEF adopt_fork
    <3> QED  BY <2>3, <2>4, <2>5, <3>1 DEF ChainOf, w
  <2> QED  BY <2>1, <2>2, <2>6 DEF ValidFromGenesis, w, c
<1> QED  BY <1>4, <1>5

\* The drain only climbs, through blocks of the pool that are sound.
LEMMA DrainFacts ==
    ASSUME NEW t \in Block, NEW pool \in SUBSET Block, NEW d \in Drains(t, pool)
    PROVE  /\ d \in Block
           /\ IsPrefix(t, d)
           /\ \A h \in Len(t) + 1 .. Len(d) :
                  SubSeq(d, 1, h) \in pool /\ Sound(SubSeq(d, 1, h))
  BY DEF Drains

\* Whatever the order of the pool, the reorg phase ends on the chain it began
\* with or on the chain of a valid, strictly higher block all of whose
\* ancestors the node holds.
LEMMA ReorgFacts ==
    ASSUME NEW t \in Block, NEW pool \in SUBSET Block,
           NEW final \in Reorgs(ChainOf(t), pool)
    PROVE  \/ final = ChainOf(t)
           \/ \E b \in Block : /\ final = ChainOf(b)
                               /\ Len(b) > Len(t)
                               /\ ValidFromGenesis(b)
                               /\ b \in pool
                               /\ Prefixes(b) \subseteq pool \cup Prefixes(t)
<1> DEFINE candidates == Complete(pool, ChainOf(t).by_hash)
           longest == {b \in candidates : \A e \in candidates : Len(e) <= Len(b)}
<1>1. CASE longest = {}
  BY <1>1 DEF Reorgs
<1>2. CASE longest # {}
  <2>1. PICK b \in longest : final = adopt_fork(ChainOf(t), walk_to_genesis(b))
    BY <1>2 DEF Reorgs
  <2>2. b \in pool /\ b \in Block /\ Prefixes(b) \subseteq pool \cup Prefixes(t)
    BY ChainOfFacts DEF Complete
  <2>3. \/ final = ChainOf(t)
        \/ final = ChainOf(b) /\ Len(b) > Len(t) /\ ValidFromGenesis(b)
    BY <2>1, <2>2, AdoptWalk
  <2> QED  BY <2>2, <2>3
<1> QED  BY <1>1, <1>2

\* Among blocks of bounded height there is a highest one.
LEMMA LongestExists ==
    ASSUME NEW S \in SUBSET Block, S # {}, NEW k \in Nat, \A b \in S : Len(b) <= k
    PROVE  \E b \in S : \A e \in S : Len(e) <= Len(b)
<1> DEFINE T == {i \in Nat : \E b \in S : k - Len(b) = i}
<1>1. \A b \in S : Len(b) \in Nat /\ k - Len(b) \in T
  <2>1. ASSUME NEW b \in S PROVE Len(b) \in Nat /\ k - Len(b) \in Nat
    <3>1. Len(b) \in Nat /\ Len(b) <= k
      BY WholeBlock
    <3> QED  BY <3>1
  <2> QED  BY <2>1
<1>2. T # {} /\ T \in SUBSET Nat
  BY <1>1
<1> HIDE DEF T
<1>3. PICK i \in T : \A j \in T : i <= j
  BY <1>2, LeastExists
<1>4. PICK b \in S : k - Len(b) = i
  BY <1>3 DEF T
<1>5. ASSUME NEW e \in S PROVE Len(e) <= Len(b)
  <2>1. i <= k - Len(e) /\ Len(e) \in Nat /\ Len(b) \in Nat
    BY <1>1, <1>3
  <2> QED  BY <1>4, <2>1
<1> QED  BY <1>4, <1>5

\* adopt_fork does take a strictly longer list that is valid from genesis on.
LEMMA AdoptsLonger ==
    ASSUME NEW t \in Block, NEW b \in Block, Len(b) > Len(t), ValidFromGenesis(b)
    PROVE  adopt_fork(ChainOf(t), walk_to_genesis(b)) = ChainOf(b)
<1> DEFINE w == walk_to_genesis(b)
           c == ChainOf(t)
<1>1. /\ Len(w) = Len(b) + 1 /\ DOMAIN w = 1 .. Len(b) + 1
      /\ \A i \in 1 .. Len(b) + 1 : w[i] = SubSeq(b, 1, i - 1)
  BY WalkFacts
<1>2. /\ Len(b) \in Nat /\ Len(t) \in Nat /\ SubSeq(b, 1, Len(b)) = b
      /\ SubSeq(b, 1, 0) = GENESIS /\ Len(GENESIS) = 0
  BY WholeBlock
<1>3. Len(c.blocks) = Len(t) + 1
  BY WalkFacts DEF ChainOf
<1> HIDE DEF w, c
<1>4. Len(w) > Len(c.blocks)
  BY <1>1, <1>2, <1>3
<1>5. w[1] = GENESIS
  <2>1. 1 \in 1 .. Len(b) + 1 /\ 1 - 1 = 0
    BY <1>2
  <2> QED  BY <1>1, <1>2, <2>1
<1>6. ASSUME NEW i \in 2 .. Len(w)
      PROVE  validate_block(w[i], w[i - 1])
  <2> DEFINE h == i - 1
  <2>1. /\ i \in 1 .. Len(b) + 1 /\ i - 1 \in 1 .. Len(b) + 1
        /\ h \in 1 .. Len(b) /\ h - 1 \in 0 .. h /\ h \in 0 .. Len(b)
        /\ h = i - 1 /\ h \in Nat
    BY <1>1, <1>2
  <2> HIDE DEF h
  <2>2. w[i] = SubSeq(b, 1, h) /\ w[i - 1] = SubSeq(b, 1, h - 1)
    BY <1>1, <2>1
  <2>3. Len(SubSeq(b, 1, h)) = h
    BY <2>1, PrefixBlock
  <2>4. SubSeq(b, 1, h) # GENESIS
    BY <1>2, <2>1, <2>3
  <2>5. prev_hash(SubSeq(b, 1, h)) = SubSeq(b, 1, h - 1)
    <3>1. SubSeq(SubSeq(b, 1, h), 1, h - 1) = SubSeq(b, 1, h - 1)
      BY <2>1, PrefixPrefix
    <3> QED  BY <2>3, <3>1 DEF prev_hash, Front
  <2>6. Sound(SubSeq(b, 1, h))
    BY <2>1 DEF ValidFromGenesis
  <2> QED  BY <2>2, <2>4, <2>5, <2>6 DEF validate_block
<1>7. CanAdopt(c, w)
  BY <1>4, <1>5, <1>6 DEF CanAdopt
<1>8. adopt_fork(c, w).tip_hash = b
  <2>1. Len(w) \in 1 .. Len(b) + 1 /\ Len(w) - 1 = Len(b)
    BY <1>1, <1>2
  <2>2. w[Len(w)] = b
    BY <1>1, <1>2, <2>1
  <2> QED  BY <1>7, <2>2 DEF adopt_fork
<1>9. adopt_fork(c, w) = c \/ adopt_fork(c, w) = ChainOf(b)
  BY AdoptWalk DEF w, c
<1>10. c.tip_hash = t /\ t # b
  BY <1>2, ChainOfFacts DEF c
<1> QED  BY <1>8, <1>9, <1>10 DEF w, c

\* The reorg phase leaves a chain that no block b the node can assemble on it
\* exceeds, if all that it can assemble at or above the height of b is valid:
\* only the longest candidate is offered, so an invalid one may hide b.
LEMMA ReorgLongest ==
    ASSUME NEW pool \in SUBSET Block, NEW k \in Nat, \A e \in pool : Len(e) <= k,
           NEW d \in Block, NEW f \in Block, ChainOf(f) \in Reorgs(ChainOf(d), pool),
           NEW b \in pool, Prefixes(b) \subseteq pool \cup Prefixes(f),
           \A e \in pool :
               Prefixes(e) \subseteq pool \cup Prefixes(f) /\ Len(e) >= Len(b)
               => ValidFromGenesis(e)
    PROVE  Len(b) <= Len(f)
<1> SUFFICES ASSUME ~ (Len(b) <= Len(f)) PROVE FALSE
  OBVIOUS
<1> DEFINE candidates == Complete(pool, Prefixes(d))
           longest == {l \in candidates : \A e \in candidates : Len(e) <= Len(l)}
<1>1. /\ Len(b) \in Nat /\ Len(f) \in Nat /\ Len(d) \in Nat
      /\ ChainOf(d).by_hash = Prefixes(d)
      /\ ChainOf(f).tip_hash = f /\ ChainOf(d).tip_hash = d
  BY ChainOfFacts, WholeBlock
<1>2. /\ f = d \/ Len(f) > Len(d)
      /\ Prefixes(f) \subseteq pool \cup Prefixes(d)
  <2>1. \/ ChainOf(f) = ChainOf(d)
        \/ \E e \in Block : /\ ChainOf(f) = ChainOf(e)
                            /\ Len(e) > Len(d)
                            /\ Prefixes(e) \subseteq pool \cup Prefixes(d)
    BY ReorgFacts
  <2>2. CASE ChainOf(f) = ChainOf(d)
    BY <1>1, <2>2
  <2>3. CASE \E e \in Block : /\ ChainOf(f) = ChainOf(e)
                              /\ Len(e) > Len(d)
                              /\ Prefixes(e) \subseteq pool \cup Prefixes(d)
    BY <1>1, <2>3, ChainOfFacts
  <2> QED  BY <2>1, <2>2, <2>3
<1>3. b \in candidates
  <2>1. b \notin Prefixes(d)
    <3>1. ASSUME b \in Prefixes(d) PROVE Len(b) <= Len(d)
      BY <3>1, PrefixesFacts
    <3> QED  BY <1>1, <1>2, <3>1
  <2> QED  BY <1>2, <2>1 DEF Complete
<1>4. candidates \subseteq pool
  BY DEF Complete
<1>5. longest # {}
  BY <1>3, <1>4, LongestExists
<1>6. PICK l \in longest : ChainOf(f) = adopt_fork(ChainOf(d), walk_to_genesis(l))
  BY <1>1, <1>5 DEF Reorgs
<1>7. /\ l \in Block /\ l \in pool /\ Len(b) <= Len(l) /\ Len(l) \in Nat
      /\ Prefixes(l) \subseteq pool \cup Prefixes(d)
  BY <1>3, <1>4, WholeBlock DEF Complete
<1>8. f = d
  <2>1. \/ ChainOf(f) = ChainOf(d)
        \/ ChainOf(f) = ChainOf(l)
    BY <1>6, <1>7, AdoptWalk
  <2>2. ChainOf(f) = ChainOf(l) => f = l
    BY <1>1, <1>7, ChainOfFacts
  <2> QED  BY <1>1, <1>7, <2>1, <2>2
<1>9. ValidFromGenesis(l)
  BY <1>1, <1>7, <1>8
<1>10. ChainOf(f) = ChainOf(l)
  <2>1. Len(l) > Len(d)
    BY <1>1, <1>7, <1>8
  <2> QED  BY <1>6, <1>7, <1>9, <2>1, AdoptsLonger
<1>11. f = l
  BY <1>1, <1>7, <1>10, ChainOfFacts
<1> QED  BY <1>1, <1>7, <1>11

-----------------------------------------------------------------------------
(* Mempools *)

\* A candidate takes transactions that are pending.
LEMMA TakeFacts ==
    ASSUME NEW pending, NEW txs \in take(pending)
    PROVE  txs \subseteq pending
  BY DEF take, kSubset

=============================================================================
