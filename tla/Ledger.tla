------------------------------- MODULE Ledger -------------------------------
(***************************************************************************)
(* The in-memory ledger of a lab 3 node, labs/three/chain.py: blocks, the  *)
(* class Chain and the operations of class Mempool, as operators on        *)
(* values.  Module ChainNode gives every node one ledger and drives it.    *)
(*                                                                         *)
(* A block is named by its SHA-256 header hash, and a header holds the     *)
(* hash of its parent.  No two headers collide, so a block stands for the  *)
(* whole path that leads to it from the genesis block: it is the sequence  *)
(* of the headers on that path, its hash is itself, its parent is the      *)
(* sequence without its last header, and its height is its length.         *)
(***************************************************************************)
EXTENDS Integers, SequencesExt

CONSTANTS
    Tx,         \* transactions, each standing for its hash
    SignedTx,   \* those whose ed25519 signature verifies
    Stamp,      \* what the model keeps of timestamp, difficulty, nonce, txs_hash
    GoodStamp,  \* those whose nonce meets the difficulty, with the right txs_hash
    MaxTxs      \* how many transactions a candidate block takes

ASSUME LedgerAssumption ==
    /\ SignedTx \subseteq Tx
    /\ GoodStamp \subseteq Stamp
    /\ MaxTxs \in Nat

-----------------------------------------------------------------------------
(* Blocks *)

Header == [txs : SUBSET Tx, stamp : Stamp]
Block  == Seq(Header)

GENESIS == << >>

prev_hash(b)    == Front(b)
tx_hashes(b)    == Last(b).txs
block_height(b) == Len(b)

\* The checks of a block that look at the block alone: the body matches
\* txs_hash and the hash has the leading zero bits the header asks for.
Sound(b) == Last(b).stamp \in GoodStamp

validate_block(b, parent) ==
    /\ b # GENESIS
    /\ prev_hash(b) = parent
    /\ Sound(b)

\* Every block on the path to b passes the checks validate_block makes.
ValidFromGenesis(b) == \A h \in 1 .. Len(b) : Sound(SubSeq(b, 1, h))

\* The blocks strictly above t on the path to b, oldest first.
Path(t, b) == [i \in 1 .. Len(b) - Len(t) |-> SubSeq(b, 1, Len(t) + i)]

\* Mutant of PathTxs: off by one, the lowest block is skipped.
PathTxsButFirst(t, b) == UNION {b[h].txs : h \in Len(t) + 2 .. Len(b)}

\* The transactions in the blocks strictly above t on the path to b.
PathTxs(t, b) == UNION {b[h].txs : h \in Len(t) + 1 .. Len(b)}

-----------------------------------------------------------------------------
(* class Chain: the list of blocks and the indexes derived from it.        *)
(* by_hash maps a hash to its block, and so is a set of blocks.            *)

NewChain == [blocks    |-> << GENESIS >>,
             by_hash   |-> {GENESIS},
             by_height |-> [h \in {0} |-> GENESIS],
             tip_hash  |-> GENESIS]

tip(c)    == Last(c.blocks)
height(c) == Len(c.blocks) - 1

\* _apply, once for each block of the sequence new.
apply(c, new) ==
    IF new = << >> THEN c ELSE
    [blocks    |-> c.blocks \o new,
     by_hash   |-> c.by_hash \cup {new[i] : i \in DOMAIN new},
     by_height |-> [h \in DOMAIN c.by_height \cup
                          {height(c) + i : i \in DOMAIN new} |->
                        IF h > height(c) THEN new[h - height(c)]
                                         ELSE c.by_height[h]],
     tip_hash  |-> new[Len(new)]]

\* Mutant of CanAppend: append looks at the block and not at its parent.
CanAppendAnywhere(c, b) == Sound(b)

CanAppend(c, b) == validate_block(b, tip(c))

\* Mutant of try_extend: a block whose parent is unknown is thrown away.
try_extend_no_orphans(c, b) ==
    LET judged(parent, status) ==
            IF validate_block(b, parent) THEN status ELSE "INVALID"
    IN  IF b \in c.by_hash                 THEN "KNOWN_BLOCK"
        ELSE IF prev_hash(b) = c.tip_hash  THEN judged(tip(c), "EXTENDS_TIP")
        ELSE IF prev_hash(b) \in c.by_hash THEN judged(prev_hash(b), "FORK_BRANCH")
        ELSE "INVALID"

\* The answer of try_extend, which applies the block when it says EXTENDS_TIP.
try_extend(c, b) ==
    LET judged(parent, status) ==
            IF validate_block(b, parent) THEN status ELSE "INVALID"
    IN  IF b \in c.by_hash                 THEN "KNOWN_BLOCK"
        ELSE IF prev_hash(b) = c.tip_hash  THEN judged(tip(c), "EXTENDS_TIP")
        ELSE IF prev_hash(b) \in c.by_hash THEN judged(prev_hash(b), "FORK_BRANCH")
        ELSE "NEEDS_PARENT"

\* adopt_fork swaps in a strictly longer list of blocks that validates from
\* genesis on, with both indexes rebuilt from scratch.
\* Mutant of CanAdopt: a list of the same length is taken too.
CanAdoptEqual(c, list) ==
    /\ Len(list) >= Len(c.blocks)
    /\ list[1] = GENESIS
    /\ \A i \in 2 .. Len(list) : validate_block(list[i], list[i - 1])

CanAdopt(c, list) ==
    /\ Len(list) > Len(c.blocks)
    /\ list[1] = GENESIS
    /\ \A i \in 2 .. Len(list) : validate_block(list[i], list[i - 1])

\* Mutant of adopt_fork: the abandoned branch stays in by_hash.
adopt_fork_merged(c, list) ==
    IF CanAdopt(c, list)
    THEN [blocks    |-> list,
          by_hash   |-> c.by_hash \cup {list[i] : i \in DOMAIN list},
          by_height |-> [h \in 0 .. Len(list) - 1 |-> list[h + 1]],
          tip_hash  |-> list[Len(list)]]
    ELSE c

adopt_fork(c, list) ==
    IF CanAdopt(c, list)
    THEN [blocks    |-> list,
          by_hash   |-> {list[i] : i \in DOMAIN list},
          by_height |-> [h \in 0 .. Len(list) - 1 |-> list[h + 1]],
          tip_hash  |-> list[Len(list)]]
    ELSE c

-----------------------------------------------------------------------------
(* class Mempool: the dictionary pending as the set of its keys.  The      *)
(* order of the keys is abstracted: a candidate takes any MaxTxs of them.  *)

CanAdd(pending, tx) == tx \in SignedTx /\ tx \notin pending

\* Mutant of remove: the keys looked up are never those of pending.
remove_nothing(pending, txs) == pending

remove(pending, txs) == pending \ txs

\* Mutant of take: the (hash, tx) items where hashes are wanted.
take_items(pending) == {{<< tx, tx >> : tx \in pending}}

take(pending) ==
    IF Cardinality(pending) <= MaxTxs THEN {pending} ELSE kSubset(MaxTxs, pending)

\* The block a search over prev_hash and txs finds: the stamp holds the
\* timestamp of the snapshot and the nonce that won.
MinedBlock(prev, txs, stamp) == Append(prev, [txs |-> txs, stamp |-> stamp])

-----------------------------------------------------------------------------
(* What _try_drain_and_reorg computes from a chain and a side pool.        *)

\* The tips the drain phase can end on when it starts from tip t: it follows
\* pooled sound children and stops where there is none.  Which child it takes
\* depends on the order of the pool's dictionary, left open here.
Drains(t, pool) ==
    {d \in pool \cup {t} :
        /\ IsPrefix(t, d)
        /\ \A h \in Len(t) + 1 .. Len(d) :
               SubSeq(d, 1, h) \in pool /\ Sound(SubSeq(d, 1, h))
        /\ ~ \E e \in pool \ {GENESIS} : prev_hash(e) = d /\ Sound(e)}

\* _walk_to_genesis: the pooled blocks off the chain all of whose ancestors
\* are in the pool or on the chain, and the list it returns for one of them.
CompleteInPool(pool, by_hash) ==    \* mutant: the chain is not looked at
    {b \in pool \ by_hash : Prefixes(b) \subseteq pool}

Complete(pool, by_hash) ==
    {b \in pool \ by_hash : Prefixes(b) \subseteq pool \cup by_hash}

walk_to_genesis(b) == << GENESIS >> \o Path(GENESIS, b)

\* The chains the reorg phase can leave: the first of the longest candidates
\* is offered to adopt_fork; which one is first is again left open.
Reorgs(c, pool) ==
    LET candidates == Complete(pool, c.by_hash)
        longest    == {b \in candidates : \A e \in candidates : Len(e) <= Len(b)}
    IN  IF longest = {} THEN {c}
        ELSE {adopt_fork(c, walk_to_genesis(b)) : b \in longest}

=============================================================================
