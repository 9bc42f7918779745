------------------------------ MODULE Reorganize ------------------------------
(***************************************************************************)
(* bonus/reorganize.py over the chain and mempool of labs/three/chain.py:  *)
(* a reorganisation with a depth limit that puts the transactions of the   *)
(* displaced blocks back into the mempool.  The caller mines, keeps every  *)
(* transaction it accepted in tx_archive, and offers candidate chains it   *)
(* got from others.                                                        *)
(***************************************************************************)
EXTENDS Ledger

CONSTANTS
    Candidates,   \* the lists of blocks that may be offered
    max_depth,    \* MAX_REORG_DEPTH
    MaxHeight     \* bound: nothing is mined above this height

VARIABLES
    chain,
    pending,      \* the keys of mempool.pending
    tx_archive    \* the keys of the archive

vars == << chain, pending, tx_archive >>

Init ==
    /\ chain = NewChain
    /\ pending = {}
    /\ tx_archive = {}

-----------------------------------------------------------------------------

\* Height 0 stands for no agreement too; adopt_fork refuses such a list.
find_common_ancestor_height(c, candidate) ==
    LET upper == IF Len(candidate) < Len(c.blocks) THEN Len(candidate) ELSE Len(c.blocks)
        agree == {h \in 0 .. upper - 1 :
                     \A k \in 1 .. h + 1 : candidate[k] = c.blocks[k]}
    IN  CHOOSE h \in {0} \cup agree : \A k \in agree : k <= h

reorg_depth(c, candidate) == height(c) - find_common_ancestor_height(c, candidate)

\* Mutant of Deep: off by one.
DeepByTwo(c, candidate) == reorg_depth(c, candidate) > max_depth + 1

Deep(c, candidate) == reorg_depth(c, candidate) > max_depth

\* Mutant of displaced_tx_hashes: off by one, the lowest block is skipped.
displaced_but_lowest(c, candidate) ==
    UNION {tx_hashes(c.blocks[i]) :
               i \in find_common_ancestor_height(c, candidate) + 3 .. Len(c.blocks)}

\* The transactions of the blocks the candidate does not share.
displaced_tx_hashes(c, candidate) ==
    UNION {tx_hashes(c.blocks[i]) :
               i \in find_common_ancestor_height(c, candidate) + 2 .. Len(c.blocks)}

new_tx_hashes(candidate) == UNION {tx_hashes(candidate[i]) : i \in 2 .. Len(candidate)}

\* Mutant of Restored: the transactions return before adopt_fork has had its
\* say.
RestoredFirst(c, candidate) ==
    {tx \in displaced_tx_hashes(c, candidate) : tx \in tx_archive /\ CanAdd(pending, tx)}

\* What the call adds to the mempool.
Restored(c, candidate) ==
    IF CanAdopt(c, candidate)
    THEN {tx \in displaced_tx_hashes(c, candidate) \ new_tx_hashes(candidate) :
              tx \in tx_archive /\ CanAdd(pending, tx)}
    ELSE {}

reorganize(candidate) ==
    /\ Len(candidate) > Len(chain.blocks)
    /\ ~ Deep(chain, candidate)
    /\ chain'   = adopt_fork(chain, candidate)
    /\ pending' = pending \cup Restored(chain, candidate)
    /\ UNCHANGED tx_archive

\* The caller: a transaction arrives, a block is mined.
Submit(tx) ==
    /\ CanAdd(pending, tx)
    /\ pending' = pending \cup {tx}
    /\ tx_archive' = tx_archive \cup {tx}
    /\ UNCHANGED chain

Mine ==
    \E stamp \in GoodStamp, txs \in take(pending) :
        LET b == MinedBlock(chain.tip_hash, txs, stamp)
        IN  /\ height(chain) < MaxHeight
            /\ CanAppend(chain, b)
            /\ chain'   = apply(chain, << b >>)
            /\ pending' = remove(pending, txs)
            /\ UNCHANGED tx_archive

Next ==
    \/ \E candidate \in Candidates : reorganize(candidate)
    \/ \E tx \in Tx : Submit(tx)
    \/ Mine

Spec == Init /\ [][Next]_vars

-----------------------------------------------------------------------------
(* Properties *)

OnChain(c) == PathTxs(GENESIS, c.tip_hash)

\* A transaction the node accepted is pending or on the chain, through any
\* sequence of mining, reorganisations and refusals: what a reorganisation
\* displaces comes back unless the new chain holds it.
AcceptedNeverLost == tx_archive \subseteq pending \cup OnChain(chain)

\* A transaction becomes pending by being submitted, or by leaving the chain
\* in the very step; a refused candidate brings nothing back, and nothing that
\* the new chain holds too comes back to be mined again.
ComesBackOnlyDisplaced ==
    [][\A tx \in pending' \ pending :
           Submit(tx) \/ tx \in OnChain(chain) \ OnChain(chain')]_vars

\* No step throws away more than max_depth blocks: what the old and the new
\* chain share reaches that far up.
DiscardBounded ==
    [][\A b \in chain.by_hash \ chain'.by_hash :
           Len(chain.tip_hash) - Len(b) < max_depth]_vars

=============================================================================
