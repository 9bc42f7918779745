---------------------------- MODULE LongestChain ----------------------------
(***************************************************************************)
(* What a group of lab 3 nodes promises about the tips of their chains,    *)
(* without messages, pools or indexes: a node mines on its own tip, or     *)
(* switches to a chain somebody published, if it is valid all the way from *)
(* genesis and strictly longer than its own.                               *)
(***************************************************************************)
EXTENDS Ledger

CONSTANT Node

VARIABLES
    tips,       \* the block each node's chain ends in
    published   \* the blocks that exist

vars == << tips, published >>

Init ==
    /\ tips = [n \in Node |-> GENESIS]
    /\ published \in SUBSET Block
    /\ GENESIS \in published

Mine(n) ==
    \E txs \in SUBSET Tx, stamp \in GoodStamp :
        LET b == MinedBlock(tips[n], txs, stamp)
        IN  /\ tips' = [tips EXCEPT ![n] = b]
            /\ published' = published \cup {b}

Switch(n) ==
    /\ \E b \in published :
           /\ Len(b) > Len(tips[n])
           /\ Prefixes(b) \subseteq published
           /\ ValidFromGenesis(b)
           /\ tips' = [tips EXCEPT ![n] = b]
    /\ UNCHANGED published

Next == \E n \in Node : Mine(n) \/ Switch(n)

Spec == Init /\ [][Next]_vars

=============================================================================
