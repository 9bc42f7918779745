----------------------------- MODULE MCChainNode -----------------------------
(***************************************************************************)
(* Small instances of ChainNode.  The cfg files choose the nodes, stamps,  *)
(* transactions and bounds; the network layouts and the datagrams of the   *)
(* outside world are defined here.                                         *)
(***************************************************************************)
EXTENDS ChainNode

CONSTANTS n1, n2, absent, t1, g1, bad

\* Who knows whom at the start.
EverybodyKnown == [n \in Node |-> Peer \ {n}]
OnlyMembers    == [n \in Node |-> Node \ {n}]
N2Unknown      == [n \in Node |-> IF n = n1 THEN {} ELSE Node \ {n}]

\* What the server and the member outside Node have sent.
Submit(tx, nodes) ==
    {[type |-> "SubmitTransaction", src |-> Server, dst |-> n, tx |-> tx] :
         n \in nodes}

\* A block that fails its proof of work on top of the block path.
Bad(path) == Append(path, [txs |-> {}, stamp |-> bad])

Gossip(src, b, nodes) ==
    {[type |-> "NewBlock", src |-> src, dst |-> n, height |-> Len(b),
      block |-> b] : n \in nodes}

Silence == {}

\* The server submits one transaction to both nodes; the absent member gossips
\* an invalid block whose parent either node may mine.
BusyServer ==
    Submit(t1, {n1, n2})
    \cup Gossip(absent, Bad(<< [txs |-> {}, stamp |-> g1] >>), {n2})

\* The server asks one node for its height.
Height == {[type |-> "GetChainHeight", src |-> Server, dst |-> n2]}

\* One transaction for one node.
OnlyN1 == Submit(t1, {n1})

\* It is submitted once, which is what NoDoubleInclusion is about.
ASSUME OnlyN1Once == Outside = OnlyN1 /\ Reliable => SubmittedOnce

=============================================================================
