-------------------------- MODULE RegistrationProofs --------------------------
(***************************************************************************)
(* Theorems of Registration: beside the registration overlay the chain     *)
(* node is still the chain node, and once the server knows of the chain    *)
(* the registrar's teammates hear of every block it mines.                 *)
(***************************************************************************)
EXTENDS Registration, ChainNodeHistory

-----------------------------------------------------------------------------
(* The two overlays *)

\* A step of the process is a step of the chain overlay or leaves it alone.
LEMMA BootStep == [BootNext]_bootVars => [Next]_vars
  BY DEF BootNext, bootVars

\* The registration overlay takes nothing away from the chain overlay: every
\* theorem about Spec holds of the process that runs both.
LEMMA BootIsSpec == BootSpec => Spec
<1>1. BootInit => Init
  BY DEF BootInit
<1> QED  BY <1>1, BootStep, PTL DEF BootSpec, Spec

-----------------------------------------------------------------------------
(* The inductive invariant *)

\* Whatever was sent, answered or accepted, the quorum was there first and
\* still is.
QuorumBehind == regnet # {} \/ registered => Quorum

\* Nothing removes a peer.
LEMMA PeersGrow ==
    ASSUME TypeOK, [Next]_vars, NEW n \in Node
    PROVE  peers[n] \subseteq peers'[n]
<1>1. CASE UNCHANGED peers
  BY <1>1
<1>2. CASE \E o \in Node, p \in Peer : Discover(o, p)
  BY <1>2 DEF Discover, TypeOK
<1>3. CASE \E o \in Miner : MineLands(o) \/ MineStale(o)
  BY <1>1, <1>3 DEF MineLands, MineStale
<1>4. ASSUME NEW o \in Node, NEW m \in network, Receive(o, m)
      PROVE  UNCHANGED peers
  BY <1>4 DEF Receive, on_submit_transaction, on_get_chain_height, on_get_block,
              IngestKnown, IngestInvalid, IngestOrphan, IngestLands, Refuse
<1> QED  BY <1>1, <1>2, <1>3, <1>4 DEF Next, Deliver, vars

\* QuorumBehind is inductive, given the types of the chain overlay.
LEMMA QuorumStep ==
    ASSUME RegistrarAssumption, TypeOK, QuorumBehind, [BootNext]_bootVars
    PROVE  QuorumBehind'
<1>1. peers[Registrar] \subseteq peers'[Registrar]
  BY BootStep, PeersGrow DEF RegistrarAssumption
<1>2. Quorum /\ linked' = linked => Quorum'
  BY <1>1 DEF Quorum
<1>3. CASE UNCHANGED regVars
  BY <1>2, <1>3 DEF regVars, QuorumBehind
<1>4. CASE register
  BY <1>2, <1>4 DEF register, QuorumBehind
<1>5. CASE on_register_response \/ Answer \/ Drop
  BY <1>2, <1>5 DEF on_register_response, Answer, Drop, QuorumBehind
<1>6. CASE Link
  BY <1>1, <1>6 DEF Link, Quorum, QuorumBehind
<1>7. CASE FindServer
  BY <1>2, <1>7 DEF FindServer, QuorumBehind
<1> QED  BY <1>3, <1>4, <1>5, <1>6, <1>7 DEF BootNext, RegStep, bootVars

LEMMA QuorumAlways == BootSpec => [](Inv /\ QuorumBehind)
<1>1. BootInit => QuorumBehind
  BY DEF BootInit, RegInit, QuorumBehind
<1>2. ASSUME RegistrarAssumption, Inv, QuorumBehind, [BootNext]_bootVars
      PROVE  QuorumBehind'
  BY <1>2, QuorumStep DEF Inv
<1> QED  BY <1>1, <1>2, RegistrarAssumption, BootIsSpec, InvAlways, PTL DEF BootSpec

-----------------------------------------------------------------------------
(* The theorem *)

\* A block the registrar mines goes to every peer it has discovered.
LEMMA MinedIsAnnounced ==
    ASSUME LedgerAssumption, NodeAssumption, RegistrarAssumption, Inv, Quorum,
           NEW n \in Miner, MineLands(n),
           NEW b \in mined'[Registrar] \ mined[Registrar]
    PROVE  Announced(b)'
<1>1. PICK stamp \in GoodStamp, e \in Block : Mining(n, stamp, e)
  BY MineOutcome
<1>2. /\ mined' = [mined EXCEPT ![n] = @ \cup {e}]
      /\ network' = network \cup broadcast_block(n, e, Len(e))
  BY <1>1 DEF Mining
<1>3. n = Registrar /\ b = e
  BY <1>2 DEF Inv, TypeOK, RegistrarAssumption
<1>4. ASSUME NEW p \in Teammates
      PROVE  \E m \in network' : m.type = "NewBlock" /\ m.dst = p /\ m.block = b
  <2> DEFINE m == [type |-> "NewBlock", src |-> n, dst |-> p, height |-> Len(e),
                   block |-> e]
  <2>1. p \in peers[n] \cap (Member \ {n})
    BY <1>3 DEF Quorum, Teammates
  <2>2. m \in network'
    BY <1>2, <2>1 DEF broadcast_block
  <2>3. m.type = "NewBlock" /\ m.dst = p /\ m.block = b
    BY <1>3
  <2> HIDE DEF m
  <2> QED  BY <2>2, <2>3
<1>5. Teammates' = Teammates
  BY DEF Teammates
<1> QED  BY <1>4, <1>5 DEF Announced

\* Once the server was told of the chain, whether the verdict is in or not,
\* every block the registrar mines goes out to every teammate.
THEOREM TeamHears == BootSpec => TeamHearsEveryBlock
<1> DEFINE A == (Request \in regnet \/ registered) =>
                    \A b \in mined'[Registrar] \ mined[Registrar] : Announced(b)'
<1>1. ASSUME LedgerAssumption, NodeAssumption, RegistrarAssumption, Inv, QuorumBehind,
             [BootNext]_bootVars
      PROVE  [A]_bootVars
  <2>1. CASE UNCHANGED mined
    BY <2>1
  <2>2. CASE \E n \in Miner : MineLands(n)
    BY <1>1, <2>2, MinedIsAnnounced DEF QuorumBehind
  <2>3. CASE \E n \in Node : \E m \in network : IngestLands(n, m)
    BY <2>1, <2>3 DEF IngestLands
  <2>4. CASE UNCHANGED vars
    BY <2>1, <2>4 DEF vars
  <2> QED  BY <1>1, <2>1, <2>2, <2>3, <2>4, BootStep, StepKinds
<1> QED  BY <1>1, LedgerAssumption, NodeAssumption, RegistrarAssumption, QuorumAlways, PTL
         DEF BootSpec, TeamHearsEveryBlock

=============================================================================
