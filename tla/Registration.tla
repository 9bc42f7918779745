----------------------------- MODULE Registration -----------------------------
(***************************************************************************)
(* RegistrationCommunity of labs/three/node.py beside the chain node: one  *)
(* member, the registrar, tells the server about the group's chain once    *)
(* its chain overlay has discovered both teammates, and repeats itself     *)
(* until a verdict arrives.  The two overlays run on one event loop and    *)
(* main links them after both are loaded.                                  *)
(***************************************************************************)
EXTENDS ChainNode

CONSTANT Registrar    \* the holder of MEMBER_KEYS[0]

ASSUME RegistrarAssumption == Registrar \in Node

VARIABLES
    linked,         \* reg_overlay.chain is set
    serverFound,    \* the server is a peer of the registration overlay
    registered,
    regnet          \* the overlay's datagrams in flight, any of which may be lost

regVars == << linked, serverFound, registered, regnet >>

Request == "RegisterBlockchain"
Verdict == "RegisterResponse"

RegInit ==
    /\ linked = FALSE
    /\ serverFound = FALSE
    /\ registered = FALSE
    /\ regnet = {}

Teammates == Member \ {Registrar}

\* Mutants of Quorum: the peers are not looked at, and the registrar itself
\* is waited for.
QuorumWhenLinked == linked
QuorumOfAll == linked /\ Member \subseteq peers[Registrar]

Quorum == linked /\ Teammates \subseteq peers[Registrar]

\* One tick of the task, when it sends.
register ==
    /\ ~ registered
    /\ serverFound
    /\ Quorum
    /\ regnet' = regnet \cup {Request}
    /\ UNCHANGED << linked, serverFound, registered >>

\* Success or failure: any verdict ends the retries.
on_register_response ==
    /\ Verdict \in regnet
    /\ registered' = TRUE
    /\ regnet' = regnet \ {Verdict}
    /\ UNCHANGED << linked, serverFound >>

Link ==
    /\ ~ linked
    /\ linked' = TRUE
    /\ UNCHANGED << serverFound, registered, regnet >>

\* External: discovery, the server's answer, a lost datagram.
FindServer ==
    /\ ~ serverFound
    /\ serverFound' = TRUE
    /\ UNCHANGED << linked, registered, regnet >>

Answer ==
    /\ Request \in regnet
    /\ regnet' = (regnet \ {Request}) \cup {Verdict}
    /\ UNCHANGED << linked, serverFound, registered >>

Drop ==
    /\ \E m \in regnet : regnet' = regnet \ {m}
    /\ UNCHANGED << linked, serverFound, registered >>

RegStep == register \/ on_register_response \/ Link \/ FindServer \/ Answer \/ Drop

bootVars == << vars, regVars >>

BootInit == Init /\ RegInit

BootNext ==
    \/ Next /\ UNCHANGED regVars
    \/ RegStep /\ UNCHANGED vars

\* The chain node's fairness, a timer that fires, and a network that does not
\* lose every copy of what is sent again and again.
BootFairness ==
    /\ \A n \in Miner : /\ WF_bootVars(MineLands(n) /\ UNCHANGED regVars)
                        /\ WF_bootVars(MineStale(n) /\ UNCHANGED regVars)
    /\ \A n \in Node : WF_bootVars(Deliver(n) /\ UNCHANGED regVars)
    /\ WF_bootVars(register /\ UNCHANGED vars)
    /\ SF_bootVars(Answer /\ UNCHANGED vars)
    /\ SF_bootVars(on_register_response /\ UNCHANGED vars)

BootSpec == BootInit /\ [][BootNext]_bootVars /\ BootFairness

-----------------------------------------------------------------------------
(* Properties *)

\* What the quorum is for: when the server is told of the chain, every block
\* the registrar mines from then on goes out to every teammate, although the
\* two overlays discover their peers independently.
Announced(b) ==
    \A p \in Teammates : \E m \in network :
        m.type = "NewBlock" /\ m.dst = p /\ m.block = b

TeamHearsEveryBlock ==
    [][(Request \in regnet \/ registered) =>
           \A b \in mined'[Registrar] \ mined[Registrar] : Announced(b)']_bootVars

\* Once the teammates and the server are found, the registrar gets its
\* verdict, however many requests and answers are lost on the way.
RegistrarIsAnswered ==
    (linked /\ serverFound /\ Teammates \subseteq peers[Registrar]) ~> registered

=============================================================================
