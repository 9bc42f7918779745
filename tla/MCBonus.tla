------------------------------- MODULE MCBonus -------------------------------
(***************************************************************************)
(* Small instances of the four bonus libraries, which know nothing of each *)
(* other: a behaviour exercises one of them, chosen at the start, and      *)
(* leaves the state of the others alone.                                   *)
(***************************************************************************)
EXTENDS Reorganize, Compact, Retarget, TimestampGate

CONSTANTS t1, t2, t3, g1, g2, bad

VARIABLE library

\* The lists others offer, up to height 3: every list of sound blocks with at
\* most one transaction each, one whose tip fails its proof of work, and one
\* on a genesis block of its own.
OnTop(headers, paths) == {Append(p, h) : p \in paths, h \in headers}
Headers(s) == [txs : {{}, {t1}, {t2}}, stamp : s]
One   == OnTop(Headers(GoodStamp), {GENESIS})
Two   == OnTop(Headers(GoodStamp), One)
Three == OnTop(Headers(GoodStamp), Two)
ListTo(b) == << GENESIS >> \o Path(GENESIS, b)
Offers ==
    {ListTo(b) : b \in One \cup Two \cup Three}
    \cup {ListTo(b) : b \in OnTop(Headers({bad}), One \cup {<< [txs |-> {t1}, stamp |-> g1],
                                                              [txs |-> {}, stamp |-> g1] >>})}
    \cup {Tail(ListTo(b)) : b \in Three}

\* Under the first salt two transactions share a short identifier.
ShortIds(tx, salt) == IF tx = t1 THEN 1 ELSE IF tx = t3 THEN 3 ELSE salt

SomeBodies == {<< >>, << t1, t2 >>, << t2, t1 >>, << t3, t1 >>}
Salts == 1 .. 2

\* Seconds of an arbitrary cadence: back, short and long.  Three of them move
\* the difficulty by each of -2 .. 2, or span no positive time.
SomeGaps == {-8, 10, 60}

BonusInit ==
    /\ library \in {"reorganize", "compact", "retarget", "gate"}
    /\ Init /\ CompactInit /\ RetargetInit /\ GateInit
    /\ library # "retarget" => power = 0 /\ difficulty = MIN_DIFFICULTY

Reorganizing ==
    library = "reorganize" /\ Next /\ UNCHANGED << library, compactVars, retargetVars, gateVars >>
Relaying ==
    library = "compact" /\ CompactNext /\ UNCHANGED << library, vars, retargetVars, gateVars >>
Retargeting ==
    library = "retarget" /\ Simulated /\ UNCHANGED << library, vars, compactVars, gateVars >>
Gating ==
    library = "gate" /\ GateNext /\ UNCHANGED << library, vars, compactVars, retargetVars >>

BonusNext == Reorganizing \/ Relaying \/ Retargeting \/ Gating

bonusVars == << library, vars, compactVars, retargetVars, gateVars >>

\* What Compact and Retarget assume: an exchange under way goes on, the
\* simulation runs to its end.
BonusSpec ==
    /\ BonusInit
    /\ [][BonusNext]_bonusVars
    /\ WF_compactVars(library = "compact" /\ Step)
    /\ WF_retargetVars(library = "retarget" /\ Simulated)

=============================================================================
