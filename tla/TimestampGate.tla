---------------------------- MODULE TimestampGate ----------------------------
(***************************************************************************)
(* The timestamp gate of bonus/difficulty.py in front of a growing chain:  *)
(* a stamp must exceed the median of the stamps before it and must not lie *)
(* too far in the future.  Honest miners stamp the time, others whatever   *)
(* the gate lets through.                                                  *)
(***************************************************************************)
EXTENDS Integers, SequencesExt

CONSTANTS
    MEDIAN_PAST_WINDOW,
    MAX_FUTURE_DRIFT,
    MaxNow              \* bound: the clock stops here

\* The window is odd, as its 11: between the middle two of an even number of
\* stamps the median could fall when the window slides.
ASSUME GateAssumption ==
    /\ MEDIAN_PAST_WINDOW \in Nat /\ MEDIAN_PAST_WINDOW % 2 = 1
    /\ MAX_FUTURE_DRIFT \in Nat
    /\ MaxNow \in Nat

VARIABLES
    recent,     \* the chain's last MEDIAN_PAST_WINDOW timestamps; no older one is read
    lies,       \* for each of them, whether its miner was a liar
    now

gateVars == << recent, lies, now >>

GateInit ==
    /\ recent = << >>
    /\ lies = << >>
    /\ now = 1

-----------------------------------------------------------------------------

\* The stamp at position k when sorted.
Ranked(s, k) ==
    CHOOSE x \in ToSet(s) :
        /\ Cardinality({i \in DOMAIN s : s[i] < x}) < k
        /\ Cardinality({i \in DOMAIN s : s[i] <= x}) >= k

\* Mutant of median_past_timestamp: the newest stamp.
newest_timestamp(s) == IF s = << >> THEN 0 ELSE s[Len(s)]

\* int(median(recent)): between the middle two, rounded down.
median_past_timestamp(s) ==
    IF s = << >> THEN 0
    ELSE (Ranked(s, (Len(s) + 1) \div 2) + Ranked(s, Len(s) \div 2 + 1)) \div 2

\* Mutant of is_valid_timestamp: only the future is looked at.
not_in_the_future(candidate, s, clock) == candidate <= clock + MAX_FUTURE_DRIFT

is_valid_timestamp(candidate, s, clock) ==
    /\ s # << >> => candidate > median_past_timestamp(s)
    /\ candidate <= clock + MAX_FUTURE_DRIFT

Newest(s) ==
    IF Len(s) > MEDIAN_PAST_WINDOW THEN SubSeq(s, Len(s) - MEDIAN_PAST_WINDOW + 1, Len(s)) ELSE s

Append_(stamp, lie) ==
    /\ is_valid_timestamp(stamp, recent, now)
    /\ recent' = Newest(Append(recent, stamp))
    /\ lies' = Newest(Append(lies, lie))
    /\ UNCHANGED now

HonestBlock == Append_(now, FALSE)

LyingBlock == \E stamp \in 0 .. now + MAX_FUTURE_DRIFT + 1 : Append_(stamp, TRUE)

Tick ==
    /\ now < MaxNow
    /\ now' = now + 1
    /\ UNCHANGED << recent, lies >>

GateNext == HonestBlock \/ LyingBlock \/ Tick

GateSpec == GateInit /\ [][GateNext]_gateVars

-----------------------------------------------------------------------------
(* Properties *)

\* The median never falls, while the window fills and while it slides: no
\* series of backdated blocks takes the chain's time back.
MedianNeverFalls == [][median_past_timestamp(recent') >= median_past_timestamp(recent)]_gateVars

\* As long as fewer than half of the blocks in the window lie, a block stamped
\* with the next second passes the gate: stamps from the future do not lock
\* the honest miners out.
HonestNotLockedOut ==
    2 * Cardinality({i \in DOMAIN lies : lies[i]}) < Len(lies)
        => is_valid_timestamp(now + 1, recent, now + 1)

=============================================================================
