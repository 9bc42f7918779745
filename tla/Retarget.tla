------------------------------- MODULE Retarget -------------------------------
(***************************************************************************)
(* retarget of bonus/difficulty.py in the loop of                          *)
(* demo/bonus/difficulty.py: every RETARGET_INTERVAL blocks the difficulty *)
(* moves by the rounded binary logarithm of expected over elapsed time.    *)
(* Time comes from a cadence: arbitrary gaps, or those of a constant hash  *)
(* power, under which a block takes twice as long with each further bit.   *)
(***************************************************************************)
EXTENDS Integers, SequencesExt

CONSTANTS
    TARGET_BLOCK_SECONDS,
    RETARGET_INTERVAL,
    MIN_DIFFICULTY, MAX_DIFFICULTY,
    Gaps,         \* the gaps of an arbitrary cadence, not all positive
    MaxBlocks     \* _BLOCKS

ASSUME RetargetAssumption ==
    /\ TARGET_BLOCK_SECONDS \in Nat \ {0}
    /\ RETARGET_INTERVAL \in Nat \ {0}
    /\ MIN_DIFFICULTY \in Nat /\ MAX_DIFFICULTY \in Nat
    /\ Gaps \subseteq Int
    /\ MaxBlocks \in Nat

VARIABLES
    timestamps,
    difficulty,
    power,        \* the difficulty at which a block takes the target; 0 if the gaps are arbitrary
    measured      \* history: the seconds between first and last stamp of every window measured

retargetVars == << timestamps, difficulty, power, measured >>

Bits == MIN_DIFFICULTY .. MAX_DIFFICULTY

RetargetInit ==
    /\ timestamps = << 0 >>
    /\ difficulty \in Bits
    /\ power \in {0} \cup Bits
    /\ measured = 0

\* The height of the newest block; the list begins with a stamp for height 0.
LastHeight == Len(timestamps) - 1

-----------------------------------------------------------------------------

\* Mutant of Elapsed: the window ends where it should share a stamp with the
\* one before.
ElapsedInside(stamps) == Last(stamps) - stamps[Len(stamps) - RETARGET_INTERVAL + 1]

Elapsed(stamps) == Last(stamps) - stamps[Len(stamps) - RETARGET_INTERVAL]

expected == RETARGET_INTERVAL * TARGET_BLOCK_SECONDS

\* Mutant of Rounded: floor(log2(ratio)), without the half.
RoundedDown(e, s) ==
    CASE 2 * e < s            -> -2
      [] s <= 2 * e /\ e < s  -> -1
      [] s <= e /\ e < 2 * s  -> 0
      [] 2 * s <= e /\ e < 4 * s -> 1
      [] 4 * s <= e           -> 2

\* floor(log2(ratio) + 0.5) with ratio = e / s clamped to 1/4 .. 4: the
\* integer d with 2^(d-1/2) <= ratio < 2^(d+1/2), squared and multiplied out,
\* and no further from 0 than 2.
Rounded(e, s) ==
    LET ee == e * e
        ss == s * s
    IN  CASE 8 * ee < ss                    -> -2
          [] ss <= 8 * ee /\ 2 * ee < ss    -> -1
          [] ss <= 2 * ee /\ ee < 2 * ss    -> 0
          [] 2 * ss <= ee /\ ee < 8 * ss    -> 1
          [] 8 * ss <= ee                   -> 2

AtLeastOne(n) == IF n < 1 THEN 1 ELSE n

\* Mutant of Delta: elapsed over expected.
DeltaInverted(stamps) == Rounded(AtLeastOne(Elapsed(stamps)), expected)

Delta(stamps) == Rounded(expected, AtLeastOne(Elapsed(stamps)))

Clamped(d) ==
    IF d < MIN_DIFFICULTY THEN MIN_DIFFICULTY
    ELSE IF d > MAX_DIFFICULTY THEN MAX_DIFFICULTY ELSE d

IsBoundary(h) == h >= RETARGET_INTERVAL /\ h % RETARGET_INTERVAL = 0

retarget(h, stamps, current) ==
    IF IsBoundary(h) /\ Len(stamps) >= RETARGET_INTERVAL + 1
    THEN Clamped(current + Delta(stamps))
    ELSE current

\* simulate: the gap of the next block.
Cadence ==
    IF power = 0 THEN Gaps
    ELSE LET slowest == TARGET_BLOCK_SECONDS * 2^difficulty
         IN  {gap \in 0 .. slowest : gap * 2^power = slowest}

\* simulate: one turn of the loop.
Simulated ==
    \E gap \in Cadence :
        LET stamps == Append(timestamps, Last(timestamps) + gap)
            h == LastHeight + 1
        IN  /\ h <= MaxBlocks
            /\ timestamps' = stamps
            /\ difficulty' = retarget(h, stamps, difficulty)
            /\ measured' = measured + (IF IsBoundary(h) THEN Elapsed(stamps) ELSE 0)
            /\ UNCHANGED power

\* The loop runs to its end.
RetargetSpec ==
    RetargetInit /\ [][Simulated]_retargetVars /\ WF_retargetVars(Simulated)

-----------------------------------------------------------------------------
(* Properties *)

\* At a boundary the windows measured add up to the whole time since the first
\* stamp: a window shares its first stamp with the one before, and no gap
\* between two windows stays unmeasured, where time could be won for nothing.
NoGapEscapes == IsBoundary(LastHeight) => measured = Last(timestamps) - timestamps[1]

\* How far off its target the window of the last interval would have been
\* with d bits more: the longer of the two times over the shorter.
Misfit(d) ==
    LET h      == LastHeight
        span   == AtLeastOne(timestamps[h + 1] - timestamps[h + 1 - RETARGET_INTERVAL])
        scaled == span * 2^(d + 2)
        target == 4 * RETARGET_INTERVAL * TARGET_BLOCK_SECONDS
    IN  IF scaled < target THEN [long |-> target, short |-> scaled]
        ELSE [long |-> scaled, short |-> target]

NoWorse(m, o) == m.long * o.short <= o.long * m.short

\* Between boundaries the difficulty stands still.  At one it moves to that
\* difficulty, of those at most two bits away and within the bounds, with
\* which the window would have come nearest to its target: whatever rounding,
\* clamps and spans of zero or negative seconds make of the logarithm.
NearestStep ==
    [][IF IsBoundary(LastHeight')
       THEN \E step \in -2 .. 2 :
                /\ difficulty' = difficulty + step
                /\ difficulty' \in Bits
                /\ \A d \in -2 .. 2 :
                       difficulty + d \in Bits => NoWorse(Misfit(step), Misfit(d))'
       ELSE difficulty' = difficulty]_retargetVars

\* Under a constant hash power the difficulty reaches the one at which blocks
\* take the target time, from wherever it starts, and stays there.
Settles == power # 0 ~> [](difficulty = power)

=============================================================================
