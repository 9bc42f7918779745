----------------------------- MODULE MCMinerPoll -----------------------------
(***************************************************************************)
(* The workers of MinerWorkers, watched from the moment a winner sets the   *)
(* stop event: how long a sibling goes on before it looks at it.           *)
(***************************************************************************)
EXTENDS MinerWorkers

\* The first nonce meets the target, so worker 0 wins at once.
FirstIsGood == {{0}}

VARIABLE since    \* history: the attempts each worker made since the event was set

watchVars == << minerVars, since >>

WatchInit == MinerInit /\ since = [w \in Worker |-> 0]

WatchNext ==
    /\ MinerNext
    /\ since' = [w \in Worker |->
                    since[w] + (IF stop_event /\ nonce'[w] # nonce[w] THEN 1 ELSE 0)]

WatchSpec == WatchInit /\ [][WatchNext]_watchVars /\ MinerFairness

-----------------------------------------------------------------------------
(* What the repository says of the code and the code does not do.          *)

\* README.md:74, "stop_event polled once per 16 384 attempts", and
\* chain.py:131, "so siblings exit shortly after a winner": a worker that is
\* still searching has made fewer attempts than a period since the event was set.
PolledOncePerPeriod ==
    \A w \in Worker : at[w] = "searching" => since[w] < PollEvery

=============================================================================
