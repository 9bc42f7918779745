----------------------------- MODULE MinerWorkers -----------------------------
(***************************************************************************)
(* The proof-of-work search in worker processes: mine and worker of        *)
(* labs/one/miner.py, and mine_block_parallel and _chain_worker of         *)
(* labs/three/chain.py, which are the same program over another prefix.    *)
(*                                                                         *)
(* A hash function is the set of the nonces whose digest meets the target. *)
(* The parent starts one process per core, blocks on the result queue,     *)
(* terminates and joins all processes and returns what it read.            *)
(***************************************************************************)
EXTENDS Integers, SequencesExt

CONSTANTS
    MaxWorkers,   \* bound: os.cpu_count() is at most this
    MaxNonce,     \* bound: no worker searches above this nonce
    Proofs,       \* the sets of good nonces to be considered
    PollEvery     \* 0x3FFF + 1: stop_event is looked at on its multiples

ASSUME MinerAssumption ==
    /\ MaxWorkers \in Nat \ {0}
    /\ MaxNonce \in Nat
    /\ Proofs \subseteq (SUBSET (0 .. MaxNonce)) \ {{}}
    /\ PollEvery \in Nat \ {0}

VARIABLES
    num_workers,    \* os.cpu_count()
    good,           \* the nonces that validate_nonce accepts
    nonce,          \* the nonce each worker tries next
    at,             \* where each worker process is
    outbox,         \* what each worker has put and its feeder has not written
    result_queue,   \* the queue as the parent sees it
    stop_event,
    killed,         \* the workers that terminate() was called for
    parent,         \* where the parent is
    result          \* the set of what get() returned: empty, then one nonce

minerVars == << num_workers, good, nonce, at, outbox, result_queue, stop_event,
                killed, parent, result >>

Worker == 0 .. num_workers - 1
Alive(w) == at[w] \in {"searching", "found", "leaving"}

\* Mutant of FirstNonce: the workers count from one.
FirstFromOne(w) == w + 1

FirstNonce(w) == w

MinerInit ==
    /\ num_workers \in 1 .. MaxWorkers
    /\ good \in Proofs
    /\ nonce  = [w \in Worker |-> FirstNonce(w)]
    /\ at     = [w \in Worker |-> "unborn"]
    /\ outbox = [w \in Worker |-> {}]
    /\ result_queue = << >>
    /\ stop_event = FALSE
    /\ killed = {}
    /\ parent = "starting"
    /\ result = {}

-----------------------------------------------------------------------------
(* A worker *)

\* Mutant of Hit: the event is set where the nonce should have been put.
HitSetsOnly(w) ==
    /\ at[w] = "searching"
    /\ nonce[w] \in good
    /\ stop_event' = TRUE
    /\ at' = [at EXCEPT ![w] = "found"]
    /\ UNCHANGED << num_workers, good, nonce, outbox, result_queue, killed, parent, result >>

\* The digest meets the target: the nonce is handed to the queue's feeder.
Hit(w) ==
    /\ at[w] = "searching"
    /\ nonce[w] \in good
    /\ outbox' = [outbox EXCEPT ![w] = {nonce[w]}]
    /\ at'     = [at EXCEPT ![w] = "found"]
    /\ UNCHANGED << num_workers, good, nonce, result_queue, stop_event, killed,
                    parent, result >>

Signal(w) ==
    /\ at[w] = "found"
    /\ stop_event' = TRUE
    /\ at' = [at EXCEPT ![w] = "leaving"]
    /\ UNCHANGED << num_workers, good, nonce, outbox, result_queue, killed, parent, result >>

\* Mutant of Polls: the event itself is not looked at.
PollsBlindly(n) == n % PollEvery = 0

\* Whether the worker that is about to try n leaves instead.
Polls(n) == n % PollEvery = 0 /\ stop_event

Miss(w) ==
    LET next == nonce[w] + num_workers
    IN  /\ at[w] = "searching"
        /\ nonce[w] \notin good
        /\ next <= MaxNonce
        /\ nonce' = [nonce EXCEPT ![w] = next]
        /\ at'    = [at EXCEPT ![w] = IF Polls(next) THEN "stopped" ELSE @]
        /\ UNCHANGED << num_workers, good, outbox, result_queue, stop_event, killed,
                        parent, result >>

\* multiprocessing.Queue: a thread of the worker's process writes the item,
\* and the process does not exit before it has.
Feed(w) ==
    /\ at[w] \in {"found", "leaving"}
    /\ \E n \in outbox[w] : result_queue' = Append(result_queue, n)
    /\ outbox' = [outbox EXCEPT ![w] = {}]
    /\ UNCHANGED << num_workers, good, nonce, at, stop_event, killed, parent, result >>

Leave(w) ==
    /\ at[w] = "leaving"
    /\ outbox[w] = {}
    /\ at' = [at EXCEPT ![w] = "won"]
    /\ UNCHANGED << num_workers, good, nonce, outbox, result_queue, stop_event, killed,
                    parent, result >>

\* SIGTERM arrives, whatever the worker is doing.
Die(w) ==
    /\ w \in killed
    /\ Alive(w)
    /\ at' = [at EXCEPT ![w] = "terminated"]
    /\ UNCHANGED << num_workers, good, nonce, outbox, result_queue, stop_event, killed,
                    parent, result >>

-----------------------------------------------------------------------------
(* The parent *)

\* One process after the other, so an early worker may win before the last
\* one is born.
Start(w) ==
    /\ parent = "starting"
    /\ at[w] = "unborn"
    /\ \A v \in 0 .. w - 1 : at[v] # "unborn"
    /\ at'     = [at EXCEPT ![w] = "searching"]
    /\ parent' = IF w = num_workers - 1 THEN "waiting" ELSE parent
    /\ UNCHANGED << num_workers, good, nonce, outbox, result_queue, stop_event, killed, result >>

Get ==
    /\ parent = "waiting"
    /\ result_queue # << >>
    /\ result'       = {Head(result_queue)}
    /\ result_queue' = Tail(result_queue)
    /\ parent'       = "terminating"
    /\ UNCHANGED << num_workers, good, nonce, at, outbox, stop_event, killed >>

\* The loop over terminate(): what a worker does between two signals it could
\* have done before the first.
Terminate ==
    /\ parent = "terminating"
    /\ killed' = Worker
    /\ parent' = "joining"
    /\ UNCHANGED << num_workers, good, nonce, at, outbox, result_queue, stop_event, result >>

Join ==
    /\ parent = "joining"
    /\ \A w \in Worker : ~ Alive(w)
    /\ parent' = "returned"
    /\ UNCHANGED << num_workers, good, nonce, at, outbox, result_queue, stop_event,
                    killed, result >>

Work(w) == Hit(w) \/ Signal(w) \/ Miss(w) \/ Leave(w)

MinerNext ==
    \/ \E w \in Worker : Start(w) \/ Work(w) \/ Feed(w) \/ Die(w)
    \/ Get
    \/ Terminate
    \/ Join

\* The operating system runs every process and delivers signals, and a thread
\* that has something to write writes it.
MinerFairness ==
    /\ \A w \in 0 .. MaxWorkers - 1 :
           /\ WF_minerVars(w \in Worker /\ Work(w))
           /\ WF_minerVars(w \in Worker /\ Feed(w))
           /\ WF_minerVars(w \in Worker /\ Die(w))
    /\ WF_minerVars(\E w \in Worker : Start(w))
    /\ WF_minerVars(Get \/ Terminate \/ Join)

MinerSpec == MinerInit /\ [][MinerNext]_minerVars /\ MinerFairness

-----------------------------------------------------------------------------
(* Properties *)

\* What the parent returns meets the target, and no smaller nonce of the same
\* stride does: the strides leave out no nonce.  (A smaller one of another
\* stride may: the first to be read wins, not the least.)
LeastOfItsStride ==
    \A n \in result :
        /\ n \in good
        /\ \A e \in good : e % num_workers = n % num_workers => n <= e

\* The event, which makes workers leave empty-handed, is only ever set when an
\* answer is on its way: in the queue or with a feeder that will write it.
\* Otherwise everybody could leave while the parent blocks in get() for ever.
AnswerUnderway ==
    stop_event /\ parent \in {"starting", "waiting"} =>
        result_queue # << >> \/ \E w \in Worker : outbox[w] # {}

\* The search returns, with one winner or several, workers that polled and
\* workers that never do, and no process outlives it.
SearchReturns == <>(parent = "returned" /\ \A w \in Worker : ~ Alive(w))

=============================================================================
