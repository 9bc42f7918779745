------------------------------ MODULE Lab1Client ------------------------------
(***************************************************************************)
(* Lab 1 from the search to the verdict: the miner, and the client         *)
(* labs/one/client.py that is started with the nonce the miner printed.    *)
(* The overlay runs while main still binds the nonce; a periodic task      *)
(* submits once the server is among the discovered peers; the server's     *)
(* answer ends the program.                                                *)
(***************************************************************************)
EXTENDS MinerWorkers

CONSTANTS
    Server,      \* the holder of SERVER_PUBLIC_KEY
    Stranger,    \* another peer of the overlay
    MaxLoss      \* bound: how many of its own and the server's datagrams are lost

ASSUME PeersAssumption == Server # Stranger

VARIABLES
    client,      \* off, booting (nonce not bound yet), waiting, stopped
    bound,       \* community.nonce: empty, or the one nonce
    known,       \* get_peers()
    submitted,
    done,        \* the event on_response sets
    network,     \* the datagrams in flight
    lost         \* how many of the client's and the server's were lost

clientVars == << client, bound, known, submitted, done, network, lost >>
vars == << minerVars, clientVars >>

Submission(n) == [type |-> "Submission", nonce |-> n]
Response(p)   == [type |-> "Response", src |-> p]

\* A stranger's response may be on its way from the start.
Init ==
    /\ MinerInit
    /\ client = "off"
    /\ bound = {}
    /\ known = {}
    /\ submitted = FALSE
    /\ done = FALSE
    /\ network = {Response(Stranger)}
    /\ lost = 0

-----------------------------------------------------------------------------

\* The client is started with what the miner printed; ipv8.start() runs the
\* overlay and its task.
Boot ==
    /\ client = "off"
    /\ parent = "returned"
    /\ client' = "booting"
    /\ UNCHANGED << bound, known, submitted, done, network, lost >>

Bind ==
    /\ client = "booting"
    /\ client' = "waiting"
    /\ bound' = result
    /\ UNCHANGED << known, submitted, done, network, lost >>

\* Mutant of MaySubmit: the nonce is not waited for.
MaySubmitUnbound == ~ submitted /\ Server \in known

\* Mutant of MaySubmit: the scan of the peers ends at the first one.
MaySubmitFirstPeer == bound # {} /\ ~ submitted /\ known = {Server}

MaySubmit == bound # {} /\ ~ submitted /\ Server \in known

\* One tick of the task, when it does something.
find_and_submit ==
    /\ client \in {"booting", "waiting"}
    /\ MaySubmit
    /\ submitted' = TRUE
    /\ network' = network \cup {Submission(bound)}
    /\ UNCHANGED << client, bound, known, done, lost >>

\* Mutant of Heeds: any peer's response will do.
HeedsAnybody(m) == m.type = "Response"

Heeds(m) == m.type = "Response" /\ m.src = Server

on_response(m) ==
    /\ client \in {"booting", "waiting"}
    /\ m.type = "Response"
    /\ done' = (done \/ Heeds(m))
    /\ network' = network \ {m}
    /\ UNCHANGED << client, bound, known, submitted, lost >>

Stop ==
    /\ client = "waiting"
    /\ done
    /\ client' = "stopped"
    /\ UNCHANGED << bound, known, submitted, done, network, lost >>

\* External: discovery, the server, the network.
Meet(p) ==
    /\ client \in {"booting", "waiting"}
    /\ p \notin known
    /\ known' = known \cup {p}
    /\ UNCHANGED << client, bound, submitted, done, network, lost >>

Answer(m) ==
    /\ m.type = "Submission"
    /\ network' = (network \ {m}) \cup {Response(Server)}
    /\ UNCHANGED << client, bound, known, submitted, done, lost >>

\* The stranger's response is no loss to the client, and not counted as one.
Lose(m) ==
    /\ lost' = lost + (IF m = Response(Stranger) THEN 0 ELSE 1)
    /\ lost' <= MaxLoss
    /\ network' = network \ {m}
    /\ UNCHANGED << client, bound, known, submitted, done >>

ClientStep ==
    \/ Boot \/ Bind \/ find_and_submit \/ Stop
    \/ \E p \in {Server, Stranger} : Meet(p)
    \/ \E m \in network : on_response(m) \/ Answer(m) \/ Lose(m)

Next ==
    \/ MinerNext /\ UNCHANGED clientVars
    \/ ClientStep /\ UNCHANGED minerVars

\* Timers fire, coroutines resume, and what is not lost arrives.
ClientFairness ==
    /\ WF_vars((Bind \/ find_and_submit) /\ UNCHANGED minerVars)
    /\ WF_vars(Stop /\ UNCHANGED minerVars)
    /\ WF_vars((\E m \in network : on_response(m) \/ Answer(m)) /\ UNCHANGED minerVars)

Spec == Init /\ [][Next]_vars /\ MinerFairness /\ ClientFairness

-----------------------------------------------------------------------------
(* Properties *)

\* Whatever reaches the server is a nonce that meets the target, although the
\* task ticks from the moment the overlay is loaded and main binds the nonce
\* after that.
SubmitsTheProof ==
    \A m \in network : m.type = "Submission" => m.nonce # {} /\ m.nonce \subseteq good

\* The program only ends when the server can have answered: a response of
\* another peer that arrives first does not end it.
DoneMeansSubmitted == done => submitted

\* Once the server is discovered the program gets its verdict and stops, or
\* the submission or its answer was lost: nothing is ever sent again.
FinishesUnlessLost ==
    (client = "waiting" /\ Server \in known) ~> (client = "stopped" \/ lost > 0)

=============================================================================
