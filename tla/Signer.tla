------------------------------- MODULE Signer -------------------------------
(***************************************************************************)
(* Lab 2, labs/two/signer.py class SignerCommunity: N members sign N       *)
(* rounds for a server.  Member r submits round r: it fetches the nonce,   *)
(* shares it, collects the signatures and sends the bundle.  The others    *)
(* sign, fire a few copies of the signature and go on to the next round.   *)
(*                                                                         *)
(* run_rounds and its two flows form one coroutine per member, which       *)
(* yields at every await; the handlers run in between.  One action is one  *)
(* handler, or the stretch of the coroutine from one await to the next.    *)
(* The server issues one nonce per round however often it is asked, so a   *)
(* nonce is named by its round.                                            *)
(***************************************************************************)
EXTENDS Integers, FiniteSets

CONSTANTS
    N,          \* members, and rounds: three in the code
    Copies,     \* copies of a signature that a signer fires: three
    Reliable,   \* TRUE: datagrams arrive once, except those lost.  FALSE:
                \* they may also be repeated, and any number may be lost
    MaxLoss,    \* bound: how many datagrams a reliable network loses
    Prompt,     \* TRUE: what is in flight is delivered or lost within a second
    Budget,     \* TRUE: the server's ten seconds may run out
    MaxRestarts \* bound: how often a member's program is started again

ASSUME SignerAssumption ==
    /\ N \in Nat \ {0, 1}
    /\ Copies \in Nat \ {0}
    /\ Reliable \in BOOLEAN
    /\ MaxLoss \in Nat
    /\ Prompt \in BOOLEAN
    /\ Budget \in BOOLEAN
    /\ MaxRestarts \in Nat

Server == 0
Member == 1 .. N
Round  == 1 .. N
None   == 0         \* current_nonce is None

\* A dictionary of signatures: whose it is, and over which nonce.
Signatures == UNION {[S -> Round] : S \in SUBSET Member}

\* The payload classes, with the verified key of the sender.  The index a
\* SignatureShare repeats is the sender's; copy tells equal datagrams apart.
Message ==
    [type : {"ChallengeRequest"}, src : Member, dst : {Server}]
    \cup [type : {"ChallengeResponse"}, src : {Server}, dst : Member,
          round : Round, nonce : Round]
    \cup [type : {"NonceShare"}, src : Member, dst : Member,
          round : Round, nonce : Round]
    \cup [type : {"SignatureShare"}, src : Member, dst : Member,
          round : Round, signature : Round, copy : 1 .. Copies]
    \cup [type : {"SignatureBundle"}, src : Member, dst : {Server},
          round : Round, signatures : Signatures]
    \cup [type : {"RoundResult"}, src : {Server}, dst : Member,
          success : BOOLEAN]

VARIABLES
    me,         \* the state of each member, see Fresh
    server,     \* rounds recorded, whether a challenge is live, budget closed
    network,    \* datagrams in flight
    lost,       \* datagrams a reliable network has lost
    restarts,   \* how many restarts there were
    signedUpTo  \* history: the highest round each member ever signed in

vars == << me, server, network, lost, restarts, signedUpTo >>

\* Mutant of Fresh: round_done_event is not cleared between rounds.
FreshStillDone(i, r) ==
    [at |-> IF i = r THEN "challenge" ELSE "listen",
     round |-> r, nonce |-> None, signatures |-> [j \in {} |-> None],
     round_done |-> me[i].round > 0, signed |-> None, sent |-> 0,
     bundle |-> [j \in {} |-> None]]

\* A member that enters round r.  at is the await the coroutine is at, round to
\* round_done are the attributes _reset_round clears, the others are local: the
\* nonce signed, the copies fired, the bundle.  nonce_event is set exactly when
\* nonce is, and sigs_event when all the signatures are there.
Fresh(i, r) ==
    [at |-> IF i = r THEN "challenge" ELSE "listen",
     round |-> r, nonce |-> None, signatures |-> [j \in {} |-> None],
     round_done |-> FALSE, signed |-> None, sent |-> 0,
     bundle |-> [j \in {} |-> None]]

Booted == [at |-> "peers", round |-> 0, nonce |-> None,
           signatures |-> [j \in {} |-> None],
           round_done |-> FALSE, signed |-> None, sent |-> 0,
           bundle |-> [j \in {} |-> None]]

Init ==
    /\ me = [i \in Member |-> Booted]
    /\ server = [recorded |-> 0, live |-> FALSE, closed |-> FALSE]
    /\ network = {}
    /\ lost = 0
    /\ restarts = 0
    /\ signedUpTo = [i \in Member |-> 0]

-----------------------------------------------------------------------------
(* The coroutine *)

Request(i) == [type |-> "ChallengeRequest", src |-> i, dst |-> Server]

Share(i, j) == [type |-> "NonceShare", src |-> i, dst |-> j,
                round |-> me[i].round, nonce |-> me[i].nonce]

Copy(i, nonce, k) ==
    [type |-> "SignatureShare", src |-> i, dst |-> me[i].round,
     round |-> me[i].round, signature |-> nonce, copy |-> k]

Bundle(i, signatures) ==
    [type |-> "SignatureBundle", src |-> i, dst |-> Server,
     round |-> me[i].round, signatures |-> signatures]

Send(out) == network' = network \cup out

\* The next iteration of run_rounds: reset, and in its own round the member
\* asks for the challenge at once.
Enter(i, r) ==
    /\ me' = [me EXCEPT ![i] = Fresh(i, r)]
    /\ Send(IF i = r THEN {Request(i)} ELSE {})

NextRound(i) ==
    IF me[i].round < N THEN Enter(i, me[i].round + 1)
    ELSE me' = [me EXCEPT ![i].at = "done"] /\ Send({})

\* _wait_for_peers returns.
Start(i) == me[i].at = "peers" /\ Enter(i, 1)

\* A one second timer of i, started when it sent to others, may run out.
Elapsed(i, others) ==
    Prompt => \A m \in network, p \in others : {m.src, m.dst} # {i, p}

\* A second passed without a nonce.
RequestAgain(i) ==
    /\ me[i].at = "challenge"
    /\ Elapsed(i, {Server})
    /\ me[i].nonce = None /\ ~ me[i].round_done
    /\ Send({Request(i)})
    /\ UNCHANGED me

\* A verdict that came before the nonce ends the round.
GiveUp(i) ==
    /\ me[i].at = "challenge"
    /\ me[i].round_done
    /\ NextRound(i)

\* Mutant of Complete: off by one.
AlmostComplete(signatures) == Cardinality(DOMAIN signatures) >= N - 1

Complete(signatures) == Cardinality(DOMAIN signatures) = N

\* signatures with the one of j set.
With(signatures, j, nonce) ==
    [k \in DOMAIN signatures \cup {j} |-> IF k = j THEN nonce ELSE signatures[k]]

\* The nonce is there: share it, sign, and submit at once when the signatures of
\* the others came first.
ShareNonce(i) ==
    LET signatures == With(me[i].signatures, i, me[i].nonce)
        shares     == {Share(i, j) : j \in Member \ {i}}
        signing    == [me[i] EXCEPT !.signed = me[i].nonce, !.signatures = signatures]
    IN  /\ me[i].at = "challenge"
        /\ me[i].nonce # None /\ ~ me[i].round_done
        /\ IF Complete(signatures)
           THEN /\ me' = [me EXCEPT ![i] = [signing EXCEPT !.at = "submit",
                                                          !.bundle = signatures]]
                /\ Send(shares \cup {Bundle(i, signatures)})
           ELSE /\ me' = [me EXCEPT ![i] = [signing EXCEPT !.at = "collect"]]
                /\ Send(shares)

\* Mutant of Missing: asks those that have answered.
Present(i) == DOMAIN me[i].signatures \ {i}

Missing(i) == Member \ DOMAIN me[i].signatures

\* A second passed without the last signature: ask those that are missing.
CollectAgain(i) ==
    /\ me[i].at = "collect"
    /\ Elapsed(i, Missing(i))
    /\ Missing(i) # {}
    /\ Send({Share(i, j) : j \in Missing(i)})
    /\ UNCHANGED me

\* All signatures are there: submit, unless a verdict came already.
Submit(i) ==
    /\ me[i].at = "collect"
    /\ Complete(me[i].signatures)
    /\ IF me[i].round_done THEN NextRound(i)
       ELSE /\ me' = [me EXCEPT ![i].at = "submit", ![i].bundle = me[i].signatures]
            /\ Send({Bundle(i, me[i].signatures)})

\* A second passed without a verdict.
SubmitAgain(i) ==
    /\ me[i].at = "submit"
    /\ Elapsed(i, {Server})
    /\ ~ me[i].round_done
    /\ Send({Bundle(i, me[i].bundle)})
    /\ UNCHANGED me

Submitted(i) ==
    /\ me[i].at = "submit"
    /\ me[i].round_done
    /\ NextRound(i)

\* A signer has the nonce: sign once and fire the first copy.
Sign(i) ==
    /\ me[i].at = "listen"
    /\ me[i].nonce # None
    /\ me' = [me EXCEPT ![i].at = "fire", ![i].signed = me[i].nonce, ![i].sent = 1]
    /\ Send({Copy(i, me[i].nonce, 1)})

\* Mutant of MoreToFire: one copy too many.
OneMoreToFire(i) == me[i].sent <= Copies

MoreToFire(i) == me[i].sent < Copies

\* 50 ms later: the next copy, or the next round.
Fire(i) ==
    /\ me[i].at = "fire"
    /\ IF MoreToFire(i)
       THEN /\ me' = [me EXCEPT ![i].sent = @ + 1]
            /\ Send({Copy(i, me[i].signed, me[i].sent + 1)})
       ELSE NextRound(i)

\* The round in which the member s has signed a nonce, whichever nonce it was.
SignedIn(s) == IF s.signed = None THEN 0 ELSE s.round

Drive(i) ==
    /\ \/ Start(i) \/ RequestAgain(i) \/ GiveUp(i) \/ ShareNonce(i)
       \/ CollectAgain(i) \/ Submit(i) \/ SubmitAgain(i) \/ Submitted(i)
       \/ Sign(i) \/ Fire(i)
    /\ signedUpTo' = [signedUpTo EXCEPT ![i] = IF @ < SignedIn(me'[i])
                                              THEN SignedIn(me'[i]) ELSE @]
    /\ UNCHANGED << server, lost, restarts >>

\* The program is started again: nothing of its state was kept.
Restart(i) ==
    /\ me[i].at # "peers"
    /\ restarts < MaxRestarts
    /\ me' = [me EXCEPT ![i] = Booted]
    /\ restarts' = restarts + 1
    /\ UNCHANGED << server, network, lost, signedUpTo >>

-----------------------------------------------------------------------------
(* The handlers *)

\* Mutant of OfThisRound: the round is not looked at.
OfAnyRound(i, m) == TRUE

OfThisRound(i, m) == m.round = me[i].round

on_challenge_response(i, m) ==
    /\ m.type = "ChallengeResponse"
    /\ OfThisRound(i, m)
    /\ me' = [me EXCEPT ![i].nonce = m.nonce]

on_nonce_share(i, m) ==
    /\ m.type = "NonceShare"
    /\ OfThisRound(i, m)
    /\ me' = [me EXCEPT ![i].nonce = m.nonce]

on_signature_share(i, m) ==
    /\ m.type = "SignatureShare"
    /\ OfThisRound(i, m)
    /\ me' = [me EXCEPT ![i].signatures = With(@, m.src, m.signature)]

on_round_result(i, m) ==
    /\ m.type = "RoundResult"
    /\ me' = [me EXCEPT ![i].round_done = TRUE]

\* The early return of the three handlers that check the round.
OtherRound(i, m) ==
    /\ m.type # "RoundResult"
    /\ ~ OfThisRound(i, m)
    /\ UNCHANGED me

Handled(m) == IF Reliable THEN network \ {m} ELSE network

Receive(i, m) ==
    /\ \/ on_challenge_response(i, m) \/ on_nonce_share(i, m)
       \/ on_signature_share(i, m) \/ on_round_result(i, m)
       \/ OtherRound(i, m)
    /\ network' = Handled(m)
    /\ UNCHANGED << server, lost, restarts, signedUpTo >>

-----------------------------------------------------------------------------
(* The server and the network, from how signer.py uses them *)

Result(i, ok) == [type |-> "RoundResult", src |-> Server, dst |-> i, success |-> ok]

\* A request is answered with the live round's nonce, with a rejection when all
\* rounds are recorded, and not at all when the budget is closed.
Challenge(m) ==
    LET reply == [type |-> "ChallengeResponse", src |-> Server, dst |-> m.src,
                  round |-> server.recorded + 1, nonce |-> server.recorded + 1]
    IN  /\ m.type = "ChallengeRequest"
        /\ \/ /\ server.closed
              /\ network' = Handled(m)
              /\ UNCHANGED server
           \/ /\ ~ server.closed /\ server.recorded = N
              /\ network' = Handled(m) \cup {Result(m.src, FALSE)}
              /\ UNCHANGED server
           \/ /\ ~ server.closed /\ server.recorded < N
              /\ network' = Handled(m) \cup {reply}
              /\ server' = [server EXCEPT !.live = TRUE]

Verifies(m) ==
    /\ DOMAIN m.signatures = Member
    /\ \A j \in Member : m.signatures[j] = server.recorded + 1

\* A bundle is recorded or rejected; either way its sender gets a verdict.
Judge(m) ==
    LET accepted == /\ server.live /\ ~ server.closed
                    /\ m.round = server.recorded + 1
                    /\ Verifies(m)
    IN  /\ m.type = "SignatureBundle"
        /\ network' = Handled(m) \cup {Result(m.src, accepted)}
        /\ server' = IF accepted
                     THEN [server EXCEPT !.recorded = @ + 1, !.live = FALSE]
                     ELSE server

Expire ==
    /\ Budget
    /\ ~ server.closed
    /\ server.live \/ server.recorded \in 1 .. N - 1
    /\ server' = [server EXCEPT !.closed = TRUE]
    /\ UNCHANGED << me, network, lost, restarts, signedUpTo >>

Lose(m) ==
    /\ Reliable
    /\ lost < MaxLoss
    /\ network' = network \ {m}
    /\ lost' = lost + 1
    /\ UNCHANGED << me, server, restarts, signedUpTo >>

Serve(m) ==
    /\ Challenge(m) \/ Judge(m)
    /\ UNCHANGED << me, lost, restarts, signedUpTo >>

Deliver(p, q) ==
    \E m \in network :
        /\ m.src = p /\ m.dst = q
        /\ IF q = Server THEN Serve(m) ELSE Receive(q, m)

Next ==
    \/ \E i \in Member : Drive(i) \/ Restart(i)
    \/ \E p, q \in Member \cup {Server} : Deliver(p, q)
    \/ \E m \in network : Lose(m)
    \/ Expire

Spec == Init /\ [][Next]_vars

\* Every timer fires, every coroutine that can go on does, and on every link
\* what is not lost arrives.
Fairness ==
    /\ \A i \in Member : WF_vars(Drive(i))
    /\ \A p, q \in Member \cup {Server} : WF_vars(Deliver(p, q))

FairSpec == Spec /\ Fairness

-----------------------------------------------------------------------------
(* Properties *)

\* Every variable has the type the code gives it, and no flow fires more
\* copies than it should.
TypeOK ==
    /\ me \in [Member ->
                 [at : {"peers", "challenge", "listen", "collect", "submit",
                        "fire", "done"},
                  round : 0 .. N, nonce : 0 .. N, signatures : Signatures,
                  round_done : BOOLEAN, signed : 0 .. N, sent : 0 .. Copies,
                  bundle : Signatures]]
    /\ server \in [recorded : 0 .. N, live : BOOLEAN, closed : BOOLEAN]
    /\ network \in SUBSET Message
    /\ lost \in 0 .. MaxLoss
    /\ restarts \in 0 .. MaxRestarts
    /\ signedUpTo \in [Member -> 0 .. N]

\* A bundle, whenever it was put together and however often its parts were
\* repeated or delayed, comes from the round's own member and verifies: it
\* holds everybody's signature over that round's nonce, though the early
\* request of a member ahead of the server is answered with an older nonce.
BundlesVerify ==
    \A m \in network : m.type = "SignatureBundle" =>
        m.src = m.round /\ m.signatures = [j \in Member |-> m.round]

\* While the budget lasts, a member leaves the round it submits only when the
\* server has recorded it: signer.py:313, "bundle and submit until the server
\* confirms the round", although late and repeated verdicts all look the same.
LeavesConfirmed ==
    ~ server.closed =>
        \A i \in Member :
            me[i].round > i \/ me[i].at = "done" => server.recorded >= i

\* The members go through the rounds in step with each other and the server:
\* signing a round again after a restart is a step the promise does not see,
\* and a restarted member never signs ahead of the others.
Abstract == INSTANCE GroupSigning WITH
    signed   <- signedUpTo,
    recorded <- server.recorded

ImplementsGroupSigning == Abstract!Spec

\* When fewer datagrams are lost than copies are fired and timers outlast round
\* trips, every member gets through every round, or the budget runs out.
EverybodyFinishes == <>(server.closed \/ \A i \in Member : me[i].at = "done")

-----------------------------------------------------------------------------
(* What the repository says of the code and the code does not do.          *)

\* signer.py:300, "collect missing teammate signatures with a one second retry
\* per gap": a submitter with a missing signature comes to have it.
EveryGapCloses ==
    \A i \in Member : me[i].at = "collect" ~> me[i].at # "collect"

\* signer.py:328, "block until the submitter shares the round nonce": nobody
\* fires a signature for a round before its submitter has shared the nonce.
SignsWhatWasShared ==
    \A i \in Member : me[i].at = "fire" =>
        LET s == me[me[i].round]
        IN  \/ s.round > me[i].round
            \/ s.round = me[i].round /\ s.at # "challenge"

=============================================================================
