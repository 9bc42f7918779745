------------------------------ MODULE Lab1Proofs ------------------------------
(***************************************************************************)
(* Proofs about the search of MinerWorkers and the client of Lab1Client,   *)
(* for every number of workers, every hash function and polling period,    *)
(* and any number of losses.                                               *)
(***************************************************************************)
EXTENDS Lab1Client, TLAPS

-----------------------------------------------------------------------------
(* Remainders *)

\* Consecutive multiples are one divisor apart.
LEMMA Multiples ==
    ASSUME NEW N \in Nat \ {0}, NEW p \in Int, NEW q \in Int, p < q
    PROVE  N * p + N <= N * q
<1>1. q >= p + 1
  OBVIOUS
<1>2. N * (q - (p + 1)) >= 0
  BY <1>1
<1>3. N * (q - (p + 1)) = N * q - N * p - N
  OBVIOUS
<1> QED  BY <1>2, <1>3

\* Quotient and remainder.
LEMMA Division ==
    ASSUME NEW N \in Nat \ {0}, NEW a \in Nat
    PROVE  /\ a % N \in 0 .. N - 1
           /\ a \div N \in Int
           /\ N * (a \div N) \in Int
           /\ a = N * (a \div N) + (a % N)
<1>1. a % N \in 0 .. N - 1
  OBVIOUS
<1>2. a = N * (a \div N) + (a % N)
  OBVIOUS
<1>3. a \div N \in Int
  OBVIOUS
<1>4. N * (a \div N) \in Int
  BY <1>3
<1> QED  BY <1>1, <1>2, <1>3, <1>4

\* The remainder is unique.
LEMMA Remainder ==
    ASSUME NEW N \in Nat \ {0}, NEW a \in Nat, NEW q \in Int, NEW r \in 0 .. N - 1,
           a = N * q + r
    PROVE  a % N = r
<1> DEFINE p == a \div N
           t == a % N
<1>1. /\ p \in Int /\ t \in 0 .. N - 1
      /\ N * p \in Int /\ a = N * p + t
  BY Division
<1>2. N * q \in Int
  OBVIOUS
<1> HIDE DEF p, t
<1>3. CASE p < q
  <2>1. N * p + N <= N * q
    BY <1>1, <1>3, Multiples
  <2> QED  BY <1>1, <1>2, <2>1
<1>4. CASE q < p
  <2>1. N * q + N <= N * p
    BY <1>1, <1>4, Multiples
  <2> QED  BY <1>1, <1>2, <2>1
<1>5. CASE p = q
  BY <1>1, <1>2, <1>5 DEF t
<1> QED  BY <1>1, <1>3, <1>4, <1>5

\* One step along a stride stays on it, and skips no number of the stride.
LEMMA StrideStep ==
    ASSUME NEW N \in Nat \ {0}, NEW a \in Nat
    PROVE  /\ (a + N) % N = a % N
           /\ \A e \in Nat : e % N = a % N /\ a < e => a + N <= e
<1> DEFINE q == a \div N
           r == a % N
<1>1. q \in Int /\ r \in 0 .. N - 1 /\ N * q \in Int /\ a = N * q + r
  BY Division
<1> HIDE DEF q, r
<1>2. (a + N) % N = r
  <2>1. N * (q + 1) = N * q + N
    BY <1>1
  <2>2. a + N = N * (q + 1) + r /\ a + N \in Nat /\ q + 1 \in Int
    BY <1>1, <2>1
  <2> QED  BY <1>1, <2>2, Remainder
<1>3. ASSUME NEW e \in Nat, e % N = r, a < e
      PROVE  a + N <= e
  <2> DEFINE k == e \div N
  <2>1. k \in Int /\ N * k \in Int /\ e = N * k + r
    BY <1>3, Division
  <2> HIDE DEF k
  <2>2. ~ k = q
    BY <1>1, <1>3, <2>1
  <2>3. ~ k < q
    <3>1. SUFFICES ASSUME k < q
                   PROVE  FALSE
      OBVIOUS
    <3>2. N * k + N <= N * q
      BY <1>1, <2>1, <3>1, Multiples
    <3> QED  BY <1>1, <1>3, <2>1, <3>2
  <2>4. N * q + N <= N * k
    BY <1>1, <2>1, <2>2, <2>3, Multiples
  <2> QED  BY <1>1, <2>1, <2>4
<1> QED  BY <1>2, <1>3 DEF r

-----------------------------------------------------------------------------
(* The inductive invariant *)

Searching == parent \in {"starting", "waiting"}

\* The queue and the feeders' boxes are what their names say, nobody was told
\* to die before the parent read an answer, and a nonce in a box is that of
\* its worker.
Typed ==
    /\ num_workers \in Nat \ {0}
    /\ at \in [Worker -> {"unborn", "searching", "found", "leaving", "won", "stopped", "terminated"}]
    /\ outbox \in [Worker -> SUBSET Nat]
    /\ nonce \in [Worker -> Nat]
    /\ result_queue \in Seq(Nat)
    /\ good \subseteq Nat
    /\ result \subseteq Nat
    /\ Searching => killed = {}

\* Until the parent reads, a worker that found a nonce has it in its box, or
\* the queue holds one.
FoundUnderway ==
    Searching => \A w \in Worker :
        at[w] \in {"found", "leaving", "won"} => result_queue # << >> \/ outbox[w] # {}

\* n is good, and the least good nonce of its stride.
Least(n) ==
    /\ n \in good
    /\ \A e \in good : e % num_workers = n % num_workers => n <= e

\* Every worker is on its own stride and has passed no good nonce of it.
Swept ==
    \A w \in Worker :
        /\ nonce[w] % num_workers = w
        /\ \A e \in good : e % num_workers = w => nonce[w] <= e

\* Whatever was put, written or read is the least of its stride.
AllLeast ==
    /\ \A w \in Worker : \A n \in outbox[w] : Least(n)
    /\ \A i \in DOMAIN result_queue : Least(result_queue[i])
    /\ \A n \in result : Least(n)

IInv ==
    /\ Typed
    /\ FoundUnderway /\ AnswerUnderway
    /\ Swept /\ AllLeast

\* Nothing is found yet.
LEMMA InitHolds == MinerInit => IInv
<1> SUFFICES ASSUME MinerInit
             PROVE  IInv
  OBVIOUS
<1>1. num_workers \in Nat \ {0} /\ good \subseteq Nat
  BY MinerAssumption DEF MinerInit
<1>2. \A w \in Worker : FirstNonce(w) = w /\ w \in Nat /\ w < num_workers
  BY <1>1 DEF Worker, FirstNonce
<1>3. Typed /\ FoundUnderway /\ AnswerUnderway
  BY <1>1, <1>2 DEF MinerInit, Typed, FoundUnderway, AnswerUnderway, Searching
<1>4. \A w \in Worker : nonce[w] = w
  BY <1>2 DEF MinerInit
<1>5. Swept
  <2>1. ASSUME NEW w \in Worker
        PROVE  /\ nonce[w] % num_workers = w
               /\ \A e \in good : e % num_workers = w => nonce[w] <= e
    <3>1. w % num_workers = w
      BY <1>1, <1>2
    <3>2. ASSUME NEW e \in good, e % num_workers = w
          PROVE  w <= e
      <4>1. e \in Nat
        BY <1>1
      <4>2. ~ e < w
        <5>1. SUFFICES ASSUME e < w
                       PROVE  FALSE
          BY <4>1
        <5>2. e \in 0 .. num_workers - 1
          BY <1>1, <1>2, <4>1, <5>1
        <5>3. e % num_workers = e
          BY <1>1, <5>2
        <5> QED  BY <1>2, <3>2, <4>1, <5>1, <5>3
      <4> QED  BY <1>2, <4>1, <4>2
    <3> QED  BY <1>4, <3>1, <3>2
  <2> QED  BY <2>1 DEF Swept
<1>6. AllLeast
  <2>1. DOMAIN << >> = {}
    OBVIOUS
  <2> QED  BY <2>1 DEF MinerInit, AllLeast
<1> QED  BY <1>3, <1>5, <1>6 DEF IInv

\* A nonce that was missed is followed by the next of the stride.
LEMMA MissHolds ==
    ASSUME IInv, NEW w \in Worker, Miss(w)
    PROVE  IInv'
<1> DEFINE next == nonce[w] + num_workers
<1>1. /\ num_workers \in Nat \ {0} /\ nonce[w] \in Nat /\ next \in Nat
      /\ good \subseteq Nat /\ w \in Nat
  BY DEF IInv, Typed, Worker
<1>2. /\ nonce' = [nonce EXCEPT ![w] = next]
      /\ at' = [at EXCEPT ![w] = IF Polls(next) THEN "stopped" ELSE at[w]]
      /\ at[w] = "searching" /\ nonce[w] \notin good
      /\ UNCHANGED << num_workers, good, outbox, result_queue, stop_event, killed,
                      parent, result >>
  BY DEF Miss, IInv, Typed
<1>3. Worker' = Worker
  BY <1>2 DEF Worker
<1>4. next % num_workers = w /\ \A e \in good : e % num_workers = w => next <= e
  <2>1. nonce[w] % num_workers = w /\ \A e \in good : e % num_workers = w => nonce[w] <= e
    BY DEF IInv, Swept
  <2>2. next % num_workers = nonce[w] % num_workers
    BY <1>1, StrideStep
  <2>3. ASSUME NEW e \in good, e % num_workers = w
        PROVE  next <= e
    <3>1. e \in Nat /\ nonce[w] <= e /\ e # nonce[w]
      BY <1>1, <1>2, <2>1, <2>3
    <3>2. nonce[w] < e
      BY <1>1, <3>1
    <3> QED  BY <1>1, <2>1, <2>3, <3>1, <3>2, StrideStep
  <2> QED  BY <2>1, <2>2, <2>3
<1> HIDE DEF next
<1>5. Typed' /\ FoundUnderway' /\ AnswerUnderway'
  BY <1>1, <1>2, <1>3 DEF IInv, Typed, FoundUnderway, AnswerUnderway, Searching
<1>6. Swept'
  <2>1. ASSUME NEW v \in Worker
        PROVE  /\ nonce'[v] % num_workers = v
               /\ \A e \in good : e % num_workers = v => nonce'[v] <= e
    <3>1. CASE v = w
      <4>1. nonce'[v] = next
        BY <1>2, <3>1 DEF IInv, Typed
      <4> QED  BY <1>4, <3>1, <4>1
    <3>2. CASE v # w
      <4>1. nonce'[v] = nonce[v]
        BY <1>2, <3>2 DEF IInv, Typed
      <4> QED  BY <4>1 DEF IInv, Swept
    <3> QED  BY <3>1, <3>2
  <2> QED  BY <1>2, <1>3, <2>1 DEF Swept
<1>7. AllLeast'
  BY <1>2, <1>3 DEF IInv, AllLeast, Least
<1> QED  BY <1>5, <1>6, <1>7 DEF IInv

\* Every step of a worker or of the parent keeps the invariant.
LEMMA NextHolds ==
    ASSUME IInv, [MinerNext]_minerVars
    PROVE  IInv'
<1> USE DEF IInv, Typed, FoundUnderway, AnswerUnderway, Searching, Swept, AllLeast, Least
<1>1. CASE UNCHANGED minerVars
  BY <1>1 DEF minerVars, Worker
<1>2. ASSUME NEW w \in Worker, Start(w)
      PROVE  IInv'
  BY <1>2 DEF Start, Worker
<1>3. ASSUME NEW w \in Worker, Hit(w)
      PROVE  IInv'
  <2>1. /\ at[w] = "searching" /\ nonce[w] \in good /\ nonce[w] \in Nat
        /\ outbox' = [outbox EXCEPT ![w] = {nonce[w]}]
        /\ at' = [at EXCEPT ![w] = "found"]
        /\ UNCHANGED << num_workers, good, nonce, result_queue, stop_event, killed,
                        parent, result >>
    BY <1>3 DEF Hit
  <2>2. Least(nonce[w])
    BY <2>1
  <2>3. Worker' = Worker
    BY <2>1 DEF Worker
  <2>4. AllLeast'
    BY <2>1, <2>2, <2>3
  <2>5. Typed' /\ FoundUnderway' /\ AnswerUnderway'
    BY <2>1, <2>3
  <2>6. Swept'
    BY <2>1, <2>3
  <2> QED  BY <2>4, <2>5, <2>6
<1>4. ASSUME NEW w \in Worker, Signal(w)
      PROVE  IInv'
  BY <1>4 DEF Signal, Worker
<1>5. ASSUME NEW w \in Worker, Miss(w)
      PROVE  IInv'
  BY <1>5, MissHolds
<1>6. ASSUME NEW w \in Worker, Feed(w)
      PROVE  IInv'
  <2>1. PICK n \in outbox[w] : result_queue' = Append(result_queue, n)
    BY <1>6 DEF Feed
  <2>2. n \in Nat /\ Least(n)
    OBVIOUS
  <2>3. /\ result_queue' \in Seq(Nat) /\ result_queue' # << >>
        /\ \A i \in DOMAIN result_queue' :
               \/ result_queue'[i] = n
               \/ i \in DOMAIN result_queue /\ result_queue'[i] = result_queue[i]
    <3>1. result_queue \in Seq(Nat)
      BY DEF IInv, Typed
    <3> HIDE DEF IInv, Least, AnswerUnderway
    <3> QED  BY <2>1, <2>2, <3>1
  <2>4. /\ outbox' = [outbox EXCEPT ![w] = {}]
        /\ UNCHANGED << num_workers, good, nonce, at, stop_event, killed, parent, result >>
    BY <1>6 DEF Feed
  <2>5. AllLeast'
    BY <2>2, <2>3, <2>4 DEF Worker
  <2> QED  BY <2>3, <2>4, <2>5 DEF Worker
<1>7. ASSUME NEW w \in Worker, Leave(w)
      PROVE  IInv'
  BY <1>7 DEF Leave, Worker
<1>8. ASSUME NEW w \in Worker, Die(w)
      PROVE  IInv'
  BY <1>8 DEF Die, Worker
<1>9. CASE Get
  <2>1. /\ result' = {Head(result_queue)} /\ result_queue' = Tail(result_queue)
        /\ result_queue # << >> /\ parent' = "terminating"
        /\ UNCHANGED << num_workers, good, nonce, at, outbox, stop_event, killed >>
    BY <1>9 DEF Get
  <2>2. /\ Tail(result_queue) \in Seq(Nat)
        /\ Head(result_queue) = result_queue[1] /\ 1 \in DOMAIN result_queue
        /\ \A i \in DOMAIN Tail(result_queue) :
               i + 1 \in DOMAIN result_queue /\ Tail(result_queue)[i] = result_queue[i + 1]
    BY <2>1
  <2>3. AllLeast'
    <3>1. \A i \in DOMAIN result_queue : Least(result_queue[i])
      BY DEF AllLeast
    <3>2. \A i \in DOMAIN Tail(result_queue) : Least(Tail(result_queue)[i])
      <4> HIDE DEF Least, IInv, AllLeast, Typed
      <4> QED  BY <2>2, <3>1
    <3>3. \A n : Least(n) => Least(n)'
      BY <2>1
    <3>4. /\ \A v \in Worker : \A n \in outbox[v] : Least(n)
          /\ \A i \in DOMAIN result_queue' : Least(result_queue'[i])
          /\ \A n \in result' : Least(n)
      <4>1. \A v \in Worker : \A n \in outbox[v] : Least(n)
        BY DEF AllLeast
      <4> HIDE DEF Least, IInv, AllLeast, Typed
      <4> QED  BY <2>1, <2>2, <3>1, <3>2, <4>1
    <3>5. Worker' = Worker /\ outbox' = outbox
      BY <2>1 DEF Worker
    <3> HIDE DEF Least
    <3> QED  BY <3>3, <3>4, <3>5
  <2>4. result' \subseteq Nat
    BY <2>1, <2>2
  <2> QED  BY <2>1, <2>2, <2>3, <2>4 DEF Worker
<1>10. CASE Terminate
  BY <1>10 DEF Terminate, Worker
<1>11. CASE Join
  BY <1>11 DEF Join, Worker
<1> QED
  BY <1>1, <1>2, <1>3, <1>4, <1>5, <1>6, <1>7, <1>8, <1>9, <1>10, <1>11
     DEF MinerNext, Work

\* The client leaves the miner alone.
LEMMA MinerStep ==
    ASSUME [Next]_vars
    PROVE  [MinerNext]_minerVars
  BY DEF Next, vars

-----------------------------------------------------------------------------
(* The client's invariant *)

\* What was bound is good, what is sent was sent by find_and_submit, and the
\* server answers nothing else.
ClientInv ==
    /\ bound \subseteq good
    /\ \A m \in network : m.type \in {"Submission", "Response"}
    /\ SubmitsTheProof
    /\ \A m \in network : m.type = "Submission" => submitted
    /\ \A m \in network : m.type = "Response" /\ m.src = Server => submitted
    /\ DoneMeansSubmitted

\* Nothing is bound or sent yet; the stranger is not the server.
LEMMA ClientInit == Init => ClientInv
<1>1. /\ Response(Stranger).type = "Response" /\ Response(Stranger).src = Stranger
  BY DEF Response
<1> QED
  BY <1>1, PeersAssumption DEF Init, ClientInv, SubmitsTheProof, DoneMeansSubmitted

\* Every step keeps it, while the search returns good nonces only.
LEMMA ClientHolds ==
    ASSUME IInv, ClientInv, [Next]_vars
    PROVE  ClientInv'
<1> USE DEF ClientInv, SubmitsTheProof, DoneMeansSubmitted
<1>1. result \subseteq good
  BY DEF IInv, AllLeast, Least
<1>2. good' = good
  BY DEF Next, vars, minerVars, MinerNext, Start, Work, Hit, Signal, Miss, Leave, Feed, Die,
         Get, Terminate, Join
<1>3. CASE UNCHANGED clientVars
  BY <1>2, <1>3 DEF clientVars
<1>4. CASE Boot
  BY <1>2, <1>4 DEF Boot
<1>5. CASE Bind
  BY <1>1, <1>2, <1>5 DEF Bind
<1>6. CASE find_and_submit
  <2>1. Submission(bound).type = "Submission" /\ Submission(bound).nonce = bound
    BY DEF Submission
  <2> QED  BY <1>2, <1>6, <2>1 DEF find_and_submit, MaySubmit
<1>7. CASE Stop
  BY <1>2, <1>7 DEF Stop
<1>8. ASSUME NEW p \in {Server, Stranger}, Meet(p)
      PROVE  ClientInv'
  BY <1>2, <1>8 DEF Meet
<1>9. ASSUME NEW m \in network, on_response(m)
      PROVE  ClientInv'
  BY <1>2, <1>9 DEF on_response, Heeds
<1>10. ASSUME NEW m \in network, Answer(m)
       PROVE  ClientInv'
  <2>1. Response(Server).type = "Response" /\ Response(Server).src = Server
    BY DEF Response
  <2> QED  BY <1>2, <1>10, <2>1 DEF Answer
<1>11. ASSUME NEW m \in network, Lose(m)
       PROVE  ClientInv'
  BY <1>2, <1>11 DEF Lose
<1> QED
  BY <1>3, <1>4, <1>5, <1>6, <1>7, <1>8, <1>9, <1>10, <1>11
     DEF Next, ClientStep, vars

\* Both invariants hold throughout.
LEMMA Invariant == Spec => [](IInv /\ ClientInv)
<1>1. Init => IInv /\ ClientInv
  BY InitHolds, ClientInit DEF Init
<1>2. IInv /\ ClientInv /\ [Next]_vars => IInv' /\ ClientInv'
  BY MinerStep, NextHolds, ClientHolds
<1> QED  BY <1>1, <1>2, PTL DEF Spec

-----------------------------------------------------------------------------
(* The theorems *)

\* The stop event is never set without an answer in the queue or with a
\* feeder, so it cannot send everybody home while the parent waits.
THEOREM AnswerAlwaysUnderway == Spec => []AnswerUnderway
<1>1. IInv => AnswerUnderway
  BY DEF IInv
<1> QED  BY <1>1, Invariant, PTL

\* What the parent returns is good, and no worker skipped a smaller good nonce
\* of the same stride.
THEOREM ReturnsLeastOfItsStride == Spec => []LeastOfItsStride
<1>1. IInv => LeastOfItsStride
  BY DEF IInv, AllLeast, Least, LeastOfItsStride
<1> QED  BY <1>1, Invariant, PTL

\* Only a nonce that meets the target ever goes to the server, whenever the
\* task first ticks.
THEOREM SubmitsOnlyProofs == Spec => []SubmitsTheProof
<1>1. ClientInv => SubmitsTheProof
  BY DEF ClientInv
<1> QED  BY <1>1, Invariant, PTL

\* No response of another peer ends the program.
THEOREM EndsOnlyAfterSubmitting == Spec => []DoneMeansSubmitted
<1>1. ClientInv => DoneMeansSubmitted
  BY DEF ClientInv
<1> QED  BY <1>1, Invariant, PTL

=============================================================================
