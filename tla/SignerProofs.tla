---------------------------- MODULE SignerProofs ----------------------------
(***************************************************************************)
(* Theorems of Signer, for every number of members and copies, either kind *)
(* of network, any number of losses, with and without a budget.            *)
(***************************************************************************)
EXTENDS Signer, FiniteSetTheorems, TLAPS

-----------------------------------------------------------------------------
(* The inductive invariant *)

MemberState ==
    [at : {"peers", "challenge", "listen", "collect", "submit", "fire", "done"},
     round : 0 .. N, nonce : 0 .. N, signatures : Signatures,
     round_done : BOOLEAN, signed : 0 .. N, sent : 0 .. Copies,
     bundle : Signatures]

ServerState == [recorded : 0 .. N, live : BOOLEAN, closed : BOOLEAN]

\* Whatever names a round beside a nonce or a signature names the right one.
Truthful(m) ==
    /\ m.type \in {"ChallengeResponse", "NonceShare"} => m.nonce = m.round
    /\ m.type = "SignatureShare" => m.signature = m.round
    /\ m.type = "SignatureBundle" =>
           m.src = m.round /\ m.signatures = [j \in Member |-> m.round]

\* All a member holds is about the round it is in, and it takes the part in
\* that round that its index gives it.
InStep(i, s) ==
    /\ s.nonce \in {None, s.round}
    /\ s.signed \in {None, s.round}
    /\ \A j \in DOMAIN s.signatures : s.signatures[j] = s.round
    /\ s.at \in {"challenge", "collect", "submit"} => s.round = i
    /\ s.at \in {"listen", "fire"} => s.round \in Round
    /\ s.at = "collect" => s.nonce = s.round
    /\ s.at = "fire" => s.signed = s.round
    /\ s.at = "submit" => s.bundle = [j \in Member |-> s.round]

MembersInv == \A i \in Member : me[i] \in MemberState /\ InStep(i, me[i])

NetworkInv == \A m \in network : m \in Message /\ Truthful(m)

CountersInv ==
    /\ lost \in 0 .. MaxLoss
    /\ restarts \in 0 .. MaxRestarts
    /\ signedUpTo \in [Member -> 0 .. N]

Inv ==
    /\ me = [i \in Member |-> me[i]] /\ MembersInv
    /\ server \in ServerState
    /\ NetworkInv
    /\ CountersInv

-----------------------------------------------------------------------------
(* Members and datagrams *)

\* One member moves to a sound state, and the others stay.
LEMMA MemberMoves ==
    ASSUME Inv, NEW i \in Member, NEW s \in MemberState, InStep(i, s),
           me' = [me EXCEPT ![i] = s]
    PROVE  me' = [j \in Member |-> me'[j]] /\ MembersInv'
<1>1. me = [j \in Member |-> me[j]]
  BY DEF Inv
<1>2. me' = [j \in Member |-> IF j = i THEN s ELSE me[j]]
  BY <1>1
<1>3. \A j \in Member : me'[j] = IF j = i THEN s ELSE me[j]
  BY <1>2
<1>4. me' = [j \in Member |-> me'[j]]
  BY <1>2, <1>3
<1>5. ASSUME NEW j \in Member PROVE me'[j] \in MemberState /\ InStep(j, me'[j])
  BY <1>3, <1>5 DEF Inv, MembersInv
<1> QED  BY <1>4, <1>5 DEF MembersInv, MemberState, Signatures, Round, Member, InStep, None

\* Nobody moves.
LEMMA MembersStay ==
    ASSUME Inv, UNCHANGED me
    PROVE  me' = [j \in Member |-> me'[j]] /\ MembersInv'
  BY DEF Inv, MembersInv, MemberState, Signatures, Round, Member, InStep, None

\* Truthful datagrams join the network.
LEMMA NetworkGrows ==
    ASSUME Inv, NEW out, \A m \in out : m \in Message /\ Truthful(m),
           network' \subseteq network \cup out
    PROVE  NetworkInv'
  BY DEF Inv, NetworkInv, Message, Truthful, Signatures, Round, Member, Server

\* A set of signatures over one round, extended by another one.
LEMMA WithFacts ==
    ASSUME NEW sigs \in Signatures, NEW j \in Member, NEW r \in Round,
           \A k \in DOMAIN sigs : sigs[k] = r
    PROVE  /\ With(sigs, j, r) \in Signatures
           /\ \A k \in DOMAIN With(sigs, j, r) : With(sigs, j, r)[k] = r
<1>1. PICK S \in SUBSET Member : sigs \in [S -> Round]
  BY DEF Signatures
<1>2. With(sigs, j, r) = [k \in S \cup {j} |-> r]
  BY <1>1 DEF With
<1>3. With(sigs, j, r) \in [S \cup {j} -> Round]
  BY <1>2
<1>4. S \cup {j} \in SUBSET Member
  OBVIOUS
<1> QED  BY <1>2, <1>3, <1>4 DEF Signatures

\* As many signatures as members are the signatures of all members.
LEMMA CompleteFacts ==
    ASSUME SignerAssumption, NEW sigs \in Signatures, NEW r \in Round,
           \A k \in DOMAIN sigs : sigs[k] = r, Complete(sigs)
    PROVE  sigs = [k \in Member |-> r]
<1>1. PICK S \in SUBSET Member : sigs \in [S -> Round]
  BY DEF Signatures
<1>2. IsFiniteSet(Member) /\ Cardinality(Member) = N
  BY FS_Interval DEF Member, SignerAssumption
<1>3. S = Member
  BY <1>1, <1>2, FS_Subset DEF Complete
<1> QED  BY <1>1, <1>3

\* No signatures are signatures.
LEMMA NoSignatures == [j \in {} |-> None] \in Signatures
<1>1. [j \in {} |-> None] \in [{} -> Round]
  OBVIOUS
<1> QED  BY <1>1 DEF Signatures

-----------------------------------------------------------------------------
(* The initial state *)

\* The state of a program that starts.
LEMMA BootedFacts ==
    ASSUME SignerAssumption
    PROVE  Booted \in MemberState /\ \A i \in Member : InStep(i, Booted)
<1>1. Booted \in MemberState
  BY NoSignatures DEF Booted, MemberState, SignerAssumption, None
<1>2. \A i \in Member : InStep(i, Booted)
  BY DEF Booted, InStep
<1> QED  BY <1>1, <1>2

\* Inv holds at boot.
LEMMA InitInv == ASSUME SignerAssumption, Init PROVE Inv
  BY BootedFacts DEF Init, Inv, MembersInv, NetworkInv, CountersInv, ServerState,
                    SignerAssumption

-----------------------------------------------------------------------------
(* The coroutine *)

\* What a step of a member or of the network leaves true of both.
StaySound ==
    me' = [i \in Member |-> me'[i]] /\ MembersInv' /\ NetworkInv'

\* A member enters a round.
LEMMA EnterSound ==
    ASSUME SignerAssumption, Inv, NEW i \in Member, NEW r \in Round, Enter(i, r)
    PROVE  StaySound
<1>1. Fresh(i, r) \in MemberState
  BY NoSignatures DEF Fresh, MemberState, Round, SignerAssumption, None
<1>2. InStep(i, Fresh(i, r))
  BY DEF Fresh, InStep, None
<1>3. me' = [j \in Member |-> me'[j]] /\ MembersInv'
  BY <1>1, <1>2, MemberMoves DEF Enter
<1>4. Request(i) \in Message /\ Truthful(Request(i))
  BY DEF Request, Message, Truthful
<1>5. NetworkInv'
  <2> DEFINE out == IF i = r THEN {Request(i)} ELSE {}
  <2>1. network' = network \cup out
    BY DEF Enter, Send
  <2>2. \A m \in out : m \in Message /\ Truthful(m)
    BY <1>4
  <2> HIDE DEF out
  <2> QED  BY <2>1, <2>2, NetworkGrows
<1> QED  BY <1>3, <1>5 DEF StaySound

\* What a member knows of its state.
LEMMA StateFacts ==
    ASSUME Inv, NEW i \in Member
    PROVE  /\ me[i] \in MemberState
           /\ InStep(i, me[i])
           /\ Member = Round
  BY DEF Inv, MembersInv, Member, Round

\* The round of a member that has one.
LEMMA InARound ==
    ASSUME SignerAssumption, Inv, NEW i \in Member, me[i].at \notin {"peers", "done"}
    PROVE  me[i].round \in Round
  BY StateFacts DEF MemberState, InStep

\* A member goes on to the next round, or is done.
LEMMA NextRoundSound ==
    ASSUME SignerAssumption, Inv, NEW i \in Member, NextRound(i),
           me[i].at \notin {"peers", "done"}
    PROVE  StaySound
<1>1. CASE me[i].round < N
  <2>1. me[i].round + 1 \in Round
    BY <1>1, InARound DEF Round, SignerAssumption
  <2>2. Enter(i, me[i].round + 1)
    BY <1>1 DEF NextRound
  <2> QED  BY <2>1, <2>2, EnterSound
<1>2. CASE ~ (me[i].round < N)
  <2> DEFINE s == [me[i] EXCEPT !.at = "done"]
  <2>1. me' = [me EXCEPT ![i] = s] /\ network' = network \cup {}
    BY <1>2 DEF NextRound, Send
  <2>2. s \in MemberState /\ InStep(i, s)
    BY StateFacts DEF MemberState, InStep
  <2> HIDE DEF s
  <2>3. me' = [j \in Member |-> me'[j]] /\ MembersInv'
    BY <2>1, <2>2, MemberMoves
  <2>4. NetworkInv'
    BY <2>1 DEF Inv, NetworkInv, Message, Truthful, Signatures, Round, Member, Server
  <2> QED  BY <2>3, <2>4 DEF StaySound
<1> QED  BY <1>1, <1>2

\* A member that moves inside its round, and what it sends.
LEMMA MoveSound ==
    ASSUME Inv, NEW i \in Member, NEW s \in MemberState, InStep(i, s),
           me' = [me EXCEPT ![i] = s],
           NEW out, \A m \in out : m \in Message /\ Truthful(m),
           network' = network \cup out
    PROVE  StaySound
<1>1. me' = [j \in Member |-> me'[j]] /\ MembersInv'
  BY MemberMoves
<1>2. NetworkInv'
  BY NetworkGrows
<1> QED  BY <1>1, <1>2 DEF StaySound

\* The shares of a submitter are truthful.
LEMMA ShareFacts ==
    ASSUME SignerAssumption, Inv, NEW i \in Member, NEW j \in Member,
           me[i].nonce \in Round
    PROVE  Share(i, j) \in Message /\ Truthful(Share(i, j))
<1>1. me[i].nonce = me[i].round /\ me[i].round \in Round
  BY StateFacts DEF InStep, None, Round
<1> QED  BY <1>1 DEF Share, Message, Truthful

\* A bundle that is complete is truthful.
LEMMA BundleFacts ==
    ASSUME SignerAssumption, Inv, NEW i \in Member, NEW sigs,
           me[i].round = i, sigs = [k \in Member |-> me[i].round]
    PROVE  /\ sigs \in Signatures
           /\ Bundle(i, sigs) \in Message
           /\ Truthful(Bundle(i, sigs))
<1>1. me[i].round \in Round
  BY StateFacts
<1>2. sigs \in [Member -> Round]
  BY <1>1
<1>3. sigs \in Signatures
  BY <1>2 DEF Signatures
<1>4. Bundle(i, sigs) \in Message
  BY <1>1, <1>3 DEF Bundle, Message
<1>5. Truthful(Bundle(i, sigs))
  BY DEF Bundle, Truthful
<1> QED  BY <1>3, <1>4, <1>5

\* The challenge loop: a request again, a verdict first, or the nonce.
LEMMA RequestAgainSound ==
    ASSUME SignerAssumption, Inv, NEW i \in Member, RequestAgain(i)
    PROVE  StaySound
<1> DEFINE out == {Request(i)}
<1>1. \A m \in out : m \in Message /\ Truthful(m)
  BY DEF Request, Message, Truthful
<1>2. me' = [j \in Member |-> me'[j]] /\ MembersInv'
  BY MembersStay DEF RequestAgain
<1>3. network' = network \cup out
  BY DEF RequestAgain, Send
<1> HIDE DEF out
<1>4. NetworkInv'
  BY <1>1, <1>3, NetworkGrows
<1> QED  BY <1>2, <1>4 DEF StaySound

\* The submitter shares the nonce, signs, and submits if it can.
LEMMA ShareNonceSound ==
    ASSUME SignerAssumption, Inv, NEW i \in Member, ShareNonce(i)
    PROVE  StaySound
<1> DEFINE sigs    == With(me[i].signatures, i, me[i].nonce)
           shares  == {Share(i, j) : j \in Member \ {i}}
           signing == [me[i] EXCEPT !.signed = me[i].nonce, !.signatures = sigs]
<1>1. /\ me[i] \in MemberState
      /\ me[i].at = "challenge" /\ me[i].round = i
      /\ me[i].nonce = i /\ i \in Round
      /\ me[i].signatures \in Signatures
      /\ \A j \in DOMAIN me[i].signatures : me[i].signatures[j] = i
  BY StateFacts DEF ShareNonce, InStep, MemberState
<1>2. sigs \in Signatures /\ \A j \in DOMAIN sigs : sigs[j] = i
  BY <1>1, WithFacts
<1>3. \A m \in shares : m \in Message /\ Truthful(m)
  BY <1>1, ShareFacts
<1>4. CASE Complete(sigs)
  <2> DEFINE s   == [signing EXCEPT !.at = "submit", !.bundle = sigs]
             out == shares \cup {Bundle(i, sigs)}
  <2>1. me' = [me EXCEPT ![i] = s] /\ network' = network \cup out
    BY <1>4 DEF ShareNonce, Send
  <2>2. sigs = [k \in Member |-> i]
    BY <1>1, <1>2, <1>4, CompleteFacts
  <2>3. s \in MemberState /\ InStep(i, s)
    <3> HIDE DEF sigs
    <3> QED  BY <1>1, <1>2, <2>2 DEF MemberState, InStep
  <2>4. \A m \in out : m \in Message /\ Truthful(m)
    BY <1>1, <1>3, <2>2, BundleFacts
  <2> HIDE DEF s, out
  <2> QED  BY <2>1, <2>3, <2>4, MoveSound
<1>5. CASE ~ Complete(sigs)
  <2> DEFINE s == [signing EXCEPT !.at = "collect"]
  <2>1. me' = [me EXCEPT ![i] = s] /\ network' = network \cup shares
    BY <1>5 DEF ShareNonce, Send
  <2>2. s \in MemberState /\ InStep(i, s)
    <3> HIDE DEF sigs
    <3> QED  BY <1>1, <1>2 DEF MemberState, InStep
  <2> HIDE DEF s, shares
  <2> QED  BY <1>3, <2>1, <2>2, MoveSound
<1> QED  BY <1>4, <1>5

\* The collecting loop: a gap is asked for again.
LEMMA CollectAgainSound ==
    ASSUME SignerAssumption, Inv, NEW i \in Member, CollectAgain(i)
    PROVE  StaySound
<1> DEFINE out == {Share(i, j) : j \in Missing(i)}
<1>1. me[i].nonce \in Round
  BY StateFacts DEF CollectAgain, InStep
<1>2. \A m \in out : m \in Message /\ Truthful(m)
  BY <1>1, ShareFacts DEF Missing
<1>3. network' = network \cup out
  BY DEF CollectAgain, Send
<1>4. me' = [j \in Member |-> me'[j]] /\ MembersInv'
  BY MembersStay DEF CollectAgain
<1> HIDE DEF out
<1>5. NetworkInv'
  BY <1>2, <1>3, NetworkGrows
<1> QED  BY <1>4, <1>5 DEF StaySound

\* The last signature is there: the bundle, or the next round.
LEMMA SubmitSound ==
    ASSUME SignerAssumption, Inv, NEW i \in Member, Submit(i)
    PROVE  StaySound
<1>1. CASE me[i].round_done
  <2>1. NextRound(i) /\ me[i].at = "collect"
    BY <1>1 DEF Submit
  <2> QED  BY <2>1, NextRoundSound
<1>2. CASE ~ me[i].round_done
  <2> DEFINE sigs == me[i].signatures
             s    == [me[i] EXCEPT !.at = "submit", !.bundle = sigs]
             out  == {Bundle(i, sigs)}
  <2>1. /\ me' = [me EXCEPT ![i] = s]
        /\ network' = network \cup out
        /\ me[i].at = "collect" /\ Complete(sigs)
    BY <1>2 DEF Submit, Send
  <2>2. /\ me[i] \in MemberState /\ InStep(i, me[i])
        /\ me[i].round = i /\ i \in Round /\ sigs \in Signatures
        /\ \A j \in DOMAIN sigs : sigs[j] = i
    BY <2>1, StateFacts DEF InStep, MemberState
  <2>3. sigs = [k \in Member |-> i]
    BY <2>1, <2>2, CompleteFacts
  <2>4. s \in MemberState /\ InStep(i, s)
    BY <2>2, <2>3 DEF MemberState, InStep
  <2>5. \A m \in out : m \in Message /\ Truthful(m)
    BY <2>2, <2>3, BundleFacts
  <2> HIDE DEF s, out
  <2> QED  BY <2>1, <2>4, <2>5, MoveSound
<1> QED  BY <1>1, <1>2

\* The submission loop: the same bundle again.
LEMMA SubmitAgainSound ==
    ASSUME SignerAssumption, Inv, NEW i \in Member, SubmitAgain(i)
    PROVE  StaySound
<1> DEFINE out == {Bundle(i, me[i].bundle)}
<1>1. me[i].round = i /\ me[i].bundle = [k \in Member |-> i]
  BY StateFacts DEF SubmitAgain, InStep
<1>2. \A m \in out : m \in Message /\ Truthful(m)
  BY <1>1, BundleFacts
<1>3. network' = network \cup out
  BY DEF SubmitAgain, Send
<1>4. me' = [j \in Member |-> me'[j]] /\ MembersInv'
  BY MembersStay DEF SubmitAgain
<1> HIDE DEF out
<1>5. NetworkInv'
  BY <1>2, <1>3, NetworkGrows
<1> QED  BY <1>4, <1>5 DEF StaySound

\* The signer's flow: the first copy.
LEMMA SignSound ==
    ASSUME SignerAssumption, Inv, NEW i \in Member, Sign(i)
    PROVE  StaySound
<1> DEFINE r   == me[i].round
           s   == [me[i] EXCEPT !.at = "fire", !.signed = me[i].nonce, !.sent = 1]
           out == {Copy(i, me[i].nonce, 1)}
<1>1. me' = [me EXCEPT ![i] = s] /\ network' = network \cup out
  BY DEF Sign, Send
<1>2. /\ me[i] \in MemberState /\ InStep(i, me[i]) /\ Member = Round
      /\ r \in Round /\ me[i].nonce = r /\ me[i].at = "listen"
  BY StateFacts DEF Sign, InStep
<1>3. 1 \in 1 .. Copies
  BY DEF SignerAssumption
<1>4. s \in MemberState
  <2>1. 1 \in 0 .. Copies /\ r \in 0 .. N
    BY <1>2, <1>3 DEF Round, SignerAssumption
  <2> QED  BY <1>2, <2>1 DEF MemberState
<1>5. InStep(i, s)
  BY <1>2 DEF InStep, MemberState
<1>6. \A m \in out : m \in Message /\ Truthful(m)
  BY <1>2, <1>3 DEF Copy, Message, Truthful
<1> HIDE DEF s, out
<1> QED  BY <1>1, <1>4, <1>5, <1>6, MoveSound

\* The signer's flow: each later copy, or the next round.
LEMMA FireSound ==
    ASSUME SignerAssumption, Inv, NEW i \in Member, Fire(i)
    PROVE  StaySound
<1>1. me[i].at = "fire"
  BY DEF Fire
<1>2. CASE MoreToFire(i)
  <2> DEFINE r   == me[i].round
             s   == [me[i] EXCEPT !.sent = me[i].sent + 1]
             out == {Copy(i, me[i].signed, me[i].sent + 1)}
  <2>1. me' = [me EXCEPT ![i] = s] /\ network' = network \cup out
    BY <1>2 DEF Fire, Send
  <2>2. /\ me[i] \in MemberState /\ InStep(i, me[i]) /\ Member = Round
        /\ r \in Round /\ me[i].signed = r
    BY <1>1, StateFacts DEF InStep
  <2>3. me[i].sent + 1 \in 1 .. Copies
    BY <1>2, <2>2 DEF MoreToFire, MemberState, SignerAssumption
  <2>4. s \in MemberState /\ InStep(i, s)
    BY <2>2, <2>3 DEF MemberState, InStep
  <2>5. \A m \in out : m \in Message /\ Truthful(m)
    BY <2>2, <2>3 DEF Copy, Message, Truthful
  <2> HIDE DEF s, out
  <2> QED  BY <2>1, <2>4, <2>5, MoveSound
<1>3. CASE ~ MoreToFire(i)
  <2>1. NextRound(i)
    BY <1>3 DEF Fire
  <2> QED  BY <1>1, <2>1, NextRoundSound
<1> QED  BY <1>2, <1>3

\* Every step of a coroutine.
LEMMA DriveSound ==
    ASSUME SignerAssumption, Inv, NEW i \in Member, Drive(i)
    PROVE  Inv'
<1> DEFINE k == SignedIn(me'[i])
<1>1. /\ UNCHANGED << server, lost, restarts >>
      /\ signedUpTo' = [signedUpTo EXCEPT ![i] =
                            IF signedUpTo[i] < k THEN k ELSE signedUpTo[i]]
  BY DEF Drive, Inv, CountersInv
<1>2. StaySound
  <2>1. CASE Start(i)
    <3>1. 1 \in Round /\ Enter(i, 1)
      BY <2>1 DEF Start, Round, SignerAssumption
    <3> QED  BY <3>1, EnterSound
  <2>2. CASE RequestAgain(i)
    BY <2>2, RequestAgainSound
  <2>3. CASE GiveUp(i)
    BY <2>3, NextRoundSound DEF GiveUp
  <2>4. CASE ShareNonce(i)
    BY <2>4, ShareNonceSound
  <2>5. CASE CollectAgain(i)
    BY <2>5, CollectAgainSound
  <2>6. CASE Submit(i)
    BY <2>6, SubmitSound
  <2>7. CASE SubmitAgain(i)
    BY <2>7, SubmitAgainSound
  <2>8. CASE Submitted(i)
    BY <2>8, NextRoundSound DEF Submitted
  <2>9. CASE Sign(i)
    BY <2>9, SignSound
  <2>10. CASE Fire(i)
    BY <2>10, FireSound
  <2> QED
    BY <2>1, <2>2, <2>3, <2>4, <2>5, <2>6, <2>7, <2>8, <2>9, <2>10 DEF Drive
<1>3. k \in 0 .. N
  BY <1>2 DEF StaySound, MembersInv, MemberState, SignedIn
<1> HIDE DEF k
<1>4. CountersInv'
  BY <1>1, <1>3 DEF Inv, CountersInv
<1> QED  BY <1>1, <1>2, <1>4 DEF Inv, StaySound, ServerState

\* A program that is started again is sound.
LEMMA RestartSound ==
    ASSUME SignerAssumption, Inv, NEW i \in Member, Restart(i)
    PROVE  Inv'
<1>1. Booted \in MemberState /\ InStep(i, Booted)
  BY BootedFacts
<1>2. me' = [j \in Member |-> me'[j]] /\ MembersInv'
  BY <1>1, MemberMoves DEF Restart
<1>3. NetworkInv'
  BY DEF Restart, Inv, NetworkInv, Message, Truthful, Signatures, Round, Member,
         Server
<1>4. CountersInv'
  BY DEF Restart, Inv, CountersInv, SignerAssumption
<1> QED  BY <1>2, <1>3, <1>4 DEF Restart, Inv, ServerState

-----------------------------------------------------------------------------
(* The handlers *)

\* A datagram that is handled stays in the network or leaves it.
LEMMA HandledFacts ==
    ASSUME NEW m
    PROVE  Handled(m) \subseteq network
  BY DEF Handled

\* A datagram about the member's round may change what the member holds.
LEMMA ReceiveSound ==
    ASSUME SignerAssumption, Inv, NEW i \in Member, NEW m \in network,
           Receive(i, m)
    PROVE  Inv'
<1>1. /\ me[i] \in MemberState /\ InStep(i, me[i])
      /\ m \in Message /\ Truthful(m)
  BY StateFacts DEF Inv, NetworkInv
<1>2. NetworkInv'
  <2> DEFINE out == {}
  <2>1. \A q \in out : q \in Message /\ Truthful(q)
    OBVIOUS
  <2>2. network' \subseteq network \cup out
    BY HandledFacts DEF Receive
  <2> HIDE DEF out
  <2> QED  BY <2>1, <2>2, NetworkGrows
<1> SUFFICES me' = [j \in Member |-> me'[j]] /\ MembersInv'
  <2>1. UNCHANGED << server, lost, restarts, signedUpTo >>
    BY DEF Receive
  <2> QED  BY <1>2, <2>1 DEF Inv, ServerState, CountersInv
<1>3. CASE on_challenge_response(i, m) \/ on_nonce_share(i, m)
  <2> DEFINE s == [me[i] EXCEPT !.nonce = m.nonce]
  <2>1. me' = [me EXCEPT ![i] = s]
    BY <1>3 DEF on_challenge_response, on_nonce_share
  <2>2. m.nonce = me[i].round /\ m.nonce \in 0 .. N
    BY <1>1, <1>3 DEF on_challenge_response, on_nonce_share, OfThisRound,
                      Truthful, MemberState
  <2>3. s \in MemberState /\ InStep(i, s)
    BY <1>1, <2>2 DEF MemberState, InStep
  <2> HIDE DEF s
  <2> QED  BY <2>1, <2>3, MemberMoves
<1>4. CASE on_signature_share(i, m)
  <2> DEFINE sigs == With(me[i].signatures, m.src, m.signature)
             s    == [me[i] EXCEPT !.signatures = sigs]
  <2>1. me' = [me EXCEPT ![i] = s]
    BY <1>4 DEF on_signature_share
  <2>2. /\ m.src \in Member /\ m.signature \in Round
        /\ m.signature = me[i].round
    BY <1>1, <1>4 DEF on_signature_share, OfThisRound, Truthful, Message
  <2>3. /\ me[i].signatures \in Signatures
        /\ \A j \in DOMAIN me[i].signatures : me[i].signatures[j] = m.signature
    BY <1>1, <2>2 DEF MemberState, InStep
  <2>4. sigs \in Signatures /\ \A j \in DOMAIN sigs : sigs[j] = me[i].round
    BY <2>2, <2>3, WithFacts
  <2>5. s \in MemberState /\ InStep(i, s)
    <3> HIDE DEF sigs
    <3> QED  BY <1>1, <2>4 DEF MemberState, InStep
  <2> HIDE DEF s
  <2> QED  BY <2>1, <2>5, MemberMoves
<1>5. CASE on_round_result(i, m)
  <2> DEFINE s == [me[i] EXCEPT !.round_done = TRUE]
  <2>1. me' = [me EXCEPT ![i] = s]
    BY <1>5 DEF on_round_result
  <2>2. s \in MemberState /\ InStep(i, s)
    BY <1>1 DEF MemberState, InStep
  <2> HIDE DEF s
  <2> QED  BY <2>1, <2>2, MemberMoves
<1>6. CASE OtherRound(i, m)
  BY <1>6, MembersStay DEF OtherRound
<1> QED  BY <1>3, <1>4, <1>5, <1>6 DEF Receive

-----------------------------------------------------------------------------
(* The server and the network *)

\* What the server and the network change leaves the members alone.
LEMMA ServerSound ==
    ASSUME Inv, UNCHANGED me, server' \in ServerState, CountersInv',
           NEW out, \A m \in out : m \in Message /\ Truthful(m),
           network' \subseteq network \cup out
    PROVE  Inv'
<1>1. me' = [j \in Member |-> me'[j]] /\ MembersInv'
  BY MembersStay
<1>2. NetworkInv'
  BY NetworkGrows
<1> QED  BY <1>1, <1>2 DEF Inv, ServerState

\* A verdict is truthful: it names no round.
LEMMA ResultFacts ==
    ASSUME NEW i \in Member, NEW ok \in BOOLEAN
    PROVE  Result(i, ok) \in Message /\ Truthful(Result(i, ok))
  BY DEF Result, Message, Truthful

\* The server answers a challenge request.
LEMMA ChallengeSound ==
    ASSUME SignerAssumption, Inv, NEW m \in network, Challenge(m),
           UNCHANGED << me, lost, restarts, signedUpTo >>
    PROVE  Inv'
<1>1. m.src \in Member
  BY DEF Challenge, Inv, NetworkInv, Message
<1>2. Handled(m) \subseteq network
  BY HandledFacts
<1>3. server \in ServerState /\ CountersInv'
  BY DEF Inv, CountersInv
<1> DEFINE reply == [type |-> "ChallengeResponse", src |-> Server, dst |-> m.src,
                     round |-> server.recorded + 1, nonce |-> server.recorded + 1]
           old   == network' = Handled(m) /\ UNCHANGED server
           no    == network' = Handled(m) \cup {Result(m.src, FALSE)} /\ UNCHANGED server
           yes   == /\ server.recorded < N
                    /\ network' = Handled(m) \cup {reply}
                    /\ server' = [server EXCEPT !.live = TRUE]
<1>4. old \/ no \/ yes
  BY DEF Challenge
<1>5. CASE old
  <2> DEFINE out == {}
  <2>1. \A q \in out : q \in Message /\ Truthful(q)
    OBVIOUS
  <2>2. network' \subseteq network \cup out
    BY <1>2, <1>5
  <2>3. server' \in ServerState
    BY <1>3, <1>5
  <2> HIDE DEF out
  <2> QED  BY <1>3, <2>1, <2>2, <2>3, ServerSound
<1>6. CASE no
  <2> DEFINE out == {Result(m.src, FALSE)}
  <2>1. \A q \in out : q \in Message /\ Truthful(q)
    BY <1>1, ResultFacts
  <2>2. network' \subseteq network \cup out
    BY <1>2, <1>6
  <2>3. server' \in ServerState
    BY <1>3, <1>6
  <2> HIDE DEF out
  <2> QED  BY <1>3, <2>1, <2>2, <2>3, ServerSound
<1>7. CASE yes
  <2> DEFINE out == {reply}
  <2>1. server.recorded + 1 \in Round
    BY <1>3, <1>7 DEF ServerState, Round, SignerAssumption
  <2>2. \A q \in out : q \in Message /\ Truthful(q)
    BY <1>1, <2>1 DEF Message, Truthful
  <2>3. network' \subseteq network \cup out
    BY <1>2, <1>7
  <2>4. server' \in ServerState
    BY <1>3, <1>7 DEF ServerState
  <2> HIDE DEF out
  <2> QED  BY <1>3, <2>2, <2>3, <2>4, ServerSound
<1> HIDE DEF old, no, yes
<1> QED  BY <1>4, <1>5, <1>6, <1>7

\* The server judges a bundle.
LEMMA JudgeSound ==
    ASSUME SignerAssumption, Inv, NEW m \in network, Judge(m),
           UNCHANGED << me, lost, restarts, signedUpTo >>
    PROVE  Inv'
<1> DEFINE accepted == /\ server.live /\ ~ server.closed
                       /\ m.round = server.recorded + 1
                       /\ Verifies(m)
           out      == {Result(m.src, accepted)}
<1>1. m.src \in Member /\ m.round \in Round
  BY DEF Judge, Inv, NetworkInv, Message
<1>2. Handled(m) \subseteq network
  BY HandledFacts
<1>3. server \in ServerState /\ CountersInv'
  BY DEF Inv, CountersInv
<1>4. /\ network' = Handled(m) \cup out
      /\ server' = IF accepted
                   THEN [server EXCEPT !.recorded = server.recorded + 1, !.live = FALSE]
                   ELSE server
  BY DEF Judge
<1>5. accepted \in BOOLEAN
  OBVIOUS
<1>6. accepted => server.recorded + 1 \in Round
  BY <1>1
<1> HIDE DEF accepted
<1>7. \A q \in out : q \in Message /\ Truthful(q)
  BY <1>1, <1>5, ResultFacts
<1>8. server' \in ServerState
  <2>1. CASE accepted
    <3>1. server.recorded + 1 \in 0 .. N
      BY <1>6, <2>1 DEF Round
    <3>2. server' = [server EXCEPT !.recorded = server.recorded + 1, !.live = FALSE]
      BY <1>4, <2>1
    <3> QED  BY <1>3, <3>1, <3>2 DEF ServerState
  <2>2. CASE ~ accepted
    BY <1>3, <1>4, <2>2
  <2> QED  BY <2>1, <2>2
<1> HIDE DEF out
<1>9. network' \subseteq network \cup out
  BY <1>2, <1>4
<1> QED  BY <1>3, <1>7, <1>8, <1>9, ServerSound

\* The budget runs out.
LEMMA ExpireSound == ASSUME Inv, Expire PROVE Inv'
<1> DEFINE out == {}
<1>1. \A q \in out : q \in Message /\ Truthful(q)
  OBVIOUS
<1>2. server' \in ServerState
  BY DEF Expire, Inv, ServerState
<1>3. UNCHANGED me /\ CountersInv' /\ network' \subseteq network \cup out
  BY DEF Expire, Inv, CountersInv
<1> HIDE DEF out
<1> QED  BY <1>1, <1>2, <1>3, ServerSound

\* A reliable network loses a datagram.
LEMMA LoseSound ==
    ASSUME SignerAssumption, Inv, NEW m \in network, Lose(m)
    PROVE  Inv'
<1> DEFINE out == {}
<1>1. \A q \in out : q \in Message /\ Truthful(q)
  OBVIOUS
<1>2. UNCHANGED me /\ server' \in ServerState /\ network' \subseteq network \cup out
  BY DEF Lose, Inv
<1>3. CountersInv'
  BY DEF Lose, Inv, CountersInv, SignerAssumption
<1> HIDE DEF out
<1> QED  BY <1>1, <1>2, <1>3, ServerSound

-----------------------------------------------------------------------------
(* The theorems *)

\* Every step keeps Inv.
LEMMA InvStep == ASSUME SignerAssumption, Inv, [Next]_vars PROVE Inv'
<1>1. ASSUME NEW i \in Member, Drive(i) PROVE Inv'
  BY <1>1, DriveSound
<1>2. ASSUME NEW p \in Member \cup {Server}, NEW q \in Member \cup {Server},
             Deliver(p, q)
      PROVE  Inv'
  <2>1. PICK m \in network :
            /\ m.src = p /\ m.dst = q
            /\ IF q = Server THEN Serve(m) ELSE Receive(q, m)
    BY <1>2 DEF Deliver
  <2>2. CASE q = Server
    BY <2>1, <2>2, ChallengeSound, JudgeSound DEF Serve
  <2>3. CASE q # Server
    BY <1>2, <2>1, <2>3, ReceiveSound
  <2> QED  BY <2>2, <2>3
<1>3. ASSUME NEW m \in network, Lose(m) PROVE Inv'
  BY <1>3, LoseSound
<1>4. CASE Expire
  BY <1>4, ExpireSound
<1>5. CASE UNCHANGED vars
  <2> DEFINE out == {}
  <2>1. \A q \in out : q \in Message /\ Truthful(q)
    OBVIOUS
  <2>2. /\ UNCHANGED me /\ network' \subseteq network \cup out
        /\ server' \in ServerState /\ CountersInv'
    BY <1>5 DEF vars, Inv, CountersInv
  <2> HIDE DEF out
  <2> QED  BY <2>1, <2>2, ServerSound
<1>6. ASSUME NEW i \in Member, Restart(i) PROVE Inv'
  BY <1>6, RestartSound
<1> QED  BY <1>1, <1>2, <1>3, <1>4, <1>5, <1>6 DEF Next

\* Inv is an invariant.
LEMMA InvAlways == Spec => []Inv
  BY SignerAssumption, InitInv, InvStep, PTL DEF Spec

\* Every variable keeps its type, and no signer fires more copies than it should.
THEOREM TypeCorrect == Spec => []TypeOK
<1>1. ASSUME Inv PROVE TypeOK
  <2>1. me \in [Member -> MemberState]
    BY <1>1 DEF Inv, MembersInv
  <2>2. network \in SUBSET Message
    BY <1>1 DEF Inv, NetworkInv
  <2> QED  BY <1>1, <2>1, <2>2 DEF Inv, CountersInv, TypeOK, MemberState, ServerState
<1> QED  BY <1>1, InvAlways, PTL

\* Every bundle ever sent comes from its round's submitter and holds the
\* signature of every member over that round's nonce, whatever was lost,
\* delayed or repeated on the way, and whoever was started again.
THEOREM BundlesAlwaysVerify == Spec => []BundlesVerify
<1>1. ASSUME Inv PROVE BundlesVerify
  BY <1>1 DEF Inv, NetworkInv, Truthful, BundlesVerify
<1> QED  BY <1>1, InvAlways, PTL

=============================================================================
