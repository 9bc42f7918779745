-------------------------- MODULE SignerRefinement --------------------------
(***************************************************************************)
(* Signer keeps the promise of GroupSigning, and no submitter leaves a     *)
(* round the server has not recorded while the budget lasts: the order of  *)
(* things between the members and the server.                              *)
(***************************************************************************)
EXTENDS SignerProofs

-----------------------------------------------------------------------------
(* The inductive invariant *)

\* The server sv has given out the nonce of round k.
Issued(k, sv) == k <= sv.recorded \/ (k = sv.recorded + 1 /\ sv.live)

\* What lets the member i leave the round it submits.
Settled(i, sv) == sv.closed \/ sv.recorded >= i

\* What a member s holds was issued by the server sv, and signed by those whose
\* signatures it has, who have signed up to the rounds up.
MemberOrder(i, s, sv, up) ==
    /\ s.nonce # None => Issued(s.round, sv)
    /\ s.signed # None => Issued(s.signed, sv)
    /\ \A j \in DOMAIN s.signatures : up[j] >= s.round
    /\ s.at = "fire" => up[i] >= s.round
    /\ s.at = "submit" =>
           Issued(s.round, sv) /\ \A j \in Member : up[j] >= s.round
    /\ s.at \in {"listen", "fire"} => s.round # i
    /\ s.round_done => Settled(i, sv)
    /\ s.round > i \/ s.at = "done" => Settled(i, sv)

\* The same of a datagram.
MessageOrder(m, sv, up) ==
    /\ m.type \in {"ChallengeResponse", "NonceShare"} => Issued(m.round, sv)
    /\ m.type = "SignatureShare" => up[m.src] >= m.round
    /\ m.type = "SignatureBundle" =>
           Issued(m.round, sv) /\ \A j \in Member : up[j] >= m.round
    /\ m.type = "RoundResult" => Settled(m.dst, sv)

\* Nobody is behind the server, or ahead of it by more than one round.
InPace == \A i \in Member :
              signedUpTo[i] \in {server.recorded, server.recorded + 1}

Ordered ==
    /\ \A i \in Member : MemberOrder(i, me[i], server, signedUpTo)
    /\ \A m \in network : MessageOrder(m, server, signedUpTo)

OrderInv == Inv /\ Ordered /\ InPace

-----------------------------------------------------------------------------
(* The server and the signers only go forward *)

\* The server sv became sw, and the signers up became uq.
Forward(sv, up, sw, uq) ==
    /\ sv \in ServerState /\ sw \in ServerState
    /\ up \in [Member -> 0 .. N] /\ uq \in [Member -> 0 .. N]
    /\ sv.recorded <= sw.recorded
    /\ sv.live => sw.live \/ sv.recorded < sw.recorded
    /\ sv.closed => sw.closed
    /\ \A j \in Member : up[j] <= uq[j]

\* What was issued or settled stays so.
LEMMA StaysIssued ==
    ASSUME NEW sv, NEW sw, NEW up, NEW uq, Forward(sv, up, sw, uq), NEW k \in 0 .. N
    PROVE  /\ Issued(k, sv) => Issued(k, sw)
           /\ Settled(k, sv) => Settled(k, sw)
  BY DEF Forward, Issued, Settled, ServerState

\* What a member holds stays in order.
LEMMA MemberStaysOrdered ==
    ASSUME SignerAssumption, NEW sv, NEW sw, NEW up, NEW uq,
           Forward(sv, up, sw, uq),
           NEW i \in Member, NEW s \in MemberState, MemberOrder(i, s, sv, up)
    PROVE  MemberOrder(i, s, sw, uq)
<1>1. i \in 0 .. N /\ s.round \in 0 .. N /\ s.signed \in 0 .. N
  BY DEF Member, MemberState
<1>2. DOMAIN s.signatures \subseteq Member
  BY DEF MemberState, Signatures
<1>3. \A j \in Member : up[j] >= s.round => uq[j] >= s.round
  BY <1>1 DEF Forward
<1>4. /\ \A k \in {s.round, s.signed} : Issued(k, sv) => Issued(k, sw)
      /\ Settled(i, sv) => Settled(i, sw)
  BY <1>1, StaysIssued
<1> QED  BY <1>2, <1>3, <1>4 DEF MemberOrder

\* A datagram stays in order.
LEMMA MessageStaysOrdered ==
    ASSUME SignerAssumption, NEW sv, NEW sw, NEW up, NEW uq,
           Forward(sv, up, sw, uq),
           NEW m \in Message, MessageOrder(m, sv, up)
    PROVE  MessageOrder(m, sw, uq)
<1>1. CASE m.type \in {"ChallengeResponse", "NonceShare"}
  <2>1. m.round \in 0 .. N
    BY <1>1 DEF Message, Round
  <2> QED  BY <1>1, <2>1, StaysIssued DEF MessageOrder
<1>2. CASE m.type = "SignatureShare"
  <2>1. m.round \in 0 .. N /\ m.src \in Member
    BY <1>2 DEF Message, Round
  <2> QED  BY <1>2, <2>1 DEF MessageOrder, Forward
<1>3. CASE m.type = "SignatureBundle"
  <2>1. m.round \in 0 .. N
    BY <1>3 DEF Message, Round
  <2>2. Issued(m.round, sw)
    BY <1>3, <2>1, StaysIssued DEF MessageOrder
  <2>3. \A j \in Member : uq[j] >= m.round
    BY <1>3, <2>1 DEF MessageOrder, Forward
  <2> QED  BY <1>3, <2>2, <2>3 DEF MessageOrder
<1>4. CASE m.type = "RoundResult"
  <2>1. m.dst \in 0 .. N
    BY <1>4 DEF Message, Member
  <2> QED  BY <1>4, <2>1, StaysIssued DEF MessageOrder
<1>5. CASE m.type = "ChallengeRequest"
  BY <1>5 DEF MessageOrder
<1> QED  BY <1>1, <1>2, <1>3, <1>4, <1>5 DEF Message

\* Every member and every datagram that stays, stays in order.
LEMMA TheOthersStayOrdered ==
    ASSUME SignerAssumption, OrderInv,
           Forward(server, signedUpTo, server', signedUpTo')
    PROVE  /\ \A i \in Member : MemberOrder(i, me[i], server', signedUpTo')
           /\ \A m \in network : MessageOrder(m, server', signedUpTo')
<1>1. ASSUME NEW i \in Member
      PROVE  MemberOrder(i, me[i], server', signedUpTo')
  <2>1. me[i] \in MemberState /\ MemberOrder(i, me[i], server, signedUpTo)
    BY StateFacts DEF OrderInv, Ordered
  <2> QED  BY <2>1, MemberStaysOrdered
<1>2. ASSUME NEW m \in network
      PROVE  MessageOrder(m, server', signedUpTo')
  <2>1. m \in Message /\ MessageOrder(m, server, signedUpTo)
    BY DEF OrderInv, Ordered, Inv, NetworkInv
  <2> QED  BY <2>1, MessageStaysOrdered
<1> QED  BY <1>1, <1>2

\* One member moves and sends, and the others stay.
LEMMA MoveOrdered ==
    ASSUME SignerAssumption, OrderInv,
           Forward(server, signedUpTo, server', signedUpTo'),
           NEW i \in Member, NEW s,
           MemberOrder(i, s, server', signedUpTo'),
           me' = [me EXCEPT ![i] = s],
           NEW out, \A m \in out : MessageOrder(m, server', signedUpTo'),
           network' \subseteq network \cup out
    PROVE  Ordered'
<1>1. me = [j \in Member |-> me[j]]
  BY DEF OrderInv, Inv
<1>2. \A j \in Member : me'[j] = IF j = i THEN s ELSE me[j]
  BY <1>1
<1>3. \A j \in Member : MemberOrder(j, me'[j], server', signedUpTo')
  BY <1>2, TheOthersStayOrdered
<1>4. \A m \in network' : MessageOrder(m, server', signedUpTo')
  BY TheOthersStayOrdered
<1> QED  BY <1>3, <1>4 DEF Ordered, MemberOrder, MessageOrder, Issued, Settled

\* The server or the network moves, and no member.
LEMMA NobodyMovesOrdered ==
    ASSUME SignerAssumption, OrderInv, UNCHANGED me,
           Forward(server, signedUpTo, server', signedUpTo'),
           NEW out, \A m \in out : MessageOrder(m, server', signedUpTo'),
           network' \subseteq network \cup out
    PROVE  Ordered'
<1>1. \A j \in Member : MemberOrder(j, me'[j], server', signedUpTo')
  BY TheOthersStayOrdered
<1>2. \A m \in network' : MessageOrder(m, server', signedUpTo')
  BY TheOthersStayOrdered
<1> QED  BY <1>1, <1>2 DEF Ordered, MemberOrder, MessageOrder, Issued, Settled

-----------------------------------------------------------------------------
(* The coroutine *)

\* A step of a coroutine leaves the server alone and counts what is signed.
Counts(i) ==
    /\ server' = server
    /\ signedUpTo' = [signedUpTo EXCEPT ![i] =
                          IF signedUpTo[i] < me'[i].signed
                          THEN me'[i].signed ELSE signedUpTo[i]]
    /\ me'[i].signed \in 0 .. N
    /\ Forward(server, signedUpTo, server', signedUpTo')
    /\ signedUpTo'[i] >= me'[i].signed

\* Every step of a coroutine is of that kind.
LEMMA DriveCounts ==
    ASSUME SignerAssumption, OrderInv, NEW i \in Member, Drive(i)
    PROVE  Counts(i)
<1>1. Inv /\ Inv'
  BY DriveSound DEF OrderInv
<1>2. /\ server' = server
      /\ signedUpTo' = [signedUpTo EXCEPT ![i] =
                            IF signedUpTo[i] < me'[i].signed
                            THEN me'[i].signed ELSE signedUpTo[i]]
  <2>1. SignedIn(me'[i]) = me'[i].signed
    BY <1>1 DEF Inv, MembersInv, InStep, SignedIn, None
  <2> QED  BY <1>1, <2>1 DEF Drive, Inv, CountersInv
<1>3. me'[i].signed \in 0 .. N
  BY <1>1 DEF Inv, MembersInv, MemberState
<1>4. /\ signedUpTo \in [Member -> 0 .. N] /\ signedUpTo' \in [Member -> 0 .. N]
      /\ server \in ServerState
  BY <1>1 DEF Inv, CountersInv, ServerState
<1>5. \A j \in Member : signedUpTo[j] <= signedUpTo'[j]
  BY <1>2, <1>3, <1>4
<1>6. signedUpTo'[i] >= me'[i].signed
  BY <1>2, <1>3, <1>4
<1>7. server.recorded \in 0 .. N
  BY <1>4 DEF ServerState
<1> QED  BY <1>2, <1>3, <1>4, <1>5, <1>6, <1>7 DEF Counts, Forward

\* What a member knows before it steps, with what the step has counted.
LEMMA KnownFacts ==
    ASSUME SignerAssumption, OrderInv, NEW i \in Member, Counts(i)
    PROVE  /\ me[i] \in MemberState /\ InStep(i, me[i])
           /\ MemberOrder(i, me[i], server', signedUpTo')
           /\ me[i].round \in Nat /\ i \in Nat
<1>1. me[i] \in MemberState /\ InStep(i, me[i])
  BY StateFacts DEF OrderInv
<1>2. MemberOrder(i, me[i], server', signedUpTo')
  BY TheOthersStayOrdered DEF Counts
<1> QED  BY <1>1, <1>2 DEF MemberState, Member

\* A member enters a round beyond its own only when its own is settled.
LEMMA EnterOrdered ==
    ASSUME SignerAssumption, OrderInv, NEW i \in Member, Counts(i),
           NEW r \in Round, Enter(i, r), r > i => Settled(i, server')
    PROVE  Ordered'
<1> DEFINE s   == Fresh(i, r)
           out == IF i = r THEN {Request(i)} ELSE {}
<1>1. MemberOrder(i, s, server', signedUpTo')
  BY DEF MemberOrder, Fresh, None
<1>2. \A m \in out : MessageOrder(m, server', signedUpTo')
  BY DEF MessageOrder, Request
<1>3. me' = [me EXCEPT ![i] = s] /\ network' \subseteq network \cup out
  BY DEF Enter, Send
<1> HIDE DEF s, out
<1> QED  BY <1>1, <1>2, <1>3, MoveOrdered DEF Counts

\* A member goes on from a round before its own, or from its own settled.
LEMMA NextRoundOrdered ==
    ASSUME SignerAssumption, OrderInv, NEW i \in Member, Counts(i), NextRound(i),
           me[i].at \notin {"peers", "done"},
           me[i].round >= i => Settled(i, server')
    PROVE  Ordered'
<1>1. me[i].round \in Round /\ Inv
  BY InARound DEF OrderInv
<1>2. CASE me[i].round < N
  <2>1. me[i].round + 1 \in Round /\ (me[i].round + 1 > i => me[i].round >= i)
    BY <1>1, <1>2 DEF Round, Member, SignerAssumption
  <2>2. Enter(i, me[i].round + 1)
    BY <1>2 DEF NextRound
  <2> QED  BY <2>1, <2>2, EnterOrdered
<1>3. CASE ~ (me[i].round < N)
  <2> DEFINE s   == [me[i] EXCEPT !.at = "done"]
             out == {}
  <2>1. me' = [me EXCEPT ![i] = s] /\ network' \subseteq network \cup out
    BY <1>3 DEF NextRound, Send
  <2>2. me[i].round >= i
    BY <1>1, <1>3 DEF Round, Member, SignerAssumption
  <2>3. MemberOrder(i, s, server', signedUpTo')
    BY <2>2, KnownFacts DEF MemberOrder, MemberState
  <2>4. \A m \in out : MessageOrder(m, server', signedUpTo')
    OBVIOUS
  <2> HIDE DEF s, out
  <2> QED  BY <2>1, <2>3, <2>4, MoveOrdered DEF Counts
<1> QED  BY <1>2, <1>3

\* The nonce is shared once it was issued, and the member has then signed.
LEMMA ShareNonceOrdered ==
    ASSUME SignerAssumption, OrderInv, NEW i \in Member, Counts(i), ShareNonce(i)
    PROVE  Ordered'
<1> DEFINE sigs    == With(me[i].signatures, i, me[i].nonce)
           shares  == {Share(i, j) : j \in Member \ {i}}
           signing == [me[i] EXCEPT !.signed = me[i].nonce, !.signatures = sigs]
<1>1. /\ me[i] \in MemberState /\ me[i].at = "challenge"
      /\ me[i].round = i /\ me[i].nonce = i /\ i # None /\ i \in Nat
      /\ MemberOrder(i, me[i], server', signedUpTo')
  BY KnownFacts DEF ShareNonce, InStep, Member, None
<1>2. Issued(i, server')
  BY <1>1 DEF MemberOrder
<1>3. me = [j \in Member |-> me[j]]
  BY DEF OrderInv, Inv
<1>4. me'[i].signed = i
  <2> HIDE DEF sigs, shares
  <2>1. \/ me' = [me EXCEPT ![i] = [signing EXCEPT !.at = "submit", !.bundle = sigs]]
        \/ me' = [me EXCEPT ![i] = [signing EXCEPT !.at = "collect"]]
    BY DEF ShareNonce, sigs
  <2>2. [signing EXCEPT !.at = "submit", !.bundle = sigs].signed = i
    BY <1>1 DEF MemberState
  <2>3. [signing EXCEPT !.at = "collect"].signed = i
    BY <1>1 DEF MemberState
  <2> HIDE DEF signing
  <2> QED  BY <1>3, <2>1, <2>2, <2>3
<1>5. signedUpTo'[i] >= i
  BY <1>4 DEF Counts
<1>6. /\ DOMAIN sigs = DOMAIN me[i].signatures \cup {i}
      /\ \A j \in DOMAIN sigs : signedUpTo'[j] >= i
  <2>1. \A j \in DOMAIN me[i].signatures : signedUpTo'[j] >= i
    BY <1>1 DEF MemberOrder
  <2>2. DOMAIN sigs = DOMAIN me[i].signatures \cup {i}
    BY DEF With
  <2> QED  BY <1>5, <2>1, <2>2
<1>7. \A m \in shares : MessageOrder(m, server', signedUpTo')
  BY <1>1, <1>2 DEF MessageOrder, Share
<1>8. CASE Complete(sigs)
  <2> DEFINE s   == [signing EXCEPT !.at = "submit", !.bundle = sigs]
             out == shares \cup {Bundle(i, sigs)}
  <2>1. me' = [me EXCEPT ![i] = s] /\ network' \subseteq network \cup out
    BY <1>8 DEF ShareNonce, Send
  <2>2. DOMAIN sigs = Member
    <3>1. /\ me[i].signatures \in Signatures /\ i \in Round
          /\ \A j \in DOMAIN me[i].signatures : me[i].signatures[j] = i
      BY <1>1, StateFacts DEF InStep, MemberState, OrderInv
    <3>2. sigs \in Signatures /\ \A j \in DOMAIN sigs : sigs[j] = i
      BY <1>1, <3>1, WithFacts
    <3>3. sigs = [k \in Member |-> i]
      BY <1>8, <3>1, <3>2, CompleteFacts
    <3> HIDE DEF sigs
    <3> QED  BY <3>3
  <2>3. \A m \in out : MessageOrder(m, server', signedUpTo')
    BY <1>1, <1>2, <1>6, <1>7, <2>2 DEF MessageOrder, Bundle
  <2>4. MemberOrder(i, s, server', signedUpTo')
    <3> HIDE DEF sigs
    <3> QED  BY <1>1, <1>2, <1>6, <2>2 DEF MemberOrder, MemberState
  <2> HIDE DEF s, out
  <2> QED  BY <2>1, <2>3, <2>4, MoveOrdered DEF Counts
<1>9. CASE ~ Complete(sigs)
  <2> DEFINE s == [signing EXCEPT !.at = "collect"]
  <2>1. me' = [me EXCEPT ![i] = s] /\ network' \subseteq network \cup shares
    BY <1>9 DEF ShareNonce, Send
  <2>2. MemberOrder(i, s, server', signedUpTo')
    <3> HIDE DEF sigs
    <3> QED  BY <1>1, <1>2, <1>6 DEF MemberOrder, MemberState
  <2> HIDE DEF s, shares
  <2> QED  BY <1>7, <2>1, <2>2, MoveOrdered DEF Counts
<1> QED  BY <1>8, <1>9

\* A bundle is sent once everybody has signed.
LEMMA SubmitOrdered ==
    ASSUME SignerAssumption, OrderInv, NEW i \in Member, Counts(i), Submit(i)
    PROVE  Ordered'
<1>1. /\ me[i] \in MemberState /\ me[i].at = "collect"
      /\ me[i].round = i /\ me[i].nonce = i /\ i # None /\ i \in Round
      /\ MemberOrder(i, me[i], server', signedUpTo')
      /\ me[i].signatures \in Signatures
      /\ \A j \in DOMAIN me[i].signatures : me[i].signatures[j] = i
  BY KnownFacts DEF Submit, InStep, MemberState, Member, Round, None
<1>2. CASE me[i].round_done
  <2>1. Settled(i, server')
    BY <1>1, <1>2 DEF MemberOrder
  <2>2. NextRound(i)
    BY <1>2 DEF Submit
  <2> QED  BY <1>1, <2>1, <2>2, NextRoundOrdered
<1>3. CASE ~ me[i].round_done
  <2> DEFINE sigs == me[i].signatures
             s    == [me[i] EXCEPT !.at = "submit", !.bundle = sigs]
             out  == {Bundle(i, sigs)}
  <2>1. /\ me' = [me EXCEPT ![i] = s]
        /\ network' \subseteq network \cup out
        /\ Complete(sigs)
    BY <1>3 DEF Submit, Send
  <2>2. DOMAIN sigs = Member
    <3>1. sigs = [k \in Member |-> i]
      BY <1>1, <2>1, CompleteFacts
    <3> HIDE DEF sigs
    <3> QED  BY <3>1
  <2>3. Issued(i, server') /\ \A j \in Member : signedUpTo'[j] >= i
    BY <1>1, <2>2 DEF MemberOrder
  <2>4. MemberOrder(i, s, server', signedUpTo')
    BY <1>1, <2>3 DEF MemberOrder, MemberState
  <2>5. \A m \in out : MessageOrder(m, server', signedUpTo')
    BY <1>1, <2>3 DEF MessageOrder, Bundle
  <2> HIDE DEF s, out
  <2> QED  BY <2>1, <2>4, <2>5, MoveOrdered DEF Counts
<1> QED  BY <1>2, <1>3

\* A second passed: what is sent again is in order.
LEMMA AgainOrdered ==
    ASSUME SignerAssumption, OrderInv, NEW i \in Member, Counts(i),
           RequestAgain(i) \/ CollectAgain(i) \/ SubmitAgain(i)
    PROVE  Ordered'
<1>1. /\ InStep(i, me[i]) /\ MemberOrder(i, me[i], server', signedUpTo')
      /\ Forward(server, signedUpTo, server', signedUpTo') /\ i # None
  <2>1. InStep(i, me[i]) /\ MemberOrder(i, me[i], server', signedUpTo')
    BY KnownFacts
  <2>2. Forward(server, signedUpTo, server', signedUpTo') /\ i # None
    BY DEF Counts, Member, None
  <2> QED  BY <2>1, <2>2
<1>2. CASE RequestAgain(i)
  <2> DEFINE out == {Request(i)}
  <2>1. UNCHANGED me /\ network' \subseteq network \cup out
    BY <1>2 DEF RequestAgain, Send
  <2>2. \A m \in out : MessageOrder(m, server', signedUpTo')
    BY DEF MessageOrder, Request
  <2> HIDE DEF out
  <2> QED  BY <1>1, <2>1, <2>2, NobodyMovesOrdered
<1>3. CASE CollectAgain(i)
  <2> DEFINE out == {Share(i, j) : j \in Missing(i)}
  <2>1. UNCHANGED me /\ network' \subseteq network \cup out
    BY <1>3 DEF CollectAgain, Send
  <2>2. Issued(me[i].round, server')
    BY <1>1, <1>3 DEF CollectAgain, InStep, MemberOrder
  <2>3. \A m \in out : MessageOrder(m, server', signedUpTo')
    BY <2>2 DEF MessageOrder, Share
  <2> HIDE DEF out
  <2> QED  BY <1>1, <2>1, <2>3, NobodyMovesOrdered
<1>4. CASE SubmitAgain(i)
  <2> DEFINE out == {Bundle(i, me[i].bundle)}
  <2>1. UNCHANGED me /\ network' \subseteq network \cup out
    BY <1>4 DEF SubmitAgain, Send
  <2>2. /\ Issued(me[i].round, server')
        /\ \A j \in Member : signedUpTo'[j] >= me[i].round
    BY <1>1, <1>4 DEF SubmitAgain, MemberOrder
  <2>3. \A m \in out : MessageOrder(m, server', signedUpTo')
    BY <2>2 DEF MessageOrder, Bundle
  <2> HIDE DEF out
  <2> QED  BY <1>1, <2>1, <2>3, NobodyMovesOrdered
<1> QED  BY <1>2, <1>3, <1>4

\* A signer has signed before its copies are on the way.
LEMMA SignOrdered ==
    ASSUME SignerAssumption, OrderInv, NEW i \in Member, Counts(i), Sign(i)
    PROVE  Ordered'
<1> DEFINE s   == [me[i] EXCEPT !.at = "fire", !.signed = me[i].nonce, !.sent = 1]
           out == {Copy(i, me[i].nonce, 1)}
<1>1. me' = [me EXCEPT ![i] = s] /\ network' \subseteq network \cup out
  BY DEF Sign, Send
<1>2. /\ me[i] \in MemberState /\ me[i].at = "listen"
      /\ me[i].nonce = me[i].round /\ me[i].nonce # None
      /\ MemberOrder(i, me[i], server', signedUpTo')
  BY KnownFacts DEF Sign, InStep
<1>3. me = [j \in Member |-> me[j]]
  BY DEF OrderInv, Inv
<1>4. me'[i].signed = me[i].round
  BY <1>2, <1>3 DEF Sign
<1>5. signedUpTo'[i] >= me[i].round
  BY <1>4 DEF Counts
<1>6. MemberOrder(i, s, server', signedUpTo')
  BY <1>2, <1>5 DEF MemberOrder, MemberState
<1>7. \A m \in out : MessageOrder(m, server', signedUpTo')
  BY <1>5 DEF MessageOrder, Copy
<1> HIDE DEF s, out
<1> QED  BY <1>1, <1>6, <1>7, MoveOrdered DEF Counts

\* A later copy, or the next round, which for a signer is not beyond its own
\* unless its own is settled.
LEMMA FireOrdered ==
    ASSUME SignerAssumption, OrderInv, NEW i \in Member, Counts(i), Fire(i)
    PROVE  Ordered'
<1>1. /\ me[i] \in MemberState /\ me[i].at = "fire"
      /\ MemberOrder(i, me[i], server', signedUpTo')
      /\ me[i].round \in Nat /\ i \in Nat
  BY KnownFacts DEF Fire
<1>2. CASE MoreToFire(i)
  <2> DEFINE s   == [me[i] EXCEPT !.sent = me[i].sent + 1]
             out == {Copy(i, me[i].signed, me[i].sent + 1)}
  <2>1. me' = [me EXCEPT ![i] = s] /\ network' \subseteq network \cup out
    BY <1>2 DEF Fire, Send
  <2>2. MemberOrder(i, s, server', signedUpTo')
    BY <1>1 DEF MemberOrder, MemberState
  <2>3. \A m \in out : MessageOrder(m, server', signedUpTo')
    BY <1>1 DEF MessageOrder, Copy, MemberOrder
  <2> HIDE DEF s, out
  <2> QED  BY <2>1, <2>2, <2>3, MoveOrdered DEF Counts
<1>3. CASE ~ MoreToFire(i)
  <2>1. NextRound(i)
    BY <1>3 DEF Fire
  <2>2. me[i].round >= i => Settled(i, server')
    BY <1>1 DEF MemberOrder
  <2> QED  BY <1>1, <2>1, <2>2, NextRoundOrdered
<1> QED  BY <1>2, <1>3

\* Every step of a coroutine keeps the order.
LEMMA DriveOrdered ==
    ASSUME SignerAssumption, OrderInv, NEW i \in Member, Drive(i)
    PROVE  Ordered'
<1>1. Counts(i)
  BY DriveCounts
<1>2. /\ MemberOrder(i, me[i], server', signedUpTo')
      /\ InStep(i, me[i]) /\ i \in Nat \ {0}
  BY <1>1, KnownFacts DEF Member
<1>3. CASE Start(i)
  <2>1. 1 \in Round /\ Enter(i, 1) /\ ~ (1 > i)
    BY <1>2, <1>3 DEF Start, Round, SignerAssumption
  <2> QED  BY <1>1, <2>1, EnterOrdered
<1>4. CASE GiveUp(i)
  <2>1. NextRound(i) /\ Settled(i, server') /\ me[i].at = "challenge"
    BY <1>2, <1>4 DEF GiveUp, MemberOrder
  <2> QED  BY <1>1, <2>1, NextRoundOrdered
<1>5. CASE Submitted(i)
  <2>1. NextRound(i) /\ Settled(i, server') /\ me[i].at = "submit"
    BY <1>2, <1>5 DEF Submitted, MemberOrder
  <2> QED  BY <1>1, <2>1, NextRoundOrdered
<1>6. CASE RequestAgain(i) \/ CollectAgain(i) \/ SubmitAgain(i)
  BY <1>1, <1>6, AgainOrdered
<1>7. CASE ShareNonce(i)
  BY <1>1, <1>7, ShareNonceOrdered
<1>8. CASE Submit(i)
  BY <1>1, <1>8, SubmitOrdered
<1>9. CASE Sign(i)
  BY <1>1, <1>9, SignOrdered
<1>10. CASE Fire(i)
  BY <1>1, <1>10, FireOrdered
<1> QED  BY <1>3, <1>4, <1>5, <1>6, <1>7, <1>8, <1>9, <1>10 DEF Drive

\* What was issued is not beyond the next round.
LEMMA IssuedBound ==
    ASSUME NEW sv \in ServerState, NEW k \in 0 .. N, Issued(k, sv)
    PROVE  k <= sv.recorded + 1
  BY DEF Issued, ServerState

\* A step of a coroutine signs nothing, or the next round for the first time.
LEMMA DriveSigns ==
    ASSUME SignerAssumption, OrderInv, NEW i \in Member, Drive(i)
    PROVE  /\ server' = server
           /\ \/ signedUpTo' = signedUpTo
              \/ /\ signedUpTo[i] = server.recorded
                 /\ server.recorded < N
                 /\ signedUpTo' = [signedUpTo EXCEPT ![i] = signedUpTo[i] + 1]
<1> DEFINE k == me'[i].signed
<1>1. /\ server' = server
      /\ signedUpTo' = [signedUpTo EXCEPT ![i] =
                            IF signedUpTo[i] < k THEN k ELSE signedUpTo[i]]
      /\ k \in 0 .. N
  BY DriveCounts DEF Counts
<1>2. server \in ServerState /\ signedUpTo \in [Member -> 0 .. N]
  BY DEF OrderInv, Inv, CountersInv
<1>3. server.recorded \in 0 .. N
  BY <1>2 DEF ServerState
<1>4. signedUpTo[i] \in {server.recorded, server.recorded + 1}
  BY DEF OrderInv, InPace
<1>5. k # None => k <= server.recorded + 1
  <2>1. k # None => Issued(k, server)
    BY <1>1, DriveOrdered DEF Ordered, MemberOrder
  <2> QED  BY <1>1, <1>2, <2>1, IssuedBound
<1> HIDE DEF k
<1>6. CASE signedUpTo[i] < k
  <2>1. k # None
    BY <1>2, <1>6 DEF None
  <2>2. k = server.recorded + 1 /\ signedUpTo[i] = server.recorded /\ server.recorded < N
    BY <1>1, <1>3, <1>4, <1>5, <1>6, <2>1 DEF SignerAssumption
  <2> QED  BY <1>1, <1>6, <2>2
<1>7. CASE ~ (signedUpTo[i] < k)
  BY <1>1, <1>2, <1>7
<1> QED  BY <1>1, <1>6, <1>7

\* A program that is started again knows nothing.
LEMMA RestartOrdered ==
    ASSUME SignerAssumption, OrderInv, NEW i \in Member, Restart(i)
    PROVE  Ordered'
<1> DEFINE out == {}
<1>1. Forward(server, signedUpTo, server', signedUpTo')
  BY DEF Restart, OrderInv, Inv, CountersInv, Forward, ServerState
<1>2. MemberOrder(i, Booted, server', signedUpTo')
  BY DEF MemberOrder, Booted, None, Member
<1>3. me' = [me EXCEPT ![i] = Booted] /\ network' \subseteq network \cup out
  BY DEF Restart
<1>4. \A m \in out : MessageOrder(m, server', signedUpTo')
  OBVIOUS
<1> HIDE DEF out
<1> QED  BY <1>1, <1>2, <1>3, <1>4, MoveOrdered

-----------------------------------------------------------------------------
(* The handlers, the server and the network *)

\* Nothing moves the server or the signers back that leaves both alone.
LEMMA StandsStill ==
    ASSUME OrderInv, UNCHANGED << server, signedUpTo >>
    PROVE  Forward(server, signedUpTo, server', signedUpTo')
  BY DEF OrderInv, Inv, CountersInv, Forward, ServerState

\* What a member takes over from a datagram is in order as the datagram was.
LEMMA ReceiveOrdered ==
    ASSUME SignerAssumption, OrderInv, NEW i \in Member, NEW m \in network,
           m.dst = i, Receive(i, m)
    PROVE  Ordered'
<1> DEFINE out == {}
<1>1. /\ me[i] \in MemberState /\ InStep(i, me[i]) /\ m \in Message
      /\ MemberOrder(i, me[i], server, signedUpTo)
      /\ MessageOrder(m, server, signedUpTo)
  BY StateFacts DEF OrderInv, Ordered, Inv, NetworkInv
<1>2. /\ Forward(server, signedUpTo, server', signedUpTo')
      /\ server' = server /\ signedUpTo' = signedUpTo
  BY StandsStill DEF Receive
<1>3. network' \subseteq network \cup out
  BY HandledFacts DEF Receive
<1>4. \A q \in out : MessageOrder(q, server', signedUpTo')
  OBVIOUS
<1> HIDE DEF out
<1>5. CASE on_challenge_response(i, m) \/ on_nonce_share(i, m)
  <2> DEFINE s == [me[i] EXCEPT !.nonce = m.nonce]
  <2>1. me' = [me EXCEPT ![i] = s]
    BY <1>5 DEF on_challenge_response, on_nonce_share
  <2>2. Issued(me[i].round, server)
    BY <1>1, <1>5 DEF on_challenge_response, on_nonce_share, OfThisRound,
                      MessageOrder
  <2>3. MemberOrder(i, s, server', signedUpTo')
    BY <1>1, <1>2, <2>2 DEF MemberOrder, MemberState
  <2> HIDE DEF s
  <2> QED  BY <1>2, <1>3, <1>4, <2>1, <2>3, MoveOrdered
<1>6. CASE on_signature_share(i, m)
  <2> DEFINE sigs == With(me[i].signatures, m.src, m.signature)
             s    == [me[i] EXCEPT !.signatures = sigs]
  <2>1. me' = [me EXCEPT ![i] = s]
    BY <1>6 DEF on_signature_share
  <2>2. signedUpTo[m.src] >= me[i].round
    BY <1>1, <1>6 DEF on_signature_share, OfThisRound, MessageOrder
  <2>3. DOMAIN sigs = DOMAIN me[i].signatures \cup {m.src}
    BY DEF With
  <2> HIDE DEF sigs
  <2>4. MemberOrder(i, s, server', signedUpTo')
    BY <1>1, <1>2, <2>2, <2>3 DEF MemberOrder, MemberState
  <2> HIDE DEF s
  <2> QED  BY <1>2, <1>3, <1>4, <2>1, <2>4, MoveOrdered
<1>7. CASE on_round_result(i, m)
  <2> DEFINE s == [me[i] EXCEPT !.round_done = TRUE]
  <2>1. me' = [me EXCEPT ![i] = s]
    BY <1>7 DEF on_round_result
  <2>2. Settled(i, server)
    BY <1>1, <1>7 DEF on_round_result, MessageOrder
  <2>3. MemberOrder(i, s, server', signedUpTo')
    BY <1>1, <1>2, <2>2 DEF MemberOrder, MemberState
  <2> HIDE DEF s
  <2> QED  BY <1>2, <1>3, <1>4, <2>1, <2>3, MoveOrdered
<1>8. CASE OtherRound(i, m)
  BY <1>2, <1>3, <1>4, <1>8, NobodyMovesOrdered DEF OtherRound
<1> QED  BY <1>5, <1>6, <1>7, <1>8 DEF Receive

\* A nonce the server gives out is issued, and a rejection means it finished.
LEMMA ChallengeOrdered ==
    ASSUME SignerAssumption, OrderInv, NEW m \in network, Challenge(m),
           UNCHANGED << me, signedUpTo >>
    PROVE  Ordered' /\ server'.recorded = server.recorded
<1>1. /\ m.src \in Member /\ server \in ServerState
      /\ signedUpTo \in [Member -> 0 .. N]
  BY DEF Challenge, OrderInv, Inv, CountersInv, NetworkInv, Message
<1>2. Handled(m) \subseteq network
  BY HandledFacts
<1> DEFINE reply == [type |-> "ChallengeResponse", src |-> Server, dst |-> m.src,
                     round |-> server.recorded + 1, nonce |-> server.recorded + 1]
           old   == network' = Handled(m) /\ UNCHANGED server
           no    == /\ server.recorded = N
                    /\ network' = Handled(m) \cup {Result(m.src, FALSE)}
                    /\ UNCHANGED server
           yes   == /\ network' = Handled(m) \cup {reply}
                    /\ server' = [server EXCEPT !.live = TRUE]
<1>3. old \/ no \/ yes
  BY DEF Challenge
<1>4. CASE old
  <2> DEFINE out == {}
  <2>1. \A q \in out : MessageOrder(q, server', signedUpTo')
    OBVIOUS
  <2>2. network' \subseteq network \cup out /\ UNCHANGED server
    BY <1>2, <1>4
  <2> HIDE DEF out
  <2> QED  BY <2>1, <2>2, StandsStill, NobodyMovesOrdered
<1>5. CASE no
  <2> DEFINE out == {Result(m.src, FALSE)}
  <2>1. m.src <= N
    BY <1>1 DEF Member
  <2>2. \A q \in out : MessageOrder(q, server', signedUpTo')
    BY <1>5, <2>1 DEF MessageOrder, Result, Settled
  <2>3. network' \subseteq network \cup out /\ UNCHANGED server
    BY <1>2, <1>5
  <2> HIDE DEF out
  <2> QED  BY <2>2, <2>3, StandsStill, NobodyMovesOrdered
<1>6. CASE yes
  <2> DEFINE out == {reply}
  <2>1. /\ server' \in ServerState /\ server'.live
        /\ server'.recorded = server.recorded /\ server'.closed = server.closed
        /\ server.recorded \in Nat
    <3>1. server' = [server EXCEPT !.live = TRUE]
      BY <1>6
    <3>2. server.recorded \in 0 .. N /\ server.closed \in BOOLEAN
      BY <1>1 DEF ServerState
    <3>3. server' = [recorded |-> server.recorded, live |-> TRUE,
                     closed |-> server.closed]
      BY <1>1, <3>1 DEF ServerState
    <3>4. server' \in ServerState
      BY <3>2, <3>3 DEF ServerState
    <3>5. /\ server'.live /\ server'.recorded = server.recorded
          /\ server'.closed = server.closed
      BY <3>3
    <3> QED  BY <3>2, <3>4, <3>5
  <2>2. Forward(server, signedUpTo, server', signedUpTo')
    BY <1>1, <2>1 DEF Forward
  <2>3. \A q \in out : MessageOrder(q, server', signedUpTo')
    BY <2>1 DEF MessageOrder, Issued
  <2>4. network' \subseteq network \cup out
    BY <1>2, <1>6
  <2> HIDE DEF out
  <2> QED  BY <2>1, <2>2, <2>3, <2>4, NobodyMovesOrdered
<1> HIDE DEF old, no, yes
<1> QED  BY <1>3, <1>4, <1>5, <1>6

\* A verdict means that the round is recorded or the budget closed; and a round
\* is recorded only when everybody has signed it.
LEMMA JudgeOrdered ==
    ASSUME SignerAssumption, OrderInv, NEW m \in network, Judge(m),
           UNCHANGED << me, signedUpTo >>
    PROVE  /\ Ordered'
           /\ \/ server'.recorded = server.recorded
              \/ /\ server'.recorded = server.recorded + 1
                 /\ \A j \in Member : signedUpTo[j] > server.recorded
<1> DEFINE accepted == /\ server.live /\ ~ server.closed
                       /\ m.round = server.recorded + 1
                       /\ Verifies(m)
           out      == {Result(m.src, accepted)}
<1>1. /\ m.src \in Member /\ m.round \in Round /\ m.src = m.round
      /\ m.signatures = [j \in Member |-> m.round]
      /\ Issued(m.round, server)
      /\ \A j \in Member : signedUpTo[j] >= m.round
  BY DEF Judge, OrderInv, Ordered, MessageOrder, Inv, NetworkInv, Message, Truthful
<1>2. Handled(m) \subseteq network
  BY HandledFacts
<1>3. server \in ServerState /\ signedUpTo \in [Member -> 0 .. N]
  BY DEF OrderInv, Inv, CountersInv
<1>4. /\ network' = Handled(m) \cup out
      /\ server' = IF accepted
                   THEN [server EXCEPT !.recorded = server.recorded + 1, !.live = FALSE]
                   ELSE server
  BY DEF Judge
<1>5. network' \subseteq network \cup out
  BY <1>2, <1>4
<1>6. CASE accepted
  <2>1. server' = [server EXCEPT !.recorded = server.recorded + 1, !.live = FALSE]
    BY <1>4, <1>6
  <2>2. server.recorded \in 0 .. N /\ server.recorded + 1 \in 0 .. N
    BY <1>1, <1>3, <1>6 DEF ServerState, Round
  <2>3. server' = [recorded |-> server.recorded + 1, live |-> FALSE,
                   closed |-> server.closed]
    BY <1>3, <2>1 DEF ServerState
  <2>4. server' \in ServerState
    BY <1>3, <2>2, <2>3 DEF ServerState
  <2>5. server'.recorded = server.recorded + 1 /\ server'.closed = server.closed
    BY <2>3
  <2>6. Forward(server, signedUpTo, server', signedUpTo')
    BY <1>3, <2>2, <2>4, <2>5 DEF Forward
  <2>7. Settled(m.src, server')
    BY <1>1, <1>6, <2>2, <2>5 DEF Settled
  <2>8. \A q \in out : MessageOrder(q, server', signedUpTo')
    BY <2>7 DEF MessageOrder, Result
  <2>9. \A j \in Member : signedUpTo[j] > server.recorded
    BY <1>1, <1>3, <1>6, <2>2
  <2> HIDE DEF accepted, out
  <2> QED  BY <1>5, <2>5, <2>6, <2>8, <2>9, NobodyMovesOrdered
<1>7. CASE ~ accepted
  <2>1. server' = server
    BY <1>4, <1>7
  <2>2. Verifies(m) \/ m.round # server.recorded + 1
    BY <1>1 DEF Verifies
  <2>3. Settled(m.src, server)
    BY <1>1, <1>3, <1>7, <2>2 DEF Issued, Settled, Round, ServerState
  <2>4. \A q \in out : MessageOrder(q, server', signedUpTo')
    BY <2>1, <2>3 DEF MessageOrder, Result, Settled
  <2> HIDE DEF accepted, out
  <2> QED  BY <1>5, <2>1, <2>4, StandsStill, NobodyMovesOrdered
<1> QED  BY <1>6, <1>7

\* The budget settles everything, and a lost datagram changes nothing held.
LEMMA ExpireOrLoseOrdered ==
    ASSUME SignerAssumption, OrderInv, Expire \/ \E m \in network : Lose(m)
    PROVE  /\ Ordered' /\ server'.recorded = server.recorded
           /\ UNCHANGED signedUpTo
<1> DEFINE out == {}
<1>1. server \in ServerState /\ signedUpTo \in [Member -> 0 .. N]
  BY DEF OrderInv, Inv, CountersInv
<1>2. \A q \in out : MessageOrder(q, server', signedUpTo')
  OBVIOUS
<1>3. CASE Expire
  <2>1. /\ UNCHANGED << me, signedUpTo >> /\ network' \subseteq network \cup out
        /\ server' = [server EXCEPT !.closed = TRUE]
    BY <1>3 DEF Expire
  <2>2. server' = [recorded |-> server.recorded, live |-> server.live, closed |-> TRUE]
    BY <1>1, <2>1 DEF ServerState
  <2>3. /\ server.recorded \in 0 .. N /\ server.live \in BOOLEAN
        /\ server' \in ServerState
    BY <1>1, <2>2 DEF ServerState
  <2>4. /\ server'.recorded = server.recorded /\ server'.live = server.live
        /\ server'.closed
    BY <2>2
  <2>5. Forward(server, signedUpTo, server', signedUpTo')
    BY <1>1, <2>1, <2>3, <2>4 DEF Forward
  <2> HIDE DEF out
  <2> QED  BY <1>2, <2>1, <2>4, <2>5, NobodyMovesOrdered
<1>4. CASE \E m \in network : Lose(m)
  <2>1. UNCHANGED << me, server, signedUpTo >> /\ network' \subseteq network \cup out
    BY <1>4 DEF Lose
  <2> HIDE DEF out
  <2> QED  BY <1>2, <2>1, StandsStill, NobodyMovesOrdered
<1> QED  BY <1>3, <1>4

-----------------------------------------------------------------------------
(* The theorems *)

\* One step: the order stays, and GroupSigning sees one of its steps, or none.
LEMMA OrderStep ==
    ASSUME SignerAssumption, OrderInv, Next
    PROVE  /\ Ordered'
           /\ \/ UNCHANGED << signedUpTo, server >>
              \/ server'.recorded = server.recorded /\ UNCHANGED signedUpTo
              \/ \E i \in Member :
                     /\ signedUpTo[i] = server.recorded
                     /\ server.recorded < N
                     /\ signedUpTo' = [signedUpTo EXCEPT ![i] = signedUpTo[i] + 1]
                     /\ UNCHANGED server
              \/ /\ server'.recorded = server.recorded + 1
                 /\ \A j \in Member : signedUpTo[j] > server.recorded
                 /\ UNCHANGED signedUpTo
<1>1. CASE \E i \in Member : Drive(i)
  BY <1>1, DriveOrdered, DriveSigns
<1>2. CASE \E i \in Member : Restart(i)
  <2>1. UNCHANGED << signedUpTo, server >>
    BY <1>2 DEF Restart
  <2> QED  BY <1>2, <2>1, RestartOrdered
<1>3. CASE \E p, q \in Member \cup {Server} : Deliver(p, q)
  <2>1. PICK p \in Member \cup {Server}, q \in Member \cup {Server}, m \in network :
            /\ m.src = p /\ m.dst = q
            /\ IF q = Server THEN Serve(m) ELSE Receive(q, m)
    BY <1>3 DEF Deliver
  <2>2. CASE q = Server
    <3>1. Challenge(m) \/ Judge(m)
      BY <2>1, <2>2 DEF Serve
    <3>2. UNCHANGED << me, signedUpTo >>
      BY <2>1, <2>2 DEF Serve
    <3> QED  BY <3>1, <3>2, ChallengeOrdered, JudgeOrdered
  <2>3. CASE q # Server
    <3>1. q \in Member /\ Receive(q, m) /\ UNCHANGED << signedUpTo, server >>
      BY <2>1, <2>3 DEF Receive
    <3> QED  BY <2>1, <3>1, ReceiveOrdered
  <2> QED  BY <2>2, <2>3
<1>4. CASE Expire \/ \E m \in network : Lose(m)
  BY <1>4, ExpireOrLoseOrdered
<1> QED  BY <1>1, <1>2, <1>3, <1>4 DEF Next

\* InPace follows from what a step does to the promise.
LEMMA PaceStep ==
    ASSUME SignerAssumption, OrderInv, Next
    PROVE  InPace'
<1>1. /\ server.recorded \in 0 .. N
      /\ signedUpTo \in [Member -> 0 .. N]
      /\ \A i \in Member : signedUpTo[i] \in {server.recorded, server.recorded + 1}
  BY DEF OrderInv, Inv, CountersInv, ServerState, InPace
<1>2. CASE server'.recorded = server.recorded /\ UNCHANGED signedUpTo
  BY <1>1, <1>2 DEF InPace
<1>3. CASE \E i \in Member :
               /\ signedUpTo[i] = server.recorded
               /\ signedUpTo' = [signedUpTo EXCEPT ![i] = signedUpTo[i] + 1]
               /\ UNCHANGED server
  BY <1>1, <1>3 DEF InPace
<1>4. CASE /\ server'.recorded = server.recorded + 1
           /\ \A j \in Member : signedUpTo[j] > server.recorded
           /\ UNCHANGED signedUpTo
  BY <1>1, <1>4 DEF InPace
<1> QED  BY <1>2, <1>3, <1>4, OrderStep

\* OrderInv holds at boot.
LEMMA InitOrder == ASSUME SignerAssumption, Init PROVE OrderInv
<1>1. Inv
  BY InitInv
<1>2. Ordered
  BY DEF Init, Ordered, MemberOrder, Booted, None, Member
<1>3. InPace
  BY DEF Init, InPace
<1> QED  BY <1>1, <1>2, <1>3 DEF OrderInv

\* OrderInv is an invariant.
LEMMA OrderAlways == Spec => []OrderInv
<1>1. ASSUME SignerAssumption, OrderInv, [Next]_vars PROVE OrderInv'
  <2>1. Inv'
    BY <1>1, InvStep DEF OrderInv
  <2>2. CASE Next
    BY <1>1, <2>1, <2>2, OrderStep, PaceStep DEF OrderInv
  <2>3. CASE UNCHANGED vars
    <3>1. InPace'
      BY <1>1, <2>3 DEF vars, OrderInv, InPace
    <3>2. Ordered'
      BY <1>1, <2>3 DEF vars, OrderInv, Ordered, MemberOrder, MessageOrder,
                        Issued, Settled
    <3> QED  BY <2>1, <3>1, <3>2 DEF OrderInv
  <2> QED  BY <1>1, <2>2, <2>3
<1> QED  BY <1>1, SignerAssumption, InitOrder, PTL DEF Spec

\* While the budget lasts, no member is past the round it submits before the
\* server has recorded that round, however late or often verdicts arrive.
THEOREM NobodyLeavesEarly == Spec => []LeavesConfirmed
<1>1. ASSUME OrderInv PROVE LeavesConfirmed
  BY <1>1 DEF OrderInv, Ordered, MemberOrder, Settled, LeavesConfirmed
<1> QED  BY <1>1, OrderAlways, PTL

\* Signer implements GroupSigning: nobody signs ahead of the server, and the
\* server records nothing that not everybody has signed.
THEOREM SignsInStep == Spec => ImplementsGroupSigning
<1>1. ASSUME SignerAssumption, Init PROVE Abstract!Init
  BY <1>1 DEF Init, Abstract!Init, Member
<1>2. ASSUME SignerAssumption, OrderInv, [Next]_vars
      PROVE  [Abstract!Next]_(Abstract!vars)
  <2>1. CASE Next
    BY <1>2, <2>1, OrderStep DEF Abstract!Next, Abstract!vars, Abstract!Sign,
                                 Abstract!Record, Member
  <2>2. CASE UNCHANGED vars
    BY <2>2 DEF vars, Abstract!vars
  <2> QED  BY <1>2, <2>1, <2>2
<1> QED
  BY <1>1, <1>2, SignerAssumption, OrderAlways, PTL
  DEF Spec, ImplementsGroupSigning, Abstract!Spec

=============================================================================
