# Verification of blockchain-labs

TLA+ models of the programs in this repository, TLC configurations that check
them on small instances, and TLAPS proofs about them. Source paths below are
relative to the repository root.

## 1. The system

The repository holds three peer-to-peer programs over the IPv8 overlay and three
stand-alone libraries.

| part | state it keeps | operations | hard behaviour |
|---|---|---|---|
| Ledger (`labs/three/chain.py`: blocks, `Chain`, `Mempool`) | the block list, `by_hash`, `by_height`, `tip_hash`; the pending transactions | `validate_block`, `append`, `try_extend`, `adopt_fork`, `_apply`; `add`, `remove`, `take` | two indexes and a tip kept in step by in-place edits and by wholesale replacement |
| Chain node (`labs/three/node.py` `ChainCommunity`, `chain.py` `mining_loop`) | one ledger, the side pool `_pool`, the parents asked for `_inflight`, the discovered peers, the running search | the six datagram handlers, `_ingest_block`, `_kick_walk_back`, `_try_drain_and_reorg`, `_walk_to_genesis`, `broadcast_block`, the mining loop | forks, orphans, lost and reordered datagrams, a search that ends on a tip that has moved |
| Registration (`node.py` `RegistrationCommunity`) | whether a verdict arrived | the quorum gate, a resend every few seconds | retry against a late answer |
| Proof-of-work search (`chain.py` `_chain_worker`, `mine_block_parallel`; `labs/one/miner.py`) | worker processes, a result queue, a stop event | strided search, first winner, terminate and join | two winners at once; workers that never poll the stop event |
| Signing client (`labs/two/signer.py`) | the round, its nonce and signatures, three events | the submitter's and the signer's flow, five handlers | loss, retries and late answers over three rounds |
| Lab 1 client (`labs/one/client.py`) | `submitted`, `done` | periodic submit, one handler | the only submission may be lost |
| `bonus/reorganize.py` | a chain and a mempool | depth-limited reorganisation that restores transactions | all or nothing; which transactions come back |
| `bonus/difficulty.py` | none | retarget, median-time-past gate | clamps and rounding at boundaries |
| `bonus/compact.py` | none | compact, reconstruct, fill | short identifiers that collide |
| `demo/`, `common/` | none | scripted walkthroughs, banners, paths | none |

The parts of lab 3 meet like this. The mining task of a node snapshots its tip
and mempool, searches in worker processes, appends what it finds to the same
`Chain` the handlers use, and gossips the block to the teammates that IPv8 has
discovered. The handlers and the mining task share one asyncio event loop, so a
handler, which never awaits, is atomic; only the mining loop gives up control, in
the middle of an iteration, while it waits for its search. The server is outside
the repository: it submits transactions and asks for heights and blocks.

What makes each part correct:

* ledger: list, indexes and tip always describe one valid path from genesis;
* chain node: the tip only climbs; forks resolve to the longest chain assembled;
  orphans find their way home; no transaction is mined twice; what is told to
  others is true; all nodes end on one chain;
* search: the first winner's nonce is returned and every worker exits;
* lab 1 client: what is submitted is the miner's nonce, and only the server ends the program;
* registration: it is repeated until a verdict arrives, and only sent to a team that listens;
* signing client: a bundle holds three signatures over one nonce; a round ends
  with a verdict; three rounds complete under bounded loss;
* reorganisation: all or nothing, no displaced transaction is lost, and nothing else comes back;
* compact blocks: an honest block is reconstructed, or given up for a reason;
* difficulty: each step is the best one allowed, no time escapes measurement and a constant hash power is found; backdated
  and postdated blocks neither take the chain back in time nor lock honest miners out.

`PROJECT.json` lists the hazards behind these, each at its line, with the
properties that would catch it.

## 2. Modules

```
Ledger ──┬── ChainNode ──┬── MCChainNode ──┐                              (TLC)
         │    │          └── Registration ─┴── MCLateJoiner               (TLC)
         │    └ INSTANCE of LongestChain, which EXTENDS Ledger
         ├── Reorganize ───┐
         │      Compact ───┤
         │     Retarget ───┼── MCBonus                                    (TLC)
         │ TimestampGate ──┴── BonusProofs                                (TLAPS)
         └── LedgerProofs, extended by BonusProofs and
             └── ChainNodeProofs ── ChainNodeHistory ── RegistrationProofs (TLAPS)

GroupSigning ─(INSTANCE)─ Signer (TLC) ── SignerProofs ── SignerRefinement (TLAPS)

MinerWorkers ─┬─ Lab1Client ──┬── MCLabOne                                (TLC)
              │               └── Lab1Proofs                              (TLAPS)
              └─ MCMinerPoll                                              (TLC)
```

**Ledger** holds `chain.py` and the pure part of `_try_drain_and_reorg` as
operators on values.

* A block is named by its header hash, and the header holds the parent's hash.
  Hashes are taken to be collision free, so a block *is* the sequence of headers
  that leads to it: `prev_hash` is `Front`, the height is `Len`, ancestry is
  prefix. Two blocks with equal fields on different parents are different values,
  as their hashes are. The transactions of a block are part of its identity here; in the code the
  hash commits to them through `txs_hash` only (`chain.py:42`), so a block parked
  before it is validated could there stand under a hash with another block's transactions. No run sends one.
* A header keeps the transaction list as a set (`txs`) and everything else,
  timestamp, difficulty, nonce and `txs_hash`, as one `stamp`. `GoodStamp` are the
  stamps for which the checks of `validate_block` that look at the block alone
  succeed. Real headers differ in their timestamp, so several good stamps exist
  and siblings are possible.
* `Chain` is a record with the four fields of the class. `apply` adds a sequence
  of blocks to all four, as the loop over `_apply` does; `adopt_fork` replaces them.
* `Drains` and `Reorgs` are the sets of results the two phases of
  `_try_drain_and_reorg` can have. They are sets because the code takes the first
  suitable entry of a dictionary whose order depends on arrival.
* `take` is any `MaxTxs` of the pending transactions, for the same reason.

**ChainNode** is the node: one action per handler or per outcome of
`_ingest_block`, two for the mining loop, one for peer discovery.

| variable | code |
|---|---|
| `chain`, `pending` | `self.chain`, the keys of `self.mempool.pending` |
| `pool`, `inflight` | `self._pool`, `self._inflight` |
| `peers` | what `get_peers()` returns |
| `candidate` | `prev_hash` and `tx_hashes` in the frame of `mining_loop` during its await |
| `mined` | history, not in the code: the blocks the node mined |
| `network` | datagrams in flight |

| action | code |
|---|---|
| `MineLands`, `MineStale` | `mining_loop` from the end of one search to the start of the next: `append` succeeds, or refuses the block |
| `on_submit_transaction`, `on_get_chain_height`, `on_get_block` | the handlers of those names |
| `IngestKnown`, `IngestInvalid`, `IngestOrphan`, `IngestLands` | `on_new_block` and `on_block_response` through `_ingest_block`, by outcome, each with everything the outcome runs |
| `Refuse` | the handlers' returns on a sender they do not serve |
| `Discover` | external: the random walk |

`IngestLands` is one action although the code runs three phases, because nothing
in it awaits: the mempool is cleared, the tip is extended from the pool, the longest
candidate is offered to `adopt_fork`, the mempool is cleared again and the block
is forwarded if it is the tip by then.

The abstractions that matter:

* A datagram is a record; the signature check of IPv8 is the verified `src`.
* `network` is a set. With `Reliable = FALSE` a datagram stays after delivery: it may be
  lost (never chosen), delayed, overtaken and delivered again. With
  `Reliable = TRUE` it is removed on delivery, and fairness delivers it; two equal
  datagrams in flight count as one, which changes nothing since every handler treats
  a second copy as known or answers it the same way.
* A rejected `SubmitTransactionResponse` carries an empty hash in the code (`node.py:309`) and the
  transaction here; nothing reads it.
* Height fields are trusted by the code and modelled as sent. Members outside
  `Node`, and the server, send the datagrams in `Outside`.
* The first search extends genesis with no transactions, as at boot. A first
  snapshot taken later equals that one followed by `MineStale`.
* Peers are found and never lost: the overlay is configured with `RandomWalk` only,
  which has no removal strategy.
* The status tick, the prints and the keep-alive of IPv8 change nothing the
  properties see and are left out.

**LongestChain** is the promise, without messages, pools or indexes: a tip moves by
mining on it, or to a published chain that is valid from genesis and strictly
longer. `ChainNode` implements it under the refinement `tips <- chain[n].tip_hash`,
`published <-` all blocks mined or sent from outside.

**MCChainNode** gives `ChainNode` its network layouts and outside datagrams.

Eight modules hold the theorems. **LedgerProofs** has the lemmas about `Ledger`, **ChainNodeProofs** what
holds of each node's ledger, **ChainNodeHistory** where blocks and transactions have been and the refinement of
`LongestChain`, **RegistrationProofs** the composition with `Registration`, **SignerProofs** and
**SignerRefinement** lab 2, **Lab1Proofs** lab 1, **BonusProofs** the four bonus libraries.

**Registration** puts `RegistrationCommunity` beside the chain node. Only the registrar's
overlay does anything, so there is one. Its datagrams have a network of their own,
`regnet`, from which any datagram may be lost at any moment, whatever kind of network the chain
overlay has.

| variable or action | code |
|---|---|
| `linked`, `Link` | `reg_overlay.chain`, set by `main` after both overlays run |
| `serverFound`, `registered` | what `_server_peer` finds, `self.registered` |
| `register`, `Quorum` | `_register` when it sends, `_chain_quorum` |
| `on_register_response` | the handler: any verdict of the server ends the repeats |
| `FindServer`, `Answer`, `Drop` | external: discovery, the server, the network |

**MinerWorkers** is the parallel search, the same program in `labs/one/miner.py` and in `chain.py`.
A hash function is the set `good` of the nonces that meet the target.

| variable | code |
|---|---|
| `nonce`, `at` | each worker's local, and whether it is not started, searching, has put, has set the event, is gone |
| `outbox`, `result_queue` | what a worker has put and the feeder thread of its queue has not written yet; the queue as the parent sees it |
| `stop_event`, `killed` | the event; the processes `terminate()` was called for |
| `parent`, `result` | where `mine` is, and what `get()` returned |

`Hit` and `Signal` are the two steps of a winner, `put` and then `set`; `Miss` is one failed attempt
with the look at the event that may follow it; `Leave` is the exit, which waits for the feeder;
`Die` is the arrival of SIGTERM. `Start`, `Get`, `Terminate` and `Join` are the parent.
The digest that travels with the nonce is left out. What a worker does after the parent has
read its result is still modelled, since it may put a second nonce that nobody reads.

**Lab1Client** EXTENDS it with the client that is started with the nonce the miner printed. The overlay and its
periodic task run before `main` binds the nonce (`Boot`, then `Bind`); `find_and_submit` is one tick
that sends, `on_response` the handler, for the server's and for another peer's response; `Stop` is the
end of `main`. `Lose` drops a datagram, at most `MaxLoss` times one of the client's or
the server's; a lost response of the other peer is not counted, as it takes nothing from the client.

**MCMinerPoll** watches `MinerWorkers` with one history variable, the attempts each worker made since
the stop event was set.

**Reorganize** is `bonus/reorganize.py` over the operators of `Ledger`. `reorganize` is one action,
with both early returns and the refusal of `adopt_fork`. Around it stands the caller its
comments and its demo describe: it keeps every transaction it accepts in `tx_archive` (`Submit`), mines
(`Mine`), and offers any of `Candidates`, which need be neither sound nor start at genesis.
`pending` and `tx_archive` are the keys of the two dictionaries. A refused call changes
nothing and is either a stutter of `reorganize` or not enabled.

**Compact** is `bonus/compact.py` inside the exchange of its demo: the sender sends the short form, the receiver
rebuilds or asks once for what it misses, and its mempool may gain and lose transactions
between the two passes. A transaction stands for its hash; `Short` gives the short identifiers, with
collisions where the constant has them; the rest of the header is copied
and left out. `make_compact_block`, `reconstruct` and `fill_missing` are operators of those
names, `short_index` is `build_short_index` under one identifier. The verdict of `reconstruct` names
its three kinds of return: a block, a list of open slots, or neither.

**Retarget** is `retarget` of `bonus/difficulty.py` in the loop `simulate` of its demo. The logarithm and the
rounding are done in integers: `floor(current + log2(ratio) + 0.5)` is
`current` plus the integer nearest to the logarithm, which is found by comparing
squares. A ratio of integers is never half a bit from a power of two, so the
direction in which a tie is rounded never decides; the floating point error of the code is
far below the distance to the nearest tie for the constants of the code.
`Cadence` is either any of `Gaps`, negative ones too, or the gap of a constant hash power,
under which one bit more doubles the time.

**TimestampGate** is the median-time-past gate in front of a growing chain with honest and lying
miners. Only the stamps in the window are kept, as no older one is read.

**MCBonus** extends these four with small instances, one of them per behaviour. They do not know of each
other in the code; they share a run, not a state.

**Signer** is the lab 2 client: `N` members (three in the code) that each submit one
of `N` rounds. The coroutine `run_rounds` with its two flows yields only at its
awaits, so one action is the stretch from one await to the next, and the handlers
interleave between the stretches.

| variable | code |
|---|---|
| `me[i].round`, `nonce`, `signatures`, `round_done` | `current_round`, `current_nonce`, `signatures`, `round_done_event` |
| `me[i].at` | the await the coroutine is at: discovering peers, asking for the challenge, listening for a share, collecting, submitting, between two copies, done |
| `me[i].signed`, `sent`, `bundle` | the locals of the two flows |
| `restarts`, `signedUpTo` | how often a program was started again; history: the highest round each member ever signed in |
| `server` | external: rounds recorded, whether a challenge is live, whether the budget ran out |
| `network`, `lost` | datagrams in flight; how many a reliable network has lost |

| action | code |
|---|---|
| `Start` | `_wait_for_peers` returns, round 1 begins |
| `RequestAgain`, `GiveUp`, `ShareNonce` | the challenge loop: a timeout, a verdict first, the nonce |
| `CollectAgain`, `Submit` | the collecting loop: a timeout, the last signature |
| `SubmitAgain`, `Submitted` | the submission loop: a timeout, a verdict |
| `Sign`, `Fire` | the signer's flow: the first copy, each later copy or the end of the round |
| `on_challenge_response`, `on_nonce_share`, `on_signature_share`, `on_round_result` | the handlers; `OtherRound` is their early return on another round |
| `Restart` | the program is started again, with nothing kept |
| `Challenge`, `Judge`, `Expire`, `Lose` | external: the server's two answers, its budget, the network |

The abstractions. The server gives one nonce per round however often it is asked
(tasks/task-two.md:86), so a nonce is named by its round and a signature by the
nonce it is over. `nonce_event` is set exactly when `nonce` is there, and
`sigs_event` exactly when all signatures are, so neither is a variable. Messages of
strangers are dropped by the handlers and not modelled, and members are honest: the
index in a `SignatureShare` is the sender's. `main` stops the overlay when a member
is done; in the model its handlers keep running, which no property can tell
apart, as its round no longer matters to anybody. Nothing calls `_register_group`.

**GroupSigning** is the promise: nobody signs a round before the server recorded
the one before, and the server records a round only when everybody has signed it.
`Signer` implements it with `signed <- signedUpTo`: what a restarted member signs again
is no step of the promise, and it never signs ahead of the others.

Operators whose comment begins with "Mutant" are wrong on purpose: each is a
plausible slip in the definition that follows it. They are used by no
specification; substituting one shows that the property paired with it in
`PROJECT.json` notices.

## 3. Runs

Deadlock is checked wherever the network is unreliable, as a delivered datagram
can then always be delivered again. With a reliable network the system stops at
`MaxHeight`, or when all members are done, and those configurations say so; so do `lab_one`, `miner_poll` and `bonus`, since searches, clients,
exchanges and simulations end. The runs expected to end in a violation are in section 5.

| run | instance | shows |
|---|---|---|
| fork_race | 2 miners, 2 good stamps, height 3, one transaction for one node, each datagram arrives at most once, at any time and in any order | `LedgerAgrees`, `OrphansAskedFor`, `TipOnlyClimbs`, `LandingAdoptsLongest`, `ImplementsLongestChain`, `NoDoubleInclusion` |
| server_traffic | 2 miners, height 2, one transaction for both nodes, an invalid block from another member, unreliable: datagrams are repeated too | `TypeOK`, `LedgerAgrees`, `OrphansAskedFor`, `WireHeightsTrue`, `CandidateFresh`, `AdvanceClearsPending`, `ImplementsLongestChain` |
| late_joiner | the registrar mines up to height 4, the other node is discovered at any moment, a height query from the server and one from another member, reliable and fair for the chain overlay, any loss of registration datagrams | `NothingStaysParked`, `TeamHearsEveryBlock`, `RegistrarIsAnswered` |
| one_miner_mesh | three connected nodes, one miner, height 2, reliable and fair | `EverybodyCatchesUp` |
| signer_restarts | 2 members, 2 copies, unreliable, two restarts of any member at any moment, a budget that may run out | `TypeOK`, `BundlesVerify`, `LeavesConfirmed`, `ImplementsGroupSigning` |
| signer_finishes | 2 members, 3 copies, 2 losses, reliable and fair, a budget that may run out | `EverybodyFinishes` |
| lab_one | one to three workers, nonces up to 8, polling every 4, every set of one or two good nonces, one loss, a stranger's response, fair | `LeastOfItsStride`, `AnswerUnderway`, `SearchReturns`, `SubmitsTheProof`, `DoneMeansSubmitted`, `FinishesUnlessLost` |
| bonus | Reorganize: height 3, depth limit 1, every chain of one-transaction blocks up to height 3 and unsound ones; Compact: three transactions, two of them alike under one of two nonces, four bodies, any archive; Retarget: windows of 3 blocks, 9 blocks, bits 4 to 8; TimestampGate: window 5, drift 1, clock up to 3 | Reorganize: `AcceptedNeverLost`, `ComesBackOnlyDisplaced`, `DiscardBounded`; Compact: `AbandonsOnlyShadowed`, `ShortOnlyWhenLost`, `HonestBlockArrives`; Retarget: `NoGapEscapes`, `NearestStep`, `Settles`; TimestampGate: `MedianNeverFalls`, `HonestNotLockedOut` |

The bounds:

* `MaxHeight = 3` with two miners is enough for a branch of two to displace a branch of one,
  for a reorganisation back, for an orphan with a missing parent and grandparent, and
  for a drain of two blocks. `fork_race` repeats no datagram, as `NoDoubleInclusion` promises nothing when
  submissions are repeated; a datagram that is still in the network when a behaviour ends was lost.
  `MaxHeight = 2` is enough for a fork and one reorganisation; `server_traffic` uses it because repetition
  and outside traffic multiply the states. All properties of both runs are proved for every height and, but for `NoDoubleInclusion`, for a reliable
  network or not. The bound
  limits mining only; no handler looks at it.
* Two good stamps let each miner find a different block on the same parent.
  With equal stamps both find the same block, which is possible only when
  timestamps and transactions agree too; both cases are in the runs.
* `late_joiner` needs a chain longer than the walk back takes to start: at height 4 the
  late node makes three requests and drains three blocks.
* `MaxTxs = 2` is never reached with one transaction. The limit of `take` is
  covered by its lemma, not by a run.
* `signer_restarts` has two members, since restarts multiply the states; the three of the
  code are covered by the theorems, which hold for any number. Two copies
  are enough, because the unreliable network repeats each of them anyway. Two restarts
  are enough for a member to come back after its own round and again after the
  last one, and for both members to come back. It is also where the early
  rejection of signer.py:283 happens: only a member that was started again can
  ask a server that has finished.
* `signer_finishes` has two members, each of them submitter once and signer once, and
  the three copies of the code. `MaxLoss = 2` is the largest number of losses that cannot swallow all
  copies of a signature; one more is the run `signer_stranded`.
* `Prompt` says that a one second timer outlasts a round trip. It bounds how many
  requests are in flight in the two liveness runs; the safety runs leave it
  out, so there a timer may fire at any moment and every answer may be late.
* `lab_one` needs two workers for a race, three for one that is neither first nor last and
  for an odd number, and two good nonces for two winners, on one stride or on
  two. The period 4 stands for 16384, even as that is. Up to 8, the
  even one of two strides and two of three strides meet it, so some workers poll and some do not.
  `miner_poll` goes up to 16, so that each of three workers can meet the period after a winner.
  Above the last nonce a worker stands still, which is slower than any
  worker of the code.
* `bonus`: with height 3 and limit 1 a candidate can displace one block, or two and be
  refused, and bring a transaction back, hold it too, or hold another. Two
  salts give a block with and without a collision; bodies of two keep order and
  position apart. Nine blocks are three windows: two for the difficulty to cross
  from either end of its range to the other, two bits at a time, and one to stay. Three gaps of -8, 10 or 60 seconds against a target of
  48 make windows that call for each of the steps -2 to 2, some off the powers of two, and windows of zero or less. A window of five holds two lies
  and three honest stamps; it fills, slides, and the clock need only move twice
  to tell a stamp from the past, the present and the future.

Fairness in lab 3, used by its liveness runs only: weak fairness on the delivery of each
node, because the event loop runs every callback that is ready; weak fairness
on a search ending, because the search is a loop over nonces that finds one. That
datagrams arrive is an assumption about the network (`Reliable`), not a
guarantee of the code: section 5 shows what a lost request does. Discovery is not assumed to be
fair: `late_joiner` holds whether or not discovery happens, `one_miner_mesh` starts with
it done.

The liveness runs of lab 2 assume weak fairness on each member's coroutine, because the
event loop resumes what is ready and fires timers that ran out, and on each
link between two parties, for what the network did not lose.

`BootFairness` adds the registration's timer, and strong fairness of the server's answer and of its arrival:
the network may lose any datagram, but not every one of a request that is repeated
for ever. Without the repeats that would promise nothing, since a lost request
would never be in flight again.

`MinerFairness` runs every process, feeder thread and signal delivery: the operating system schedules
them. `ClientFairness` fires the client's timer, resumes its coroutine, and
delivers what is not lost; discovery is not fair, so `FinishesUnlessLost` starts from it. In `bonus`
an exchange that was begun goes on and the simulation runs to its end.

`EverybodyCatchesUp` is stated for one miner. With two it does not hold: see the
first finding.

## 4. Proofs

All proofs are checked by tlapm for every value of the constants.

* Lab 3: any set of nodes and miners, any topology, any datagrams from outside,
  either kind of network, any `MaxHeight`. They assume `LedgerAssumption` (`SignedTx`
  and `GoodStamp` are subsets of `Tx` and `Stamp`, `MaxTxs` is a natural number) and
  `NodeAssumption` (the nodes are members, the server is not, outside datagrams
  are well formed and not signed by a node's key).
* Lab 2: any number of members from two on and of copies, either kind of network,
  any number of losses and restarts, with and without a budget. They assume
  `SignerAssumption`, which says only what kind of value each constant is.
* Lab 1: any number of cores, any bound of the nonces, any sets of good nonces, any polling
  period, any number of losses. They assume `MinerAssumption`, which says so, and
  `PeersAssumption`, that the server is not the other peer.
* `Reorganize`: any set of candidate lists of blocks, any depth limit, any height, with
  `LedgerAssumption`. `Compact`: any identifiers, salts and
  transactions, and bodies that are sequences of transactions. These assumptions are in the theorems.
* Registration: any registrar among the nodes (`RegistrarAssumption`), with what lab 3 assumes.
* `Retarget`: any interval of one block or more, any gaps between blocks, backward ones too, any
  target and bounds of the difficulty (`RetargetAssumption`). `TimestampGate`: any odd window, any drift, any
  end of the clock (`GateAssumption`). The code's window is 11; with an even one the median, the mean of two
  stamps, can fall when the window slides.
* `TransactionsLandOnce` has the hypothesis `SubmittedOnce`: the network duplicates nothing, no two outside
  datagrams submit the same transaction, and no block from outside repeats a transaction or holds a submitted
  one. Nodes accept a transaction again once it was mined (section 5), so the promise is not true without it.
  The run fork_race satisfies it: `MCChainNode` assumes `OnlyN1Once`, which TLC evaluates.

| theorem | statement |
|---|---|
| `ChainNodeProofs!TypeCorrect` | `Spec => []TypeOK` |
| `LedgerCorrect` | `Spec => []LedgerAgrees` |
| `WireHeightsCorrect` | `Spec => []WireHeightsTrue` |
| `TipsClimb` | `Spec => TipOnlyClimbs` |
| `ChainNodeHistory!CandidatesStayFresh` | `Spec => []CandidateFresh` |
| `OrphansAlwaysAskedFor` | `Spec => []OrphansAskedFor` |
| `AdvancesClear` | `Spec => AdvanceClearsPending` |
| `NodesFollowLongestChain` | `Spec => ImplementsLongestChain` |
| `LandingsAdoptLongest` | `Spec => LandingAdoptsLongest` |
| `TransactionsLandOnce` | `SubmittedOnce` proves `Spec => []NoDoubleInclusion` |
| `RegistrationProofs!TeamHears` | `BootSpec => TeamHearsEveryBlock` |
| `SignerProofs!TypeCorrect` | `Spec => []TypeOK` |
| `BundlesAlwaysVerify` | `Spec => []BundlesVerify` |
| `NobodyLeavesEarly` | `Spec => []LeavesConfirmed` |
| `SignsInStep` | `Spec => ImplementsGroupSigning` |
| `Lab1Proofs!AnswerAlwaysUnderway` | `Spec => []AnswerUnderway` |
| `ReturnsLeastOfItsStride` | `Spec => []LeastOfItsStride` |
| `SubmitsOnlyProofs` | `Spec => []SubmitsTheProof` |
| `EndsOnlyAfterSubmitting` | `Spec => []DoneMeansSubmitted` |
| `BonusProofs!NothingAcceptedIsLost` | `Spec => []AcceptedNeverLost` |
| `ReturnsOnlyDisplaced` | `Spec => ComesBackOnlyDisplaced` |
| `DiscardsAtMostTheLimit` | `Spec => DiscardBounded` |
| `AbandonedForAReason` | `CompactSpec => AbandonsOnlyShadowed` |
| `ShortForAReason` | `CompactSpec => ShortOnlyWhenLost` |
| `EveryGapMeasured` | `RetargetSpec => []NoGapEscapes` |
| `StepsAreNearest` | `RetargetSpec => NearestStep` |
| `HonestMinersPass` | `GateSpec => []HonestNotLockedOut` |
| `MedianRises` | `GateSpec => MedianNeverFalls` |

The argument for lab 3. `ChainOf(b)` is the one record a correct `Chain` with tip `b` can be.
The ledger lemmas show that every operation maps such records to such records:
applying the path from `t` to `b` to `ChainOf(t)` gives `ChainOf(b)` when `t` is a prefix of `b`
(`ApplyPath`), the drain ends on a pooled descendant whose new blocks are all
sound (`DrainFacts`), and the reorganisation leaves the chain alone or gives
`ChainOf` of a strictly longer block that is valid from genesis (`ReorgFacts`).
`ChainNodeProofs` carries them through the actions. Its inductive invariant is

    Inv == TypeOK /\ ChainInv /\ WireHeightsTrue

where `ChainInv` says that each chain is `ChainOf` its tip and that the tip is
valid from genesis. `LedgerAgrees` is not inductive by itself: it does not say
that the record has no other content, and the types of the pool are
needed to know that what the drain and the scan assemble are blocks. One lemma per action proves
`TypeOK'`, `WireHeightsTrue'` and `ChainsClimb`, that each chain stayed or became
`ChainOf` a higher valid block; `ChainInv'` and `TipsClimb` both follow from that.

`ChainNodeHistory` adds what the state has been through:

    HistoryInv == Inv /\ Provenance /\ SearchInv /\ OrphanInv

* `Provenance`: every block on a chain, in a side pool or in flight was mined by a node or sent from outside, with all
  its ancestors. It is what makes `published` of `LongestChain` hold whatever a node adopts:
  a walk over the pool ends in a block that exists (`NodesFollowLongestChain`).
* `SearchInv`: a search started at or below the present tip. `CandidateFresh` is not inductive without it: the
  tip could come back to an old candidate's parent after its transactions were mined. Tips only climb, so it does not.
* `OrphanInv`: the node mined every block of its chain or keeps it in its pool, so a reorganisation loses no
  parent of a pooled block but those the node mined itself, the exception `OrphansAskedFor` names.

`AdvanceClearsPending` follows action by action (`Cleared` for the drain and the adoption). `LandingAdoptsLongest`
needs that there is a longest chain the node can assemble, hence that a side pool has a highest block
(`PoolBounded`); `ReorgLongest` then says that the scan of `_try_drain_and_reorg` ends on a chain that long.
`NoDoubleInclusion` follows from `OnceInv`: a transaction that was not mined yet is in one place, its datagram or one
mempool, and in no block that exists; no block that exists holds a transaction twice. A stale search cannot break it,
as it carries the transactions of one mempool and no block with them exists until it succeeds.

`RegistrationProofs`. `BootSpec => Spec`, so all theorems on the chain node hold of the composition.
`QuorumBehind` says that whatever was sent or answered had the quorum before it; since no
peer is lost, a later broadcast goes to all teammates.

The argument for lab 2 has two inductive invariants. The first, `Inv` of `SignerProofs`,
is about values: whatever is in flight or held about a round names that round's nonce
(`Truthful`, `InStep`), which `BundlesVerify` alone does not say of the parts a bundle is
put together from. A bundle is complete when it holds as many signatures as
there are members; that these are everybody's is a fact about cardinalities
(`CompleteFacts`). The second, `OrderInv` of `SignerRefinement`, is about order: a nonce in
flight or held was issued, that is, its round is recorded or is the next one and
live; a signature in flight or held was made, so its signer has signed up to that
round; a verdict means the round is recorded or the budget closed; and nobody is
behind the server or more than one round ahead (`InPace`). All of it survives a step
that moves the server and the signers forward only (`Forward`), so each lemma looks
at the one member that moves and at what it sends. A rejected bundle is the case
worth reading (`JudgeOrdered`): its nonce was issued and its signatures verify, so
the server can only have recorded that round already, or closed the budget.
`OrderStep` then shows that each step is one of `GroupSigning` or none.

The argument for lab 1. `AnswerUnderway` becomes inductive with `FoundUnderway`: until the parent reads, a worker that found a
nonce has it in its outbox, or the queue is not empty. `LeastOfItsStride` needs
`Swept`, that a worker has tried, without success, every number of its stride below its nonce, and so
an arithmetic fact: no number of a stride lies between a number and the next one
(`StrideStep`, from the uniqueness of remainders). The
client's properties follow from `ClientInv`: what is bound is what the parent returned, and a response of the
server in flight means that something was submitted.

The argument for `Reorganize`. The invariant adds to `AcceptedNeverLost` that the chain is `ChainOf` its tip
and that everything pending or archived is signed. The work is in two lemmas. `ListIsWalk`: a list that passes
`adopt_fork` is the walk from genesis to its last block, so the chain is `ChainOf` that block.
`AncestorFacts`: the height `find_common_ancestor_height` returns is that of a block both chains have, and they
differ right above it, so the blocks above it are exactly those the swap removes, and their
transactions those that can be lost (`DisplacedFacts`).

The argument for `Compact`. `SlotFacts` and `PassFacts` say what one pass makes of each slot when the fills
are right: the first pooled transaction with its identifier, and so the block's own unless another one comes before it. The invariant says that they are (`FillsRight`), that a slot the
first pass had resolved is still resolved by the pool unless the pool lost a transaction (`StillResolved`), and
that what was asked for and archived was filled (`Answered`).

The argument for `Retarget`. `RetargetInv`: the windows measured add up to the time between the first stamp and the
last boundary (`Boundary`), which a block that is no boundary leaves where it is and one that is moves up by exactly one
interval (`BoundaryFacts`). `NearestStep`: of two steps the one nearer to the target is told by comparing the product
of the two scaled spans with the square of the target (`FitFacts`), and for the rounded logarithm that comparison is the one
`Rounded` makes (`RoundedFacts`, `ProductFacts`). A clamp stops on the way there, and every step it
rules out is farther along (`NearestFacts`).

The argument for `TimestampGate` is about ranks. `RankedFacts`: there is a stamp of each rank. `RankedBounds`: it is at least
any value with fewer stamps below it, and at most any value with enough stamps up to it. An honest majority puts more than
half of the window at or below the present time, so both middle ranks are there (`HonestMinersPass`). A stamp above
the median `m` adds no stamp below `m`, and dropping the oldest adds none either (`PushedBelow`, an
injection of positions); the lower middle rank of the new window is the upper one of the old, both while
the window fills and, as it is odd, while it slides, so it is at least `m` (`MedianRises`).

Where these proofs would need an induction, over heights or positions, they take the least
counterexample instead: `LeastExists` says that a set of natural numbers that is not empty has a least element.

Model-checked only: liveness (out of TLAPS's reach here, as is ENABLED): `NothingStaysParked`,
`RegistrarIsAnswered`, `EverybodyCatchesUp`, `EverybodyFinishes`, `SearchReturns`, `FinishesUnlessLost`,
`HonestBlockArrives`, `Settles`. Every invariant and every action property that a passing run checks and that
is not about liveness is proved. What a recursive definition
computes on every input cannot be proved with the installed provers, so the models use closed forms
and quantifiers instead of recursion: `Drains` and `Path` describe the end of a
loop, not its steps.

## 5. Where the code and what is said of it differ

Each is a run expected to end in a violation.

| run | line | what happens |
|---|---|---|
| longer_parked | `node.py:400` | README.md:108 says that `_try_drain_and_reorg` scans on every ingest. A block whose parent is only parked is parked too, with no scan and no walk back. The trace is two nodes that mine at the same height, and one of them again: the other holds all of the longer chain and stays on its own. A later block that lands repairs it. |
| signer_stranded | `signer.py:301` | signer.py:300 says the submitter closes every gap with a retry per second. A signer fires its three copies and leaves the round; from then on it ignores the repeated `NonceShare`. If the three copies are lost, the submitter asks for ever. |
| miner_poll | `chain.py:132` | README.md:74 says that the stop event is polled once per 16384 attempts and siblings exit within milliseconds of a winner, chain.py:131 that the probe makes them. A worker looks when its next nonce is a multiple of 16384. With an even number of workers the odd ones try odd nonces only, so they never look: in the trace worker 0 of two wins and worker 1 makes a whole period of attempts without looking. `terminate()` is what ends it. With an odd number of workers each of them does look once per period. |
| signer_early | `signer.py:189` | signer.py:328 says a signer waits until the submitter shares the nonce. `on_challenge_response` does not look at the role: a request that member 1 repeated for round 1, answered after round 1 was recorded, brings it the nonce of round 2. It signs and fires before member 2 has shared, and if member 2 is still in round 1 it drops all three copies: round 2 is stranded with no datagram lost. |

More lines read differently from the code and have no run of their own:

* `compact.py:54` says that `reconstruct` abandons a block when the mismatch is unrecoverable from local state.
  It tries the first pooled candidate of each slot only (`compact.py:75`). With t1 and t2 of one short identifier, a block of
  t1, t2 is abandoned by a mempool of exactly t1 and t2, as t1 fills both slots; and a block of t3, t1 is
  abandoned by the mempool t2, t1, t3 and rebuilt by t1, t2, t3. So the order of the pool decides, and the right
  transaction may be there. `AbandonsOnlyShadowed` is what does hold: some other transaction is pooled before the
  block's own, or without it.
* `chain.py:280` says that a resubmission is absorbed. `Mempool.add` compares with the pending transactions only
  (`chain.py:282`): a transaction that was mined is accepted again and can be mined again.
  `NoDoubleInclusion` is therefore stated for one submission.
* `node.py:229` says the side pool keeps every block that is not the tip reachable. A block the
  node mined was never pooled (`chain.py:325` appends it only), and `adopt_fork` replaces the index
  (`chain.py:220`): after a reorganisation the node does not hold its own block any more.
* `README.md:105` and `node.py:186` say the registrar waits until all nodes are mutually discovered. It
  looks at its own peers only (`node.py:196`); `TeamHearsEveryBlock` is what that is enough for.
* `node.py:403` says extend and branch both clear the mempool. Only extend does; a
  fork block's transactions are cleared when its branch is adopted.
* `node.py:428` says a parent is asked for unless the request is inflight. The parent
  is marked before the sender is looked up among the discovered peers, and if the
  lookup fails the mark stays with nothing sent.
* `signer.py:313` says the bundle is submitted until the server confirms. Any verdict
  ends the round, a rejection after the budget too; `LeavesConfirmed` is
  therefore stated for as long as the budget lasts.

No property covers four more hazards: a transaction submitted again after it was mined (above); and three that no line
of the repository promises away: a parent
whose request or answer was lost, or was answered with another block after a reorganisation, is not asked for again
(`node.py:435`); when an invalid orphan sits on the longest candidate, the next best is not tried (`node.py:471`); and
`reorganize` never takes the adopted chain's transactions out of the mempool (`reorganize.py:66`), so one that was
pending already stays so and can be mined twice. `PROJECT.json` lists them with an empty list of properties.

## 6. Plan

Done: every component that holds state of its own has a module, runs and theorems, and both refinements are proved.

Next: an abstract specification of the parallel search (what is found is a good nonce, and no worker outlives the
call) with the refinement from `MinerWorkers`; of the compact block exchange (the receiver gets the sender's block or
gives up) with the refinement from `Compact`.

Not modelled: `demo/mine.py`, `sign.py` and `chain.py` (scripts over the same code), `common/` (formatting),
byte layouts and hashing (hashes are injective here), the two wire size estimates of
`bonus/compact.py`, IPv8 and the course server
(external, modelled from how the code uses them).
