------------------------------- MODULE Compact -------------------------------
(***************************************************************************)
(* bonus/compact.py: a block travels as its header and one short           *)
(* identifier per transaction; the receiver rebuilds it from its mempool   *)
(* and asks the sender for what it misses, once.  The library is a set of  *)
(* functions; the exchange around them is the one of                       *)
(* demo/bonus/compact.py, and the receiver's mempool may change between    *)
(* its two passes.                                                         *)
(***************************************************************************)
EXTENDS Integers, SequencesExt

CONSTANTS
    TxHash,        \* transactions, each standing for its hash
    Salt,          \* block nonces
    Short(_, _),   \* the short identifier of a transaction under a nonce
    Bodies         \* the transaction lists of blocks

VARIABLES
    block,      \* the sender's: its transactions, what txs_hash commits to, nonce
    archive,    \* the transactions the sender can look up
    mempool,    \* the receiver's, in insertion order
    phase,      \* how far the receiver is
    missing,    \* the slots the first pass left open
    fills,      \* what the sender answered
    rebuilt,    \* the transactions of the rebuilt block
    shrunk      \* history: the mempool lost a transaction since the first pass

compactVars == << block, archive, mempool, phase, missing, fills, rebuilt, shrunk >>

Nothing == << >>

CompactInit ==
    /\ block = [txs |-> Nothing, txs_hash |-> Nothing, nonce |-> CHOOSE s \in Salt : TRUE]
    /\ archive = {}
    /\ mempool = Nothing
    /\ phase = "idle"
    /\ missing = {}
    /\ fills = Nothing
    /\ rebuilt = Nothing
    /\ shrunk = FALSE

-----------------------------------------------------------------------------

short_id(tx, nonce) == Short(tx, nonce)

\* The compact form: the identifiers and, standing for the header, the nonce
\* and the commitment.
make_compact_block(b) ==
    [short_ids |-> [i \in DOMAIN b.txs |-> short_id(b.txs[i], b.nonce)],
     txs_hash |-> b.txs_hash, nonce |-> b.nonce]

\* build_short_index under sid: where the pooled transactions with that
\* identifier are, and the first of them in insertion order.
short_index(pool, nonce, sid) == {k \in DOMAIN pool : short_id(pool[k], nonce) = sid}

\* Mutant of First: the newest candidate instead of the oldest.
FirstIsNewest(positions) == CHOOSE k \in positions : \A j \in positions : k >= j

First(positions) == CHOOSE k \in positions : \A j \in positions : k <= j

\* What the mempool has for one slot: a sequence of at most one transaction.
Pooled(pool, nonce, sid) ==
    LET found == short_index(pool, nonce, sid)
    IN  IF found = {} THEN << >> ELSE << pool[First(found)] >>

\* Mutant of Resolved: the prefills are not applied.
ResolvedByPool(compact, pool, prefilled) ==
    [i \in DOMAIN compact.short_ids |-> Pooled(pool, compact.nonce, compact.short_ids[i])]

\* Each slot: the prefill, or what the mempool has.
Resolved(compact, pool, prefilled) ==
    [i \in DOMAIN compact.short_ids |->
        IF i \in DOMAIN prefilled THEN << prefilled[i] >>
        ELSE Pooled(pool, compact.nonce, compact.short_ids[i])]

Open(resolved) == {i \in DOMAIN resolved : resolved[i] = << >>}

Verdict(compact, resolved) ==
    IF Open(resolved) # {} THEN "missing"
    ELSE IF [i \in DOMAIN resolved |-> resolved[i][1]] # compact.txs_hash THEN "abandoned"
    ELSE "rebuilt"

\* What reconstruct returns: the verdict, the open slots, the transactions.
reconstruct(compact, pool, prefilled) ==
    LET resolved == Resolved(compact, pool, prefilled)
        verdict  == Verdict(compact, resolved)
    IN  [verdict |-> verdict,
         missing |-> Open(resolved),
         body    |-> IF verdict = "rebuilt" THEN [i \in DOMAIN resolved |-> resolved[i][1]]
                     ELSE Nothing]

\* Mutant of fill_missing: the slot before the one asked for.
fill_off_by_one(b, indices, known) ==
    [i \in {i \in indices : i \in DOMAIN b.txs /\ b.txs[i] \in known} |->
        b.txs[IF i = 1 THEN Len(b.txs) ELSE i - 1]]

fill_missing(b, indices, known) ==
    [i \in {i \in indices : i \in DOMAIN b.txs /\ b.txs[i] \in known} |-> b.txs[i]]

-----------------------------------------------------------------------------
(* The exchange *)

\* The sender need not have every transaction of a block it relays, and a
\* forged header commits to another body.
Send ==
    /\ phase = "idle"
    /\ \E body, committed \in Bodies, nonce \in Salt :
           block' = [txs |-> body, txs_hash |-> committed, nonce |-> nonce]
    /\ archive' \in SUBSET TxHash
    /\ phase' = "sent"
    /\ UNCHANGED << mempool, missing, fills, rebuilt, shrunk >>

FirstPass ==
    LET result == reconstruct(make_compact_block(block), mempool, Nothing)
    IN  /\ phase = "sent"
        /\ phase' = result.verdict
        /\ missing' = result.missing
        /\ rebuilt' = result.body
        /\ shrunk' = FALSE
        /\ UNCHANGED << block, archive, mempool, fills >>

Fill ==
    /\ phase = "missing"
    /\ phase' = "filled"
    /\ fills' = fill_missing(block, missing, archive)
    /\ UNCHANGED << block, archive, mempool, missing, rebuilt, shrunk >>

\* A slot that is still open ends the exchange: the demo asserts there is none.
SecondPass ==
    LET result == reconstruct(make_compact_block(block), mempool, fills)
    IN  /\ phase = "filled"
        /\ phase' = IF result.verdict = "missing" THEN "short" ELSE result.verdict
        /\ missing' = result.missing
        /\ rebuilt' = result.body
        /\ UNCHANGED << block, archive, mempool, fills, shrunk >>

\* Mempool.add and Mempool.remove at the receiver, meanwhile.
Arrives(tx) ==
    /\ ~ Contains(mempool, tx)
    /\ mempool' = Append(mempool, tx)
    /\ UNCHANGED << block, archive, phase, missing, fills, rebuilt, shrunk >>

Leaves(k) ==
    /\ mempool' = RemoveAt(mempool, k)
    /\ shrunk' = TRUE
    /\ UNCHANGED << block, archive, phase, missing, fills, rebuilt >>

Ended == phase \in {"rebuilt", "abandoned", "short"}

Step == FirstPass \/ Fill \/ SecondPass

CompactNext ==
    /\ ~ Ended
    /\ \/ Send
       \/ Step
       \/ \E tx \in TxHash : Arrives(tx)
       \/ \E k \in DOMAIN mempool : Leaves(k)

CompactSpec == CompactInit /\ [][CompactNext]_compactVars /\ WF_compactVars(Step)

-----------------------------------------------------------------------------
(* Properties *)

Honest == block.txs_hash = block.txs

\* Another transaction with the identifier of slot i is pooled, before the
\* block's own or without it.
Shadowed(i) ==
    \E k \in DOMAIN mempool :
        /\ mempool[k] # block.txs[i]
        /\ short_id(mempool[k], block.nonce) = short_id(block.txs[i], block.nonce)
        /\ \A j \in 1 .. k - 1 : mempool[j] # block.txs[i]

\* An honest block is abandoned only when a slot that the sender did not fill
\* is shadowed at that moment: a fill is never to blame, nor a collision the
\* insertion order decides for the block's own transaction, nor what was
\* pooled in the first pass and is not any more.
AbandonsOnlyShadowed ==
    [][phase' = "abandoned" /\ Honest =>
           \E i \in DOMAIN block.txs \ DOMAIN fills : Shadowed(i)]_compactVars

\* The second pass is short of a slot only if the receiver lost a transaction
\* since the first, or the sender could not look up one that was asked for.
ShortOnlyWhenLost ==
    [][phase' = "short" => shrunk \/ \E i \in missing : block.txs[i] \notin archive]_compactVars

\* An honest block whose transactions the sender has, and whose identifiers no
\* other transaction shares, is rebuilt, at the latest in the second pass,
\* unless the receiver lost a transaction in between.
Smooth ==
    /\ Honest
    /\ ToSet(block.txs) \subseteq archive
    /\ \A i \in DOMAIN block.txs, tx \in TxHash :
           short_id(tx, block.nonce) = short_id(block.txs[i], block.nonce) => tx = block.txs[i]

HonestBlockArrives ==
    (phase = "sent" /\ Smooth) ~> ((phase = "rebuilt" /\ rebuilt = block.txs) \/ shrunk)

=============================================================================
