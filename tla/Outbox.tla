--------------------------------- MODULE Outbox ---------------------------------
(***************************************************************************)
(* The agent's result outbox (outbox.Outbox) and the goroutine that drains   *)
(* it (transport.Client.runOnce), with the crashes and restarts between.     *)
(*                                                                          *)
(* The outbox is a BoltDB file: a bucket of encrypted entries keyed by id,   *)
(* and a meta bucket with a copy of every removed entry, the chain tip and   *)
(* the last id.  Every method runs in one transaction under the mutex, so    *)
(* each is one step.  A ciphertext is identified by the number of the append *)
(* that made it (its nonce is fresh), and the chain tip, a hash, by the      *)
(* sequence of what was hashed.                                              *)
(***************************************************************************)
EXTENDS Naturals, Sequences, FiniteSets, FiniteSetsExt

CONSTANTS
    MaxEntries, MaxBytes,  \* Options: the caps (10 000 entries, 64 MiB)
    PeekMax,               \* entries read by one drain round (10)
    Sizes,                 \* sizes of ciphertexts
    MaxBlobs,              \* bound: results produced by the executor
    MaxBreaks,             \* bound: stream losses
    MaxCrashes,            \* bound: ends of the agent process
    MaxAppendFailures,     \* bound: Append transactions that do not commit
    MaxAckFailures         \* bound: Ack transactions that do not commit

ASSUME OutboxAssumption ==
    /\ MaxEntries \in Nat \ {0} /\ MaxBytes \in Nat /\ PeekMax \in Nat \ {0}
    /\ Sizes \subseteq Nat
    /\ MaxBlobs \in Nat /\ MaxBreaks \in Nat /\ MaxCrashes \in Nat
    /\ MaxAppendFailures \in Nat /\ MaxAckFailures \in Nat

VARIABLES
    entries,     \* bucket "outbox": records [id, blob, size]
    removed,     \* bucket "meta", keys acked:<id>: records [id, blob, size]
    tip,         \* meta chain_tip
    lastID,      \* meta last_id
    proc,        \* the agent process: "up" | "down" | "refused" (Open failed)
    nextID,      \* Outbox.nextID, in memory
    link,        \* a runOnce with its drain goroutine is active
    batch,       \* entries of the last Peek not yet sent
    pending,     \* id sent and about to be acked by the drain, or 0
    late,        \* ids about to be acked by drains of dead streams
    wire,        \* results written to the stream, not yet read by the server
    blobs,       \* ghost: results appended so far (the newest blob's number)
    sent,        \* ghost: blobs for which a Send returned nil
    received,    \* ghost: blobs the server has read
    evicted,     \* ghost: blobs removed by the caps
    contiguous,  \* ghost: every append so far took the id after lastID
    breaks, crashes, appendFailures, ackFailures   \* bounds

store  == <<entries, removed, tip, lastID>>
drain  == <<link, batch, pending, late, wire>>
ghosts == <<blobs, sent, received, evicted, contiguous>>
counts == <<breaks, crashes, appendFailures, ackFailures>>
vars   == <<store, proc, nextID, drain, ghosts, counts>>

Blobs == 1..MaxBlobs
Entry == [id : Nat \ {0}, blob : Blobs, size : Sizes]

Ids(es) == {e.id : e \in es}
BlobsOf(es) == {e.blob : e \in es}

\* The byte count enforceCapTx compares with MaxBytes.
Bytes(es) == MapThenSumSet(LAMBDA e : e.size, es)
Fits(es) == Cardinality(es) <= MaxEntries /\ Bytes(es) <= MaxBytes

\* The type invariant; the caps hold between transactions, and ids are keys.
TypeOK ==
    /\ entries \subseteq Entry /\ removed \subseteq Entry
    /\ Fits(entries)
    /\ Cardinality(Ids(entries)) = Cardinality(entries)
    /\ Cardinality(Ids(removed)) = Cardinality(removed)
    /\ tip \in Seq(Nat \X Blobs) /\ lastID \in Nat
    /\ proc \in {"up", "down", "refused"} /\ nextID \in Nat \ {0}
    /\ link \in BOOLEAN /\ batch \in Seq(Entry) /\ Len(batch) <= PeekMax
    /\ pending \in Nat /\ late \subseteq Nat \ {0} /\ wire \in Seq(Blobs)
    /\ blobs \in 0..MaxBlobs /\ sent \subseteq Blobs /\ received \subseteq Blobs
    /\ evicted \subseteq Blobs /\ contiguous \in BOOLEAN
    /\ breaks \in 0..MaxBreaks /\ crashes \in 0..MaxCrashes
    /\ appendFailures \in 0..MaxAppendFailures /\ ackFailures \in 0..MaxAckFailures

Init ==
    /\ entries = {} /\ removed = {} /\ tip = <<>> /\ lastID = 0
    /\ proc = "up" /\ nextID = 1
    /\ link = FALSE /\ batch = <<>> /\ pending = 0 /\ late = {} /\ wire = <<>>
    /\ blobs = 0 /\ sent = {} /\ received = {} /\ evicted = {} /\ contiguous = TRUE
    /\ breaks = 0 /\ crashes = 0 /\ appendFailures = 0 /\ ackFailures = 0

--------------------------------------------------------------------------------
(***************************************************************************)
(* The store.                                                                *)
(***************************************************************************)
\* Bucket.Put: replaces the value under the key.
Put(es, e) == {f \in es : f.id # e.id} \cup {e}
PutAll(es, new) == {f \in es : f.id \notin Ids(new)} \cup new

\* Mutant: the youngest entries are evicted.
KeptOldest(es) == {e \in es : Fits({f \in es : f.id <= e.id})}

\* enforceCapTx deletes the oldest entry until the rest fits: an entry stays when
\* it is among the youngest entries, from some f on, that fit.
From(es, f) == {e \in es : e.id >= f.id}
Kept(es) == UNION {From(es, f) : f \in {g \in es : Fits(From(es, g))}}

\* computeChainTip
ChainTip(id, blob, prev) == Append(prev, <<id, blob>>)

\* executeAndQueueResult hands a result to Outbox.Append.
OutboxAppend(size) ==
    /\ proc = "up" /\ blobs < MaxBlobs
    /\ LET e    == [id |-> nextID, blob |-> blobs + 1, size |-> size]
           all  == Put(entries, e)
           keep == Kept(all)
       IN  /\ entries' = keep
           /\ removed' = PutAll(removed, all \ keep)
           /\ tip' = ChainTip(e.id, e.blob, tip)
           /\ lastID' = e.id
           /\ evicted' = evicted \cup BlobsOf(all \ keep)
           /\ contiguous' = (contiguous /\ e.id = lastID + 1)
    /\ nextID' = nextID + 1
    /\ blobs' = blobs + 1
    /\ UNCHANGED <<proc, drain, sent, received, counts>>

\* The transaction does not commit (disk full): the caller logs and drops the
\* result, and nextID, which is not part of the transaction, has moved on.
OutboxAppendFails ==
    /\ proc = "up" /\ appendFailures < MaxAppendFailures
    /\ nextID' = nextID + 1
    /\ appendFailures' = appendFailures + 1
    /\ UNCHANGED <<store, proc, drain, ghosts, breaks, crashes, ackFailures>>

\* Mutant: Ack deletes the entry without keeping a copy.
OutboxAckDeletes(id) ==
    /\ entries' = {e \in entries : e.id # id}
    /\ UNCHANGED <<removed, tip, lastID>>

\* Outbox.Ack: the entry moves to the meta bucket; an unknown id is a no-op.
OutboxAck(id) ==
    LET gone == {e \in entries : e.id = id}
    IN  /\ entries' = entries \ gone
        /\ removed' = PutAll(removed, gone)
        /\ UNCHANGED <<tip, lastID>>

\* Outbox.Verify: the tip recomputed over 1..lastID from what is stored.
Stored(i) == {e \in entries : e.id = i}
Evidence(i) == IF Stored(i) # {} THEN Stored(i) ELSE {e \in removed : e.id = i}
Verify ==
    \/ lastID = 0
    \/ /\ \A i \in 1..lastID : Evidence(i) # {}
       /\ tip = [i \in 1..lastID |-> <<i, (CHOOSE e \in Evidence(i) : TRUE).blob>>]

\* Outbox.init, when the agent starts on an existing file.
MaxID == IF entries = {} THEN 0 ELSE Max(Ids(entries))

\* Mutant: the next id is taken from the number of entries.
ReopenFromCount ==
    /\ proc = "down"
    /\ IF lastID > MaxID /\ MaxID > 0
       THEN proc' = "refused" /\ UNCHANGED nextID
       ELSE proc' = "up" /\ nextID' = Cardinality(entries) + 1
    /\ UNCHANGED <<store, drain, ghosts, counts>>

Reopen ==
    /\ proc = "down"
    /\ IF lastID > MaxID /\ MaxID > 0
       THEN proc' = "refused" /\ UNCHANGED nextID
       ELSE proc' = "up" /\ nextID' = MaxID + 1
    /\ UNCHANGED <<store, drain, ghosts, counts>>

--------------------------------------------------------------------------------
(***************************************************************************)
(* The drain goroutine of runOnce, and the stream it writes to.              *)
(***************************************************************************)
Connect ==
    /\ proc = "up" /\ ~link
    /\ link' = TRUE
    /\ UNCHANGED <<store, proc, nextID, batch, pending, late, wire, ghosts, counts>>

\* The PeekMax entries of smallest id, in id order.
RankIn(e, es) == Cardinality({f \in es : f.id <= e.id})

\* Mutants: the cursor starts at the last key; it skips the first key.
PeekNewest ==
    [i \in 1..Min({PeekMax, Cardinality(entries)}) |->
        CHOOSE e \in entries : RankIn(e, entries) = Cardinality(entries) + 1 - i]
PeekSkipsFirst ==
    [i \in 1..Min({PeekMax, Cardinality(entries) - 1}) |->
        CHOOSE e \in entries : RankIn(e, entries) = i + 1]

Peek ==
    [i \in 1..Min({PeekMax, Cardinality(entries)}) |->
        CHOOSE e \in entries : RankIn(e, entries) = i]

\* A Peek that fails is logged and changes nothing; the next tick peeks again, so
\* fairness of this action says that reads of the file do not fail for ever.
DrainPeek ==
    /\ link /\ batch = <<>> /\ pending = 0 /\ entries # {}
    /\ batch' = Peek
    /\ UNCHANGED <<store, proc, nextID, link, pending, late, wire, ghosts, counts>>

\* The loop would skip an entry that does not decode: every entry is what marshal
\* made of a ResultEnvelope, and decodes.
DrainSend ==
    /\ link /\ pending = 0 /\ batch # <<>>
    /\ wire' = Append(wire, Head(batch).blob)
    /\ sent' = sent \cup {Head(batch).blob}
    /\ pending' = Head(batch).id
    /\ batch' = Tail(batch)
    /\ UNCHANGED <<store, proc, nextID, link, late, blobs, received, evicted, contiguous,
                   counts>>

DrainAck ==
    /\ pending # 0
    /\ OutboxAck(pending)
    /\ pending' = 0
    /\ UNCHANGED <<proc, nextID, link, batch, late, wire, ghosts, counts>>

\* An Ack that fails is logged and the loop goes on to the next entry.
DrainAckFails ==
    /\ pending # 0 /\ ackFailures < MaxAckFailures
    /\ pending' = 0
    /\ ackFailures' = ackFailures + 1
    /\ UNCHANGED <<store, proc, nextID, link, batch, late, wire, ghosts, breaks, crashes,
                   appendFailures>>

\* The drain of a dead stream still acks what it had sent, then its next Send
\* fails and it returns.
LateAck(id) ==
    /\ id \in late
    /\ OutboxAck(id)
    /\ late' = late \ {id}
    /\ UNCHANGED <<proc, nextID, link, batch, pending, wire, ghosts, counts>>

ServerReads ==
    /\ link /\ wire # <<>>
    /\ wire' = Tail(wire)
    /\ received' = received \cup {Head(wire)}
    /\ UNCHANGED <<store, proc, nextID, link, batch, pending, late, blobs, sent, evicted,
                   contiguous, counts>>

\* Send, Recv or the heartbeat fails and runOnce returns.
LinkBreak ==
    /\ link /\ breaks < MaxBreaks
    /\ breaks' = breaks + 1
    /\ link' = FALSE /\ batch' = <<>> /\ wire' = <<>>
    /\ late' = late \cup ({pending} \ {0}) /\ pending' = 0
    /\ UNCHANGED <<store, proc, nextID, ghosts, crashes, appendFailures, ackFailures>>

\* The agent process ends, at any point between two transactions.
Crash ==
    /\ proc = "up" /\ crashes < MaxCrashes
    /\ crashes' = crashes + 1
    /\ proc' = "down"
    /\ link' = FALSE /\ batch' = <<>> /\ wire' = <<>> /\ late' = {} /\ pending' = 0
    /\ UNCHANGED <<store, nextID, ghosts, breaks, appendFailures, ackFailures>>

--------------------------------------------------------------------------------
Next ==
    \/ \E size \in Sizes : OutboxAppend(size)
    \/ OutboxAppendFails \/ Reopen \/ Connect
    \/ DrainPeek \/ DrainSend \/ DrainAck \/ DrainAckFails
    \/ \E id \in late : LateAck(id)
    \/ ServerReads \/ LinkBreak \/ Crash

\* The agent reconnects after every error, its service is restarted, and its
\* drain goroutine ticks; results, failures and crashes are not fair.
Fairness ==
    /\ WF_vars(Reopen) /\ WF_vars(Connect)
    /\ WF_vars(DrainPeek) /\ WF_vars(DrainSend) /\ WF_vars(DrainAck)

Spec == Init /\ [][Next]_vars
FairSpec == Spec /\ Fairness

--------------------------------------------------------------------------------
(***************************************************************************)
(* Properties.                                                               *)
(***************************************************************************)

\* A result leaves the file only after a Send of it has succeeded, or because
\* the caps pushed it out: no reopen reuses the id of a stored entry, and no late
\* ack of a dead stream hits an entry it was not meant for.
NoResultLeavesUnsent == 1..blobs \subseteq BlobsOf(entries) \cup sent \cup evicted

\* Results are first sent in the order they were appended, across reconnects,
\* failed acks and restarts.  ResultHandler rejects a sequence it has passed, so
\* a result overtaken by a later one would be lost for good.
FirstSendsInOrder == [][\A b \in sent' \ sent : \A c \in sent : c < b]_vars

\* Verify accepts exactly the histories whose ids were never restarted and never
\* skipped: what Ack and the caps removed is replayed from the copies they keep.
VerifyIffContiguous == Verify <=> contiguous

\* The outbox opens again after any crash, as long as no Ack transaction failed:
\* removals then happen oldest first, so a non-empty bucket holds last_id.
ReopensUnlessAckFailed == proc = "refused" => ackFailures > 0

\* Every appended result is sent or pushed out by the caps, unless the outbox
\* refuses to open.
EventuallySent ==
    \A b \in Blobs : (b <= blobs) ~> (b \in sent \cup evicted \/ proc = "refused")

================================================================================
