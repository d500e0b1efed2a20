---------------------------------- MODULE Audit ----------------------------------
(* The audit chain in the database: appends by concurrent transactions, the     *)
(* retry after a duplicate sequence number, signed Merkle checkpoints, the      *)
(* retention sweep, and the two verifications.                                  *)
(*                                                                              *)
(* On SQLite the flush of a caller's own changes takes the write lock before     *)
(* append reads the head; on Postgres an insert waits for another transaction   *)
(* with the same key.  Either way a duplicate shows at the insert.               *)
EXTENDS Keys, FiniteSetsExt

CONSTANTS
    Writer,       \* transactions that append
    Interval,     \* entries between two checkpoints (100 in the code)
    Retention,    \* ticks an entry is kept
    Engines,      \* the databases to consider, of "sqlite" and "postgres"
    MaxSeq        \* bound on sequence numbers

ASSUME AuditAssumption ==
    /\ Interval \in Nat \ {0} /\ Retention \in Nat /\ MaxSeq \in Nat
    /\ Engines \subseteq {"sqlite", "postgres"}

VARIABLES
    rows,     \* audit_entries, committed
    checks,   \* audit_checkpoints, committed
    tx,       \* the transaction of each writer
    sweep,    \* the cutoff of a sweep that has committed its checkpoint, or None
    engine,
    swept     \* the sequence numbers that sweeps have deleted (history)

auditVars == <<rows, checks, tx, sweep, engine, swept>>

Genesis == <<>>
NoTx == [pc |-> "idle"]

AuditInit ==
    /\ rows = {} /\ checks = {} /\ swept = {} /\ sweep = None
    /\ tx = [w \in Writer |-> NoTx]
    /\ engine \in Engines

\* compute_entry_hash, over the canonical bytes of the entry: what was hashed so far
\* and the entry itself.
EntryHash(seq, ts, actor, prev) == Append(prev, <<seq, ts, actor>>)

\* ORDER BY sequence.
BySeq(set) ==
    [i \in 1..Cardinality(set) |->
       CHOOSE e \in set : Cardinality({o \in set : o.seq <= e.seq}) = i]

\* One level of the Merkle tree: neighbours are hashed in pairs, an odd last node
\* with itself.
Level(nodes) ==
    [i \in 1..((Len(nodes) + 1) \div 2) |->
       <<"node", nodes[2 * i - 1], nodes[IF 2 * i <= Len(nodes) THEN 2 * i ELSE 2 * i - 1]>>]
Reduce(nodes) ==
    LET after[n \in Nat] ==
          IF n = 0 THEN nodes
          ELSE IF Len(after[n - 1]) = 1 THEN after[n - 1] ELSE Level(after[n - 1])
    IN  after[Len(nodes)][1]
MerkleRoot(leaves_) ==
    IF leaves_ = <<>> THEN Genesis
    ELSE Reduce([i \in 1..Len(leaves_) |-> <<"leaf", leaves_[i]>>])

HashesOf(set) == [i \in 1..Cardinality(set) |-> BySeq(set)[i].hash]

Checkpoint(visible) ==
    [covers |-> Max({e.seq : e \in visible}), root |-> MerkleRoot(HashesOf(visible)),
     by |-> sign, pub |-> disk["current.pub"]]

-----------------------------------------------------------------------------
(* append.                                                                     *)

Open(w) == tx[w].pc # "idle"
Visible(w) == rows \cup tx[w].own
\* Who holds SQLite's write lock: the transactions that have written.
Writing(w) == Open(w) /\ (tx[w].own # {} \/ tx[w].flushed)
LockFree(w) == engine = "sqlite" => \A o \in Writer \ {w} : ~Writing(o)
Rest == UNCHANGED <<rows, checks, sweep, engine, swept, keyVars>>

\* A handler with changes of its own, or with none, comes to append an entry.
AppendStart(w, dirty) ==
    /\ ~Open(w) /\ Request
    /\ tx' = [tx EXCEPT ![w] = [pc |-> "start", ts |-> now, dirty |-> dirty, flushed |-> FALSE,
                                seq |-> 0, prev |-> Genesis, own |-> {}, cps |-> {},
                                retried |-> FALSE, lost |-> FALSE]]
    /\ Rest

\* The same transaction appends another entry.
AppendAgain(w) ==
    /\ tx[w].pc = "flushed" /\ Request
    /\ tx' = [tx EXCEPT ![w].pc = "start", ![w].ts = now]
    /\ Rest

\* The head is read under _APPEND_LOCK, which is released before the insert.  The
\* query flushes the caller's changes first.
AppendReadUnflushed(w) ==
    /\ Up /\ tx[w].pc = "start" /\ UNCHANGED calls
    /\ LET last == {e \in Visible(w) : \A o \in Visible(w) : o.seq <= e.seq}
       IN  tx' = [tx EXCEPT ![w].pc = "read",
                            ![w].seq = IF last = {} THEN 0 ELSE (CHOOSE e \in last : TRUE).seq + 1,
                            ![w].prev = IF last = {} THEN Genesis ELSE (CHOOSE e \in last : TRUE).hash]
    /\ Rest
AppendRead(w) ==
    /\ Up /\ tx[w].pc = "start" /\ UNCHANGED calls
    /\ tx[w].dirty => LockFree(w)
    /\ LET last == {e \in Visible(w) : \A o \in Visible(w) : o.seq <= e.seq}
       IN  tx' = [tx EXCEPT ![w].pc = "read", ![w].flushed = @ \/ tx[w].dirty,
                            ![w].seq = IF last = {} THEN 0 ELSE (CHOOSE e \in last : TRUE).seq + 1,
                            ![w].prev = IF last = {} THEN Genesis ELSE (CHOOSE e \in last : TRUE).hash]
    /\ Rest

\* The entry that a transaction is about to insert.
Entry(w) ==
    [seq |-> tx[w].seq, ts |-> tx[w].ts, actor |-> w, prev |-> tx[w].prev,
     hash |-> EntryHash(tx[w].seq, tx[w].ts, w, tx[w].prev), lost |-> tx[w].lost]

\* The insert waits for the write lock, or for the other holder of the key.
CanInsert(w) ==
    /\ Up /\ tx[w].pc = "read" /\ tx[w].seq <= MaxSeq
    /\ LockFree(w)
    /\ \A o \in Writer \ {w} : Open(o) => \A e \in tx[o].own : e.seq # tx[w].seq
Duplicate(w) == \E e \in rows : e.seq = tx[w].seq

\* The entry is flushed, with a checkpoint over everything visible at the end of
\* an interval; without a public key to read the handler fails.
AppendInsert(w) ==
    /\ CanInsert(w) /\ ~Duplicate(w) /\ UNCHANGED calls
    /\ LET own == tx[w].own \cup {Entry(w)}
           due == (tx[w].seq + 1) % Interval = 0
       IN  tx' = IF due /\ disk["current.pub"] <= 0 THEN [tx EXCEPT ![w] = NoTx]
                 ELSE [tx EXCEPT ![w].pc = "flushed", ![w].own = own, ![w].flushed = TRUE,
                                 ![w].cps = IF due THEN @ \cup {Checkpoint(rows \cup own)} ELSE @]
    /\ Rest

\* A duplicate key: the session is rolled back, the caller's changes with it, and
\* the append tried again once; a second duplicate fails the handler.
Rewound(t) == [t EXCEPT !.pc = "start", !.retried = TRUE, !.own = {}, !.cps = {},
                        !.flushed = FALSE, !.lost = @ \/ t.dirty, !.dirty = FALSE]
\* A retry that keeps the head it had read.
AppendCollidesStale(w) ==
    /\ CanInsert(w) /\ Duplicate(w) /\ UNCHANGED calls
    /\ tx' = [tx EXCEPT ![w] = IF @.retried THEN NoTx
                               ELSE [Rewound(@) EXCEPT !.pc = "read", !.seq = @ + 1]]
    /\ Rest
AppendCollides(w) ==
    /\ CanInsert(w) /\ Duplicate(w) /\ UNCHANGED calls
    /\ tx' = [tx EXCEPT ![w] = IF @.retried THEN NoTx ELSE Rewound(@)]
    /\ Rest

Commit(w) ==
    /\ Up /\ tx[w].pc = "flushed" /\ UNCHANGED calls
    /\ rows' = rows \cup tx[w].own
    /\ checks' = checks \cup tx[w].cps
    /\ tx' = [tx EXCEPT ![w] = NoTx]
    /\ UNCHANGED <<sweep, engine, swept, keyVars>>

\* The handler raises, or its wait for the lock times out.
Abort(w) ==
    /\ Up /\ Open(w) /\ UNCHANGED calls
    /\ tx' = [tx EXCEPT ![w] = NoTx]
    /\ Rest

-----------------------------------------------------------------------------
(* RetentionSweeper.sweep: a checkpoint of the whole chain in one transaction,   *)
(* the deletion by timestamp in the next.                                       *)

Old == {e \in rows : e.ts < now - Retention}

SweepCheckpoint ==
    /\ Request /\ sweep = None /\ Old # {}
    /\ LockFree(None) /\ disk["current.pub"] > 0
    /\ checks' = checks \cup {Checkpoint(rows)}
    /\ sweep' = now - Retention
    /\ UNCHANGED <<rows, tx, engine, swept, keyVars>>

\* The entries of the cutoff itself are deleted too.
SweepDeleteInclusive ==
    /\ Up /\ sweep # None /\ LockFree(None) /\ UNCHANGED calls
    /\ rows' = {e \in rows : e.ts > sweep}
    /\ sweep' = None
    /\ swept' = swept \cup {e.seq : e \in rows \ rows'}
    /\ UNCHANGED <<checks, tx, engine, keyVars>>
SweepDelete ==
    /\ Up /\ sweep # None /\ LockFree(None) /\ UNCHANGED calls
    /\ rows' = {e \in rows : e.ts >= sweep}
    /\ sweep' = None
    /\ swept' = swept \cup {e.seq : e \in rows \ rows'}
    /\ UNCHANGED <<checks, tx, engine, keyVars>>

AuditCrash == tx' = [w \in Writer |-> NoTx] /\ sweep' = None
              /\ UNCHANGED <<rows, checks, engine, swept>>

AuditStep ==
    \/ \E w \in Writer :
         \/ \E dirty \in BOOLEAN : AppendStart(w, dirty)
         \/ AppendAgain(w) \/ AppendRead(w) \/ AppendInsert(w) \/ AppendCollides(w)
         \/ Commit(w) \/ Abort(w)
    \/ SweepCheckpoint \/ SweepDelete

-----------------------------------------------------------------------------
(* The verifications.                                                          *)

LinksHold(seq) ==
    \A i \in 1..Len(seq) :
      /\ seq[i].prev = (IF i = 1 THEN Genesis ELSE seq[i - 1].hash)
      /\ seq[i].hash = EntryHash(seq[i].seq, seq[i].ts, seq[i].actor, seq[i].prev)

\* verify of the chain: links and hashes, then every checkpoint against the first
\* entries by position and under the public key it names.
Verify ==
    LET seq == BySeq(rows)
    IN  /\ LinksHold(seq)
        /\ \A c \in checks :
             /\ c.covers < Len(seq)
             /\ c.root = MerkleRoot([i \in 1..(c.covers + 1) |-> seq[i].hash])
             /\ c.by = c.pub

\* The endpoint walks the links and hashes of a range alone, and expects the first
\* entry of the range to follow nothing.
VerifyEndpoint(from, to) == LinksHold(BySeq({e \in rows : e.seq \in from..to}))

\* Both verifications succeed on everything that was committed, until a retention
\* sweep or a crash that split the signing key: force_checkpoint is said to keep the
\* tail verifiable, yet verify compares by position and from genesis.
AuditVerifies ==
    swept # {} \/ (VerifyEndpoint(0, MaxSeq) /\ (split \/ Verify))

\* On SQLite an entry is committed with the change it reports: append rolls the
\* caller back only on Postgres.
EntryKeepsItsChange == engine = "sqlite" => \A e \in rows : ~e.lost

\* The committed rows implement the abstract log, whatever transactions, retries,
\* sweeps and crashes interleave.
Log == INSTANCE AuditLog WITH
         log <- {[seq |-> e.seq, prev |-> e.prev, hash |-> e.hash] : e \in rows},
         expired <- swept \cup {e.seq : e \in Old}
LogImplemented == Log!Spec

================================================================================
