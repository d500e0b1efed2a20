----------------------------- MODULE Outbox_proofs -----------------------------
(***************************************************************************)
(* Outbox for any caps, sizes, results, crashes and failures.  Ids and       *)
(* results are given out in one order, also across a restart that begins     *)
(* with id 1 again, so the drain, which goes by id, goes by age.             *)
(***************************************************************************)
EXTENDS Outbox, FiniteSetTheorems, TLAPS

Types ==
    /\ entries \subseteq Entry /\ removed \subseteq Entry /\ IsFiniteSet(entries)
    /\ tip \in Seq(Nat \X Blobs) /\ lastID \in Nat
    /\ proc \in {"up", "down", "refused"} /\ nextID \in Nat \ {0}
    /\ batch \in Seq(Entry) /\ pending \in Nat /\ late \subseteq Nat \ {0}
    /\ blobs \in Nat /\ sent \subseteq Nat /\ contiguous \in BOOLEAN
    /\ ackFailures \in Nat

\* A drain and its late acks do not outlive their process.
ProcInv == proc # "up" => ~link /\ batch = <<>> /\ pending = 0 /\ late = {}

\* Ids are keys, given out in the order of the results, and an id is not given
\* out again while an entry has it.
IdInv ==
    /\ \A e \in entries : e.blob <= blobs /\ e.id <= lastID /\ (proc = "up" => e.id < nextID)
    /\ \A e, f \in entries : /\ e.id = f.id => e = f
                             /\ e.id <= f.id <=> e.blob <= f.blob

\* The batch is what the file held, and agrees with what it holds now.
BatchInv ==
    \A i \in 1..Len(batch) :
        /\ batch[i].blob <= blobs /\ batch[i].id < nextID
        /\ \A j \in 1..Len(batch) : i < j => /\ batch[i].id < batch[j].id
                                             /\ batch[i].blob < batch[j].blob
        /\ \A e \in entries : /\ e.id <= batch[i].id <=> e.blob <= batch[i].blob
                              /\ batch[i].id <= e.id <=> batch[i].blob <= e.blob

\* An ack that is about to be made can only hit an entry that was sent.
AckInv ==
    \A id \in late \cup {pending} :
        /\ id < nextID
        /\ \A e \in entries : e.id = id => e.blob \in sent

\* Whatever is still to be sent for the first time is younger than all that was,
\* and the drain has left nothing behind.
SentInv ==
    /\ \A c \in sent : /\ c <= blobs
                       /\ \A e \in entries : e.blob \notin sent => c < e.blob
                       /\ \A i \in 1..Len(batch) : batch[i].blob \notin sent => c < batch[i].blob
    /\ \A i \in 1..Len(batch) : \A e \in entries :
          e.id < batch[i].id => e.blob \in sent \/ \E j \in 1..Len(batch) : j < i /\ batch[j].id = e.id

\* Without a failed ack entries leave oldest first, so that the newest is last.
OldestInv ==
    ackFailures = 0 =>
        /\ proc # "refused"
        /\ entries # {} => \E e \in entries : e.id = lastID
        /\ \A id \in late \cup {pending} : \A e \in entries : id <= e.id
        /\ \A i \in 1..Len(batch) : \A e \in entries :
              e.id < batch[i].id => e.id = pending \/ \E j \in 1..Len(batch) : j < i /\ batch[j].id = e.id

\* The tip names every append; while ids are contiguous they number the results,
\* and each has an entry or a copy.
ChainInv ==
    /\ Len(tip) = blobs /\ (lastID = IF blobs = 0 THEN 0 ELSE tip[blobs][1])
    /\ \A k \in 1..blobs : tip[k][1] # 0 /\ tip[k][2] = k
    /\ contiguous <=> \A k \in 1..blobs : tip[k][1] = k
    /\ contiguous => /\ \A e \in entries \cup removed : e.id = e.blob /\ e.blob <= blobs
                     /\ \A k \in 1..blobs : \E e \in entries \cup removed : e.id = k

IInv ==
    /\ Types /\ ProcInv /\ IdInv /\ BatchInv /\ AckInv /\ SentInv /\ OldestInv /\ ChainInv
    /\ NoResultLeavesUnsent

--------------------------------------------------------------------------------
(***************************************************************************)
(* Ranks.                                                                    *)
(***************************************************************************)
\* The ranks of a set of entries are 1 to its size, in the order of their ids.
LEMMA RankStep ==
  ASSUME NEW es, es \subseteq Entry, IsFiniteSet(es), \A e, f \in es : e.id = f.id => e = f
  PROVE  /\ Cardinality(es) \in Nat
         /\ \A e \in es : RankIn(e, es) \in 1..Cardinality(es)
         /\ \A e, f \in es : e.id < f.id => RankIn(e, es) < RankIn(f, es)
<1> DEFINE Upto(e) == {f \in es : f.id <= e.id}
<1>0. \A e \in es : e.id \in Nat
  BY DEF Entry
<1>1. Cardinality(es) \in Nat
  BY FS_CardinalityType
<1>2. \A e \in es : Upto(e) \in SUBSET es
  OBVIOUS
<1>3. \A e \in es : /\ IsFiniteSet(Upto(e)) /\ Cardinality(Upto(e)) <= Cardinality(es)
                    /\ Cardinality(Upto(e)) \in Nat
  BY <1>2, FS_Subset, FS_CardinalityType
<1>4. \A e \in es : Upto(e) # {}
  BY <1>0
<1>5. \A e \in es : Cardinality(Upto(e)) # 0
  BY <1>3, <1>4, FS_EmptySet
<1>6. ASSUME NEW e \in es, NEW f \in es, e.id < f.id
      PROVE  Cardinality(Upto(e)) < Cardinality(Upto(f))
  <2>1. Upto(e) \in SUBSET Upto(f) /\ f \in Upto(f) /\ f \notin Upto(e)
    BY <1>0, <1>6
  <2>2. Cardinality(Upto(e)) <= Cardinality(Upto(f)) /\ Cardinality(Upto(e)) # Cardinality(Upto(f))
    BY <1>3, <2>1, FS_Subset
  <2>3. Cardinality(Upto(e)) \in Nat /\ Cardinality(Upto(f)) \in Nat
    BY <1>3
  <2> HIDE DEF Upto
  <2> QED BY <2>2, <2>3
<1> QED BY <1>1, <1>3, <1>5, <1>6 DEF RankIn

LEMMA RankExists ==
  ASSUME NEW es, es \subseteq Entry, IsFiniteSet(es), \A e, f \in es : e.id = f.id => e = f
  PROVE  \A i \in 1..Cardinality(es) : \E e \in es : RankIn(e, es) = i
<1> DEFINE T == 1..Cardinality(es)
           r == [e \in es |-> RankIn(e, es)]
<1>1. /\ Cardinality(es) \in Nat
      /\ \A e \in es : RankIn(e, es) \in 1..Cardinality(es)
      /\ \A e, f \in es : e.id < f.id => RankIn(e, es) < RankIn(f, es)
  BY RankStep
<1>2. r \in [es -> T]
  BY <1>1
<1>3. ASSUME NEW e \in es, NEW f \in es, r[e] = r[f] PROVE e = f
  <2>1. e.id \in Nat /\ f.id \in Nat
    BY DEF Entry
  <2>2. ~ (e.id < f.id) /\ ~ (f.id < e.id)
    BY <1>1, <1>3
  <2>3. e.id = f.id
    BY <2>1, <2>2
  <2> QED BY <2>3
<1>4. r \in Injection(es, T)
  BY <1>2, <1>3 DEF Injection, IsInjective
<1>5. IsFiniteSet(T) /\ Cardinality(T) = Cardinality(es)
  BY <1>1, FS_Interval
<1>6. r \in Surjection(es, T)
  BY <1>4, <1>5, FS_Injection
<1> QED BY <1>6 DEF Surjection

\* A set of entries has a newest one.
LEMMA NewestExists ==
  ASSUME NEW es, es \subseteq Entry, IsFiniteSet(es), es # {}, \A e, f \in es : e.id = f.id => e = f
  PROVE  \E e \in es : \A f \in es : f.id <= e.id
<1>1. Cardinality(es) \in Nat /\ Cardinality(es) # 0
  BY FS_CardinalityType, FS_EmptySet
<1>2. PICK e \in es : RankIn(e, es) = Cardinality(es)
  BY <1>1, RankExists
<1>3. ASSUME NEW f \in es PROVE f.id <= e.id
  <2>1. RankIn(f, es) \in 1..Cardinality(es) /\ (e.id < f.id => RankIn(e, es) < RankIn(f, es))
    BY RankStep
  <2>2. e.id \in Nat /\ f.id \in Nat
    BY DEF Entry
  <2> QED BY <1>1, <1>2, <2>1, <2>2
<1> QED BY <1>3

\* Peek reads entries in the order of their ids, from the oldest on.
LEMMA PeekIs ==
  ASSUME Types, IdInv
  PROVE  /\ Peek \in Seq(Entry)
         /\ \A i \in 1..Len(Peek) : Peek[i] \in entries
         /\ \A i, j \in 1..Len(Peek) : i < j => Peek[i].id < Peek[j].id
         /\ \A i \in 1..Len(Peek) : \A e \in entries :
               e.id < Peek[i].id => \E j \in 1..Len(Peek) : j < i /\ Peek[j] = e
<1> DEFINE n == Cardinality(entries)
           m == Min({PeekMax, n})
<1>1. entries \subseteq Entry /\ IsFiniteSet(entries) /\ \A e, f \in entries : e.id = f.id => e = f
  BY DEF Types, IdInv
<1>2. n \in Nat /\ PeekMax \in Nat
  BY <1>1, FS_CardinalityType, OutboxAssumption
<1>3. m \in Nat /\ m <= n
  BY <1>2 DEF Min
<1>4. \A i \in 1..n : \E e \in entries : RankIn(e, entries) = i
  BY <1>1, RankExists
<1>5. /\ \A e \in entries : RankIn(e, entries) \in 1..n
      /\ \A e, f \in entries : e.id < f.id => RankIn(e, entries) < RankIn(f, entries)
  BY <1>1, RankStep
<1>6. \A e \in entries : e.id \in Nat
  BY <1>1 DEF Entry
<1>7. Peek = [i \in 1..m |-> CHOOSE e \in entries : RankIn(e, entries) = i]
  BY DEF Peek
<1>8. \A i \in 1..m : Peek[i] \in entries /\ RankIn(Peek[i], entries) = i
  BY <1>2, <1>3, <1>4, <1>7
<1>9. Peek \in [1..m -> Entry]
  BY <1>1, <1>7, <1>8
<1>10. Peek \in Seq(Entry) /\ Len(Peek) = m
  <2>1. PICK k \in Nat : k = m
    BY <1>3
  <2>2. Peek \in [1..k -> Entry]
    BY <1>9, <2>1
  <2> HIDE DEF m
  <2> QED BY <2>1, <2>2
<1>11. ASSUME NEW i \in 1..m, NEW j \in 1..m, i < j PROVE Peek[i].id < Peek[j].id
  <2>1. ~ (Peek[j].id < Peek[i].id)
    BY <1>3, <1>5, <1>8, <1>11
  <2>2. Peek[i] # Peek[j]
    BY <1>3, <1>8, <1>11
  <2>3. Peek[i].id # Peek[j].id
    BY <1>1, <1>8, <2>2
  <2> QED BY <1>6, <1>8, <2>1, <2>3
<1>12. ASSUME NEW i \in 1..m, NEW e \in entries, e.id < Peek[i].id
       PROVE  \E j \in 1..m : j < i /\ Peek[j] = e
  <2> DEFINE j == RankIn(e, entries)
  <2>1. j \in 1..n /\ j < i
    BY <1>5, <1>8, <1>12
  <2>2. j \in 1..m
    BY <1>2, <1>3, <2>1
  <2>3. Peek[j] \in entries /\ RankIn(Peek[j], entries) = j
    BY <1>8, <2>2
  <2>4. ~ (Peek[j].id < e.id) /\ ~ (e.id < Peek[j].id)
    BY <1>2, <1>5, <2>1, <2>3
  <2>5. Peek[j].id = e.id
    BY <1>6, <2>3, <2>4
  <2>6. Peek[j] = e
    BY <1>1, <2>3, <2>5
  <2> QED BY <2>1, <2>2, <2>6
<1> QED BY <1>8, <1>10, <1>11, <1>12

--------------------------------------------------------------------------------
(***************************************************************************)
(* The transactions, as the invariants see them.                             *)
(***************************************************************************)
\* Append adds the youngest entry and evicts the oldest ones, keeping copies.
LEMMA AppendIs ==
  ASSUME Types, IdInv, NEW size \in Sizes, OutboxAppend(size)
  PROVE  \E e \in Entry :
           /\ e.id = nextID /\ e.blob = blobs + 1
           /\ entries' \subseteq entries \cup {e} /\ (entries' # {} => e \in entries')
           /\ \A x \in entries \cup {e} : x \in entries' \/ x.blob \in evicted'
           /\ evicted \subseteq evicted'
           /\ entries' \cup removed' \subseteq entries \cup removed \cup {e}
           /\ \A x \in entries \cup removed \cup {e} : \E y \in entries' \cup removed' : y.id = x.id
<1> DEFINE e == [id |-> nextID, blob |-> blobs + 1, size |-> size]
           all == Put(entries, e)
           keep == Kept(all)
<1>1. e \in Entry /\ e.id = nextID /\ e.blob = blobs + 1
  BY OutboxAssumption DEF OutboxAppend, Types, Entry, Blobs
<1>2. /\ entries' = keep /\ removed' = PutAll(removed, all \ keep)
      /\ evicted' = evicted \cup BlobsOf(all \ keep) /\ proc = "up"
  BY DEF OutboxAppend
<1> HIDE DEF e
<1>3. all = entries \cup {e}
  <2>1. \A f \in entries : f.id < nextID /\ f.id \in Nat /\ nextID \in Nat
    BY <1>2 DEF IdInv, Types, Entry
  <2>2. \A f \in entries : f.id # e.id
    BY <1>1, <2>1
  <2> QED BY <2>2 DEF Put
<1> HIDE DEF all
<1>4. keep \subseteq all
  BY DEF Kept, From
<1>5. keep # {} => e \in keep
  <2>1. \A f \in all : e \in From(all, f)
    BY <1>1, <1>2, <1>3 DEF From, IdInv, Types, Entry
  <2> QED BY <2>1 DEF Kept
<1> HIDE DEF keep
<1>6. \A x \in all : x \in keep \/ x.blob \in evicted'
  BY <1>2 DEF BlobsOf
<1>7. removed' \subseteq removed \cup all
  BY <1>2 DEF PutAll
<1>8. \A x \in removed \cup all : \E y \in keep \cup removed' : y.id = x.id
  <2>1. \A x \in all \ keep : x \in removed'
    BY <1>2 DEF PutAll
  <2>2. \A x \in removed : x \in removed' \/ x.id \in Ids(all \ keep)
    BY <1>2 DEF PutAll
  <2>3. \A x \in removed : x \in removed' \/ \E y \in all \ keep : y.id = x.id
    BY <2>2 DEF Ids
  <2> QED BY <2>1, <2>3
<1> QED BY <1>1, <1>2, <1>3, <1>4, <1>5, <1>6, <1>7, <1>8

\* Ack removes the entry with the id, if there is one, and keeps a copy.
LEMMA AckIs ==
  ASSUME NEW id, OutboxAck(id)
  PROVE  /\ entries' = {e \in entries : e.id # id}
         /\ entries' \cup removed' \subseteq entries \cup removed
         /\ \A x \in entries \cup removed : \E y \in entries' \cup removed' : y.id = x.id
         /\ UNCHANGED <<tip, lastID>>
<1> DEFINE gone == {e \in entries : e.id = id}
<1>1. /\ entries' = entries \ gone /\ removed' = PutAll(removed, gone) /\ UNCHANGED <<tip, lastID>>
  BY DEF OutboxAck
<1>2. entries' = {e \in entries : e.id # id}
  BY <1>1
<1>3. removed' \subseteq removed \cup gone
  BY <1>1 DEF PutAll
<1>4. \A x \in gone : x \in removed'
  BY <1>1 DEF PutAll
<1>5. \A x \in removed : x \in removed' \/ \E y \in gone : y.id = x.id
  BY <1>1 DEF PutAll, Ids
<1> QED BY <1>1, <1>2, <1>3, <1>4, <1>5

\* Reopen sees the id of the newest entry.
LEMMA MaxIDIs ==
  ASSUME Types, IdInv
  PROVE  /\ MaxID \in Nat
         /\ entries = {} => MaxID = 0
         /\ entries # {} => /\ MaxID > 0 /\ \E e \in entries : e.id = MaxID
                            /\ \A e \in entries : e.id <= MaxID
<1>1. CASE entries = {}
  BY <1>1 DEF MaxID
<1>2. CASE entries # {}
  <2>1. PICK e \in entries : \A f \in entries : f.id <= e.id
    BY <1>2, NewestExists DEF Types, IdInv
  <2>2. \A x \in Ids(entries) : x \in Nat \ {0}
    BY DEF Ids, Types, Entry
  <2>3. e.id \in Ids(entries) /\ \A x \in Ids(entries) : x <= e.id
    BY <2>1 DEF Ids
  <2>4. Max(Ids(entries)) \in Ids(entries) /\ \A x \in Ids(entries) : Max(Ids(entries)) >= x
    BY <2>2, <2>3 DEF Max
  <2>5. MaxID = Max(Ids(entries))
    BY <1>2 DEF MaxID
  <2>6. \E f \in entries : f.id = MaxID
    BY <2>4, <2>5 DEF Ids
  <2>7. \A f \in entries : f.id <= MaxID
    BY <2>2, <2>4, <2>5 DEF Ids
  <2> QED BY <1>2, <2>2, <2>4, <2>5, <2>6, <2>7
<1> QED BY <1>1, <1>2

--------------------------------------------------------------------------------
(***************************************************************************)
(* The steps.                                                                *)
(***************************************************************************)
\* The numbers of an entry.
LEMMA EntryNumbers ==
  ASSUME Types
  PROVE  /\ \A e \in entries \cup removed : e.id \in Nat \ {0} /\ e.blob \in Nat
         /\ \A i \in 1..Len(batch) : batch[i] \in Entry /\ batch[i].id \in Nat \ {0} /\ batch[i].blob \in Nat
         /\ Len(batch) \in Nat
<1>1. \A e \in Entry : e.id \in Nat \ {0} /\ e.blob \in Nat
  BY OutboxAssumption DEF Entry, Blobs
<1>2. entries \cup removed \subseteq Entry /\ batch \in Seq(Entry)
  BY DEF Types
<1>3. Len(batch) \in Nat /\ \A i \in 1..Len(batch) : batch[i] \in Entry
  BY <1>2
<1> QED BY <1>1, <1>2, <1>3

LEMMA AppendStep ==
  ASSUME IInv, NEW size \in Sizes, OutboxAppend(size)
  PROVE  IInv'
<1> USE DEF IInv
<1>0. PICK e \in Entry :
           /\ e.id = nextID /\ e.blob = blobs + 1
           /\ entries' \subseteq entries \cup {e} /\ (entries' # {} => e \in entries')
           /\ \A x \in entries \cup {e} : x \in entries' \/ x.blob \in evicted'
           /\ evicted \subseteq evicted'
           /\ entries' \cup removed' \subseteq entries \cup removed \cup {e}
           /\ \A x \in entries \cup removed \cup {e} : \E y \in entries' \cup removed' : y.id = x.id
  BY AppendIs
<1>1. /\ nextID' = nextID + 1 /\ blobs' = blobs + 1 /\ lastID' = nextID
      /\ tip' = Append(tip, <<nextID, blobs + 1>>)
      /\ contiguous' = (contiguous /\ nextID = lastID + 1)
      /\ proc = "up" /\ proc' = "up" /\ UNCHANGED <<link, batch, pending, late, sent, ackFailures>>
  BY DEF OutboxAppend, ChainTip, drain, counts
<1>2. nextID \in Nat \ {0} /\ blobs \in Nat /\ lastID \in Nat /\ ackFailures \in Nat
  BY DEF Types
<1>3. /\ \A x \in entries \cup removed : x.id \in Nat \ {0} /\ x.blob \in Nat
      /\ \A i \in 1..Len(batch) : batch[i].id \in Nat \ {0} /\ batch[i].blob \in Nat
      /\ Len(batch) \in Nat
  BY EntryNumbers
<1>4. \A x \in entries : x.id < nextID /\ x.id <= lastID /\ x.blob <= blobs
  BY <1>1 DEF IdInv
<1>5. Types'
  <2>1. IsFiniteSet(entries \cup {e}) /\ entries' \in SUBSET (entries \cup {e})
    BY <1>0, FS_AddElement DEF Types
  <2>2. IsFiniteSet(entries')
    BY <2>1, FS_Subset
  <2>3. blobs + 1 \in Blobs
    BY <1>0 DEF Entry
  <2>4. tip' \in Seq(Nat \X Blobs)
    BY <1>1, <1>2, <2>3 DEF Types
  <2>5. contiguous' \in BOOLEAN
    BY <1>1
  <2>6. entries' \subseteq Entry /\ removed' \subseteq Entry
    BY <1>0 DEF Types
  <2> QED BY <1>1, <1>2, <2>2, <2>4, <2>5, <2>6 DEF Types
<1>6. ProcInv'
  BY <1>1 DEF ProcInv
<1>7. IdInv'
  <2>1. \A x \in entries' : x \in entries \/ x = e
    BY <1>0
  <2>2. \A x \in entries' : x.blob <= blobs' /\ x.id <= lastID' /\ x.id < nextID'
    BY <1>0, <1>1, <1>2, <1>3, <1>4, <2>1
  <2>3. ASSUME NEW x \in entries', NEW y \in entries'
        PROVE  (x.id = y.id => x = y) /\ (x.id <= y.id <=> x.blob <= y.blob)
    BY <1>0, <1>2, <1>3, <1>4, <2>1 DEF IdInv
  <2> QED BY <1>1, <2>2, <2>3 DEF IdInv
<1>8. BatchInv'
  <2>1. \A i \in 1..Len(batch) : batch[i].id < e.id /\ batch[i].blob < e.blob
    BY <1>0, <1>2, <1>3 DEF BatchInv
  <2>2. ASSUME NEW i \in 1..Len(batch), NEW x \in entries'
        PROVE  /\ x.id <= batch[i].id <=> x.blob <= batch[i].blob
               /\ batch[i].id <= x.id <=> batch[i].blob <= x.blob
    <3>1. CASE x \in entries
      BY <3>1 DEF BatchInv
    <3>2. CASE x = e
      BY <1>0, <1>2, <1>3, <2>1, <3>2
    <3> QED BY <1>0, <3>1, <3>2
  <2>3. \A i \in 1..Len(batch) : batch[i].blob <= blobs' /\ batch[i].id < nextID'
    BY <1>1, <1>2, <1>3 DEF BatchInv
  <2> QED BY <1>1, <2>2, <2>3 DEF BatchInv
<1>9. AckInv'
  <2>1. \A id \in late \cup {pending} : id \in Nat /\ id < nextID
    BY DEF AckInv, Types
  <2>2. ASSUME NEW id \in late \cup {pending} PROVE id < nextID' /\ id # e.id
    BY <1>0, <1>1, <1>2, <2>1
  <2>3. ASSUME NEW id \in late \cup {pending}, NEW x \in entries', x.id = id PROVE x.blob \in sent
    BY <1>0, <2>2, <2>3 DEF AckInv
  <2> QED BY <1>1, <2>2, <2>3 DEF AckInv
<1>10. SentInv'
  <2>1. \A c \in sent : c \in Nat /\ c <= blobs
    BY DEF SentInv, Types
  <2>2. \A c \in sent : c <= blobs' /\ c < e.blob
    BY <1>0, <1>1, <1>2, <2>1
  <2>3. \A c \in sent : \A x \in entries' : x.blob \notin sent => c < x.blob
    BY <1>0, <2>2 DEF SentInv
  <2>4. \A i \in 1..Len(batch) : ~ (e.id < batch[i].id)
    BY <1>0, <1>2, <1>3 DEF BatchInv
  <2>5. \A i \in 1..Len(batch) : \A x \in entries' :
          x.id < batch[i].id => x.blob \in sent \/ \E j \in 1..Len(batch) : j < i /\ batch[j].id = x.id
    BY <1>0, <2>4 DEF SentInv
  <2> QED BY <1>1, <2>2, <2>3, <2>5 DEF SentInv
<1>11. OldestInv'
  <2> SUFFICES ASSUME ackFailures = 0 PROVE OldestInv'
    BY <1>1 DEF OldestInv
  <2>1. entries' # {} => \E x \in entries' : x.id = lastID'
    BY <1>0, <1>1
  <2>2. \A id \in late \cup {pending} : id \in Nat /\ id < nextID
    BY DEF AckInv, Types
  <2>3. \A id \in late \cup {pending} : id <= e.id
    BY <1>0, <1>2, <2>2
  <2>4. \A id \in late \cup {pending} : \A x \in entries' : id <= x.id
    BY <1>0, <2>3 DEF OldestInv
  <2>5. \A i \in 1..Len(batch) : ~ (e.id < batch[i].id)
    BY <1>0, <1>2, <1>3 DEF BatchInv
  <2>6. \A i \in 1..Len(batch) : \A x \in entries' :
          x.id < batch[i].id => x.id = pending \/ \E j \in 1..Len(batch) : j < i /\ batch[j].id = x.id
    BY <1>0, <2>5 DEF OldestInv
  <2> QED BY SMTT(30), <1>1, <2>1, <2>4, <2>6 DEF OldestInv
<1>12. ChainInv'
  <2>1. /\ Len(tip) = blobs /\ (lastID = IF blobs = 0 THEN 0 ELSE tip[blobs][1])
        /\ \A k \in 1..blobs : tip[k][1] # 0 /\ tip[k][2] = k
        /\ contiguous <=> \A k \in 1..blobs : tip[k][1] = k
    BY DEF ChainInv
  <2>2. /\ Len(tip') = blobs + 1 /\ \A k \in 1..blobs : tip'[k] = tip[k]
        /\ tip'[blobs + 1] = <<nextID, blobs + 1>>
    BY <1>1, <1>2, <2>1 DEF Types
  <2>3. \A k \in 1..(blobs + 1) : k \in 1..blobs \/ k = blobs + 1
    BY <1>2
  <2>4. \A k \in 1..(blobs + 1) : tip'[k][1] # 0 /\ tip'[k][2] = k
    BY <1>2, <2>1, <2>2, <2>3
  <2>5. contiguous => lastID = blobs
    BY <1>2, <2>1
  <2>6. contiguous' <=> \A k \in 1..(blobs + 1) : tip'[k][1] = k
    <3>1. ASSUME contiguous' PROVE \A k \in 1..(blobs + 1) : tip'[k][1] = k
      <4>1. contiguous /\ nextID = blobs + 1
        BY <1>1, <2>5, <3>1
      <4>2. tip'[blobs + 1][1] = blobs + 1
        BY <2>2, <4>1
      <4> QED BY <2>1, <2>2, <2>3, <4>1, <4>2
    <3>2. ASSUME \A k \in 1..(blobs + 1) : tip'[k][1] = k PROVE contiguous'
      <4>1. \A k \in 1..blobs : tip[k][1] = k
        BY <1>2, <2>2, <3>2
      <4>2. contiguous /\ nextID = blobs + 1
        BY <1>2, <2>1, <2>2, <3>2, <4>1
      <4> QED BY <1>1, <2>5, <4>2
    <3> QED BY <3>1, <3>2
  <2>7. ASSUME contiguous' PROVE /\ \A x \in entries' \cup removed' : x.id = x.blob /\ x.blob <= blobs'
                                 /\ \A k \in 1..(blobs + 1) : \E x \in entries' \cup removed' : x.id = k
    <3>1. contiguous /\ nextID = blobs + 1
      BY <1>1, <2>5, <2>7
    <3>2. \A x \in entries' \cup removed' : x.id = x.blob /\ x.blob <= blobs'
      BY <1>0, <1>1, <1>2, <1>3, <3>1 DEF ChainInv
    <3>3. \A k \in 1..(blobs + 1) : \E x \in entries \cup removed \cup {e} : x.id = k
      BY <1>0, <2>3, <3>1 DEF ChainInv
    <3>4. ASSUME NEW k \in 1..(blobs + 1) PROVE \E y \in entries' \cup removed' : y.id = k
      <4>1. PICK x \in entries \cup removed \cup {e} : x.id = k
        BY <3>3
      <4> QED BY <1>0, <4>1
    <3> QED BY <3>2, <3>4
  <2> QED BY <1>1, <1>2, <2>2, <2>4, <2>6, <2>7 DEF ChainInv
<1>13. NoResultLeavesUnsent'
  <2>1. \A k \in 1..(blobs + 1) : k \in 1..blobs \/ k = e.blob
    BY <1>0, <1>2
  <2>2. \A k \in 1..blobs : k \in sent \/ k \in evicted \/ \E x \in entries : x.blob = k
    BY DEF NoResultLeavesUnsent, BlobsOf
  <2>3. \A k \in 1..(blobs + 1) : k \in sent \/ k \in evicted' \/ \E x \in entries' : x.blob = k
    BY <1>0, <2>1, <2>2
  <2> QED BY <1>1, <2>3 DEF NoResultLeavesUnsent, BlobsOf
<1> QED BY <1>5, <1>6, <1>7, <1>8, <1>9, <1>10, <1>11, <1>12, <1>13

\* An ack that the drain or the drain of a dead stream makes.
LEMMA AckStep ==
  ASSUME IInv, NEW id \in late \cup {pending}, OutboxAck(id),
         late' \subseteq late, pending' = pending \/ (pending' = 0 /\ id = pending),
         UNCHANGED <<proc, nextID, link, batch, wire, ghosts, counts>>
  PROVE  IInv'
<1> USE DEF IInv
<1>0. /\ entries' = {e \in entries : e.id # id}
      /\ entries' \cup removed' \subseteq entries \cup removed
      /\ \A x \in entries \cup removed : \E y \in entries' \cup removed' : y.id = x.id
      /\ UNCHANGED <<tip, lastID>>
  BY AckIs
<1>1. UNCHANGED <<proc, nextID, link, batch, blobs, sent, evicted, contiguous, ackFailures>>
  BY DEF ghosts, counts
<1>2. \A e \in entries : e.id \in Nat \ {0}
  BY EntryNumbers
<1>5. Types'
  <2>1. IsFiniteSet(entries') /\ entries' \subseteq Entry /\ removed' \subseteq Entry
    BY <1>0, FS_Subset DEF Types
  <2> QED BY <1>0, <1>1, <2>1 DEF Types
<1>6. ProcInv'
  BY <1>1 DEF ProcInv
<1>7. IdInv'
  BY <1>0, <1>1 DEF IdInv
<1>8. BatchInv'
  BY <1>0, <1>1 DEF BatchInv
<1>9. AckInv'
  <2>1. \A d \in late' \cup {pending'} : d \in late \cup {pending} \/ d = 0
    OBVIOUS
  <2>2. 0 < nextID
    BY DEF Types
  <2> QED BY <1>0, <1>1, <1>2, <2>1, <2>2 DEF AckInv
<1>10. SentInv'
  BY <1>0, <1>1 DEF SentInv
<1>11. OldestInv'
  <2> SUFFICES ASSUME ackFailures = 0 PROVE OldestInv'
    BY <1>1 DEF OldestInv
  <2>1. ASSUME entries' # {} PROVE \E x \in entries' : x.id = lastID'
    <3>1. PICK y \in entries : y.id # id
      BY <1>0, <2>1
    <3>2. id \in Nat /\ lastID \in Nat /\ id <= y.id /\ y.id <= lastID
      BY DEF OldestInv, IdInv, Types
    <3>3. id # lastID
      BY <1>2, <3>1, <3>2
    <3>4. \E x \in entries : x.id = lastID
      BY <3>1 DEF OldestInv
    <3> QED BY <1>0, <3>3, <3>4
  <2>2. \A d \in late' \cup {pending'} : \A x \in entries' : d <= x.id
    BY <1>0, <1>2 DEF OldestInv
  <2>3. \A i \in 1..Len(batch) : \A x \in entries' :
          x.id < batch[i].id => x.id = pending' \/ \E j \in 1..Len(batch) : j < i /\ batch[j].id = x.id
    BY <1>0 DEF OldestInv
  <2>4. proc' # "refused"
    BY <1>1 DEF OldestInv
  <2> QED BY <1>1, <2>1, <2>2, <2>3, <2>4 DEF OldestInv
<1>12. ChainInv'
  <2>1. contiguous => \A k \in 1..blobs : \E x \in entries' \cup removed' : x.id = k
    <3>1. ASSUME contiguous, NEW k \in 1..blobs PROVE \E y \in entries' \cup removed' : y.id = k
      <4>1. PICK x \in entries \cup removed : x.id = k
        BY <3>1 DEF ChainInv
      <4> QED BY <1>0, <4>1
    <3> QED BY <3>1
  <2> QED BY <1>0, <1>1, <2>1 DEF ChainInv
<1>13. NoResultLeavesUnsent'
  <2>1. \A x \in entries : x \in entries' \/ x.blob \in sent
    BY <1>0 DEF AckInv
  <2>2. \A k \in 1..blobs : k \in sent \/ k \in evicted \/ \E x \in entries : x.blob = k
    BY DEF NoResultLeavesUnsent, BlobsOf
  <2>3. \A k \in 1..blobs : k \in sent \/ k \in evicted \/ \E x \in entries' : x.blob = k
    BY <2>1, <2>2
  <2> QED BY <1>1, <2>3 DEF NoResultLeavesUnsent, BlobsOf
<1> QED BY <1>5, <1>6, <1>7, <1>8, <1>9, <1>10, <1>11, <1>12, <1>13

LEMMA PeekStep ==
  ASSUME IInv, DrainPeek
  PROVE  IInv'
<1> USE DEF IInv
<1>1. /\ batch' = Peek /\ proc = "up"
      /\ UNCHANGED <<entries, removed, tip, lastID, proc, nextID, link, pending, late,
                     blobs, sent, evicted, contiguous, ackFailures>>
  BY DEF DrainPeek, store, ghosts, counts, ProcInv, Types
<1>2. PICK b : b = Peek
  OBVIOUS
<1>3. /\ b \in Seq(Entry)
      /\ \A i \in 1..Len(b) : b[i] \in entries
      /\ \A i, j \in 1..Len(b) : i < j => b[i].id < b[j].id
      /\ \A i \in 1..Len(b) : \A e \in entries :
            e.id < b[i].id => \E j \in 1..Len(b) : j < i /\ b[j] = e
  BY <1>2, PeekIs
<1>4. batch' = b
  BY <1>1, <1>2
<1>5. \A e \in entries : e.id \in Nat \ {0} /\ e.blob \in Nat
  BY EntryNumbers
<1>6. Types' /\ ProcInv' /\ IdInv' /\ AckInv' /\ ChainInv' /\ NoResultLeavesUnsent'
  BY <1>1, <1>3, <1>4 DEF Types, ProcInv, IdInv, AckInv, ChainInv, NoResultLeavesUnsent
<1>7. BatchInv'
  <2>1. \A i, j \in 1..Len(b) : i < j => b[i].blob < b[j].blob
    BY <1>3, <1>5 DEF IdInv
  <2>2. \A i \in 1..Len(b) : b[i].blob <= blobs /\ b[i].id < nextID
    BY <1>1, <1>3 DEF IdInv
  <2>3. \A i \in 1..Len(b) : \A e \in entries : /\ e.id <= b[i].id <=> e.blob <= b[i].blob
                                                /\ b[i].id <= e.id <=> b[i].blob <= e.blob
    BY <1>3 DEF IdInv
  <2> QED BY <1>1, <1>3, <1>4, <2>1, <2>2, <2>3 DEF BatchInv
<1>8. SentInv'
  <2>1. \A c \in sent : \A i \in 1..Len(b) : b[i].blob \notin sent => c < b[i].blob
    BY <1>3 DEF SentInv
  <2>2. \A i \in 1..Len(b) : \A e \in entries :
          e.id < b[i].id => \E j \in 1..Len(b) : j < i /\ b[j].id = e.id
    BY <1>3
  <2> QED BY <1>1, <1>4, <2>1, <2>2 DEF SentInv
<1>9. OldestInv'
  <2>2. \A i \in 1..Len(b) : \A e \in entries :
          e.id < b[i].id => \E j \in 1..Len(b) : j < i /\ b[j].id = e.id
    BY <1>3
  <2> QED BY <1>1, <1>4, <2>2 DEF OldestInv
<1> QED BY <1>6, <1>7, <1>8, <1>9

LEMMA SendStep ==
  ASSUME IInv, DrainSend
  PROVE  /\ IInv'
         /\ \A b \in sent' \ sent : \A c \in sent : c < b
<1> USE DEF IInv
<1> DEFINE n == Len(batch)
<1>0. /\ batch # <<>> /\ pending = 0 /\ batch' = Tail(batch) /\ pending' = Head(batch).id
      /\ sent' = sent \cup {Head(batch).blob} /\ link
      /\ UNCHANGED <<entries, removed, tip, lastID, proc, nextID, link, late,
                     blobs, evicted, contiguous, ackFailures>>
  BY DEF DrainSend, store, counts
<1>1. batch \in Seq(Entry) /\ n \in Nat /\ n # 0
  BY <1>0 DEF Types
<1>2. PICK h : h = batch[1]
  OBVIOUS
<1>3. /\ h \in Entry /\ h.id \in Nat \ {0} /\ h.blob \in Nat
      /\ \A i \in 1..n : batch[i].id \in Nat \ {0} /\ batch[i].blob \in Nat
      /\ \A e \in entries : e.id \in Nat \ {0} /\ e.blob \in Nat
      /\ \A c \in sent : c \in Nat
  BY <1>1, <1>2, EntryNumbers DEF Types
<1>4. pending' = h.id /\ sent' = sent \cup {h.blob}
  BY <1>0, <1>1, <1>2
<1>5. batch' \in Seq(Entry) /\ Len(batch') = n - 1 /\ \A i \in 1..(n - 1) : batch'[i] = batch[i + 1]
  BY <1>0, <1>1
<1>6. \A i \in 1..(n - 1) : i + 1 \in 1..n /\ i \in 1..n /\ 1 < i + 1
  BY <1>1
<1>7. \A j \in 1..n : j # 1 => j - 1 \in 1..(n - 1) /\ batch'[j - 1] = batch[j]
  BY <1>1, <1>5
<1>8. h.blob <= blobs /\ h.id < nextID
  BY <1>1, <1>2 DEF BatchInv
<1>9. \A e \in entries : e.id = h.id => e.blob = h.blob
  BY <1>1, <1>2, <1>3 DEF BatchInv
<1>10. \A e \in entries : e.blob \in sent \/ h.id <= e.id
  BY <1>1, <1>2, <1>3 DEF SentInv
<1>11. \A i \in 1..(n - 1) : h.id < batch'[i].id /\ h.blob < batch'[i].blob
  BY <1>1, <1>2, <1>5, <1>6 DEF BatchInv
<1>12. Types'
  BY <1>0, <1>3, <1>4, <1>5 DEF Types
<1>13. ProcInv' /\ IdInv' /\ ChainInv'
  <2>1. proc = "up"
    BY <1>0 DEF ProcInv
  <2> QED BY <1>0, <2>1 DEF ProcInv, IdInv, ChainInv
<1>14. BatchInv'
  <2>1. ASSUME NEW i \in 1..(n - 1)
        PROVE  /\ batch'[i].blob <= blobs /\ batch'[i].id < nextID
               /\ \A e \in entries : /\ e.id <= batch'[i].id <=> e.blob <= batch'[i].blob
                                     /\ batch'[i].id <= e.id <=> batch'[i].blob <= e.blob
    BY <1>5, <1>6 DEF BatchInv
  <2>2. ASSUME NEW i \in 1..(n - 1), NEW j \in 1..(n - 1), i < j
        PROVE  batch'[i].id < batch'[j].id /\ batch'[i].blob < batch'[j].blob
    <3>1. i + 1 \in 1..n /\ j + 1 \in 1..n /\ i + 1 < j + 1
      BY <1>1, <2>2
    <3> QED BY <1>5, <3>1 DEF BatchInv
  <2> QED BY <1>0, <1>5, <2>1, <2>2 DEF BatchInv
<1>15. AckInv'
  BY <1>0, <1>4, <1>8, <1>9 DEF AckInv
<1>16. SentInv'
  <2>1. ASSUME NEW e \in entries, e.blob \notin sent' PROVE \A c \in sent' : c < e.blob
    <3>1. h.blob <= e.blob /\ e.blob # h.blob
      BY <1>1, <1>2, <1>4, <1>10, <2>1 DEF BatchInv
    <3>2. h.blob < e.blob
      BY <1>3, <3>1
    <3> QED BY <1>4, <2>1, <3>2 DEF SentInv
  <2>2. ASSUME NEW i \in 1..(n - 1), batch'[i].blob \notin sent' PROVE \A c \in sent' : c < batch'[i].blob
    BY <1>4, <1>5, <1>6, <1>11, <2>2 DEF SentInv
  <2>3. ASSUME NEW i \in 1..(n - 1), NEW e \in entries, e.id < batch'[i].id
        PROVE  e.blob \in sent' \/ \E j \in 1..(n - 1) : j < i /\ batch'[j].id = e.id
    <3>1. e.blob \in sent \/ \E j \in 1..n : j < i + 1 /\ batch[j].id = e.id
      BY <1>5, <1>6, <2>3 DEF SentInv
    <3>2. ASSUME NEW j \in 1..n, j < i + 1, batch[j].id = e.id
          PROVE  e.blob \in sent' \/ \E k \in 1..(n - 1) : k < i /\ batch'[k].id = e.id
      <4>1. CASE j = 1
        BY <1>2, <1>4, <1>9, <3>2, <4>1
      <4>2. CASE j # 1
        <5>1. j - 1 \in 1..(n - 1) /\ j - 1 < i /\ batch'[j - 1].id = e.id
          BY <1>1, <1>7, <3>2, <4>2
        <5> QED BY <5>1
      <4> QED BY <4>1, <4>2
    <3> QED BY <1>4, <3>1, <3>2
  <2>4. \A c \in sent' : c <= blobs
    BY <1>4, <1>8 DEF SentInv
  <2> QED BY <1>0, <1>5, <2>1, <2>2, <2>3, <2>4 DEF SentInv
<1>17. OldestInv'
  <2> SUFFICES ASSUME ackFailures = 0 PROVE OldestInv'
    BY <1>0 DEF OldestInv
  <2>1. ASSUME NEW e \in entries PROVE h.id <= e.id
    <3>1. ~ (e.id < h.id)
      BY <1>0, <1>1, <1>2, <1>3 DEF OldestInv
    <3> QED BY <1>3, <3>1
  <2>3. ASSUME NEW i \in 1..(n - 1), NEW e \in entries, e.id < batch'[i].id
        PROVE  e.id = h.id \/ \E j \in 1..(n - 1) : j < i /\ batch'[j].id = e.id
    <3>1. \E j \in 1..n : j < i + 1 /\ batch[j].id = e.id
      BY <1>0, <1>3, <1>5, <1>6, <2>3 DEF OldestInv
    <3>2. PICK j \in 1..n : j < i + 1 /\ batch[j].id = e.id
      BY <3>1
    <3>3. CASE j = 1
      BY <1>2, <3>2, <3>3
    <3>4. CASE j # 1
      <4>1. j - 1 \in 1..(n - 1) /\ j - 1 < i /\ batch'[j - 1].id = e.id
        BY <1>1, <1>7, <3>2, <3>4
      <4> QED BY <4>1
    <3> QED BY <3>3, <3>4
  <2>4. \A id \in late' \cup {pending'} : \A e \in entries : id <= e.id
    BY <1>0, <1>4, <2>1 DEF OldestInv
  <2>5. proc' # "refused" /\ (entries' # {} => \E e \in entries' : e.id = lastID')
    BY <1>0 DEF OldestInv
  <2>6. \A i \in 1..Len(batch') : \A e \in entries' : e.id < batch'[i].id =>
            e.id = pending' \/ \E j \in 1..Len(batch') : j < i /\ batch'[j].id = e.id
    BY <1>0, <1>4, <1>5, <2>3
  <2>7. \A id \in late' \cup {pending'} : \A e \in entries' : id <= e.id
    BY <1>0, <2>4
  <2> QED BY <2>5, <2>6, <2>7 DEF OldestInv
<1>18. NoResultLeavesUnsent'
  BY <1>0 DEF NoResultLeavesUnsent
<1>19. h.blob \notin sent => \A c \in sent : c < h.blob
  BY <1>1, <1>2 DEF SentInv
<1> QED BY <1>4, <1>12, <1>13, <1>14, <1>15, <1>16, <1>17, <1>18, <1>19

\* The stream or the process ends: what the drain held is dropped, and what it
\* had sent and not acked is acked late, if at all.
LEMMA DropStep ==
  ASSUME IInv, batch' = <<>>, pending' = 0, late' \subseteq late \cup {pending}, 0 \notin late',
         proc' = proc \/ (late' = {} /\ proc' = "down"), ~link',
         UNCHANGED <<store, nextID, ghosts, ackFailures>>
  PROVE  IInv'
<1> USE DEF IInv
<1>1. UNCHANGED <<entries, removed, tip, lastID, nextID, blobs, sent, evicted, contiguous, ackFailures>>
  BY DEF store, ghosts
<1>2. batch' \in Seq(Entry) /\ Len(batch') = 0 /\ 1..Len(batch') = {}
  OBVIOUS
<1>3. Types'
  <2>1. late' \subseteq Nat \ {0} /\ pending' \in Nat
    BY DEF Types
  <2>2. proc' \in {"up", "down", "refused"} /\ batch' \in Seq(Entry)
    BY <1>2 DEF Types
  <2> QED BY <1>1, <2>1, <2>2 DEF Types
<1>4. ProcInv'
  BY <1>1, <1>2 DEF ProcInv
<1>5. IdInv' /\ ChainInv' /\ NoResultLeavesUnsent'
  BY <1>1 DEF IdInv, ChainInv, NoResultLeavesUnsent
<1>6. BatchInv'
  BY <1>2 DEF BatchInv
<1>7. AckInv'
  <2>1. 0 < nextID /\ \A e \in entries : e.id # 0
    BY EntryNumbers DEF Types
  <2> QED BY <1>1, <2>1 DEF AckInv
<1>8. SentInv'
  BY <1>1, <1>2 DEF SentInv
<1>9. OldestInv'
  <2>1. \A e \in entries : 0 <= e.id
    BY EntryNumbers
  <2> QED BY <1>1, <1>2, <2>1 DEF OldestInv
<1> QED BY <1>3, <1>4, <1>5, <1>6, <1>7, <1>8, <1>9

LEMMA ReopenStep ==
  ASSUME IInv, Reopen
  PROVE  IInv'
<1> USE DEF IInv
<1>1. /\ proc = "down" /\ UNCHANGED <<entries, removed, tip, lastID, link, batch, pending, late,
                                      blobs, sent, evicted, contiguous, ackFailures>>
      /\ \/ proc' = "refused" /\ lastID > MaxID /\ MaxID > 0 /\ UNCHANGED nextID
         \/ proc' = "up" /\ nextID' = MaxID + 1
  BY DEF Reopen, store, drain, ghosts, counts
<1>2. /\ MaxID \in Nat
      /\ entries = {} => MaxID = 0
      /\ entries # {} => /\ MaxID > 0 /\ \E e \in entries : e.id = MaxID
                         /\ \A e \in entries : e.id <= MaxID
  BY MaxIDIs
<1>3. ~link /\ batch = <<>> /\ pending = 0 /\ late = {}
  BY <1>1 DEF ProcInv
<1>4. \A e \in entries : e.id \in Nat \ {0}
  BY EntryNumbers
<1>5. Types'
  BY <1>1, <1>2 DEF Types
<1>6. ProcInv' /\ ChainInv' /\ NoResultLeavesUnsent' /\ SentInv'
  BY <1>1, <1>3 DEF ProcInv, ChainInv, NoResultLeavesUnsent, SentInv
<1>7. IdInv'
  <2>1. proc' = "up" => \A e \in entries : e.id < nextID'
    BY <1>1, <1>2, <1>4
  <2> QED BY <1>1, <2>1 DEF IdInv
<1>8. BatchInv' /\ AckInv'
  <2>1. 0 < nextID' /\ \A e \in entries : e.id # 0
    BY <1>1, <1>2, <1>4 DEF Types
  <2>2. 1..Len(batch') = {}
    BY <1>1, <1>3
  <2> QED BY <1>1, <1>3, <2>1, <2>2 DEF BatchInv, AckInv
<1>9. OldestInv'
  <2>1. ackFailures = 0 => proc' = "up"
    <3>1. ASSUME ackFailures = 0, entries # {} PROVE ~ (lastID > MaxID)
      <4>1. \E e \in entries : e.id = lastID
        BY <3>1 DEF OldestInv
      <4> QED BY <1>2, <3>1, <4>1 DEF Types
    <3>2. entries = {} => ~ (MaxID > 0)
      BY <1>2
    <3> QED BY <1>1, <3>1, <3>2
  <2> QED BY <1>1, <2>1 DEF OldestInv
<1> QED BY <1>5, <1>6, <1>7, <1>8, <1>9

\* What was sent does not depend on the process, the link or the acks.
LEMMA SentSame == ASSUME SentInv, UNCHANGED <<entries, batch, sent, blobs>> PROVE SentInv'
<1>1. ASSUME NEW c \in sent'
      PROVE  /\ c <= blobs'
             /\ \A e \in entries' : e.blob \notin sent' => c < e.blob
             /\ \A i \in 1..Len(batch') : batch'[i].blob \notin sent' => c < batch'[i].blob
  BY <1>1 DEF SentInv
<1>2. ASSUME NEW i \in 1..Len(batch'), NEW e \in entries', e.id < batch'[i].id
      PROVE  e.blob \in sent' \/ \E j \in 1..Len(batch') : j < i /\ batch'[j].id = e.id
  BY <1>2 DEF SentInv
<1> QED BY <1>1, <1>2 DEF SentInv

\* The steps that touch neither the file nor the drain's place in it.
LEMMA OtherStep ==
  ASSUME IInv, OutboxAppendFails \/ Connect \/ ServerReads \/ DrainAckFails \/ UNCHANGED vars
  PROVE  IInv'
<1> USE DEF IInv, Types
<1>1. CASE OutboxAppendFails
  <2>1. /\ nextID' = nextID + 1 /\ UNCHANGED <<entries, removed, tip, lastID, proc, link, batch, pending, late,
                       blobs, sent, evicted, contiguous, ackFailures>>
    BY <1>1 DEF OutboxAppendFails, store, drain, ghosts
  <2>2. Types' /\ ProcInv'
    BY <2>1 DEF ProcInv
  <2>5. ChainInv' /\ NoResultLeavesUnsent'
    BY <2>1 DEF ChainInv, NoResultLeavesUnsent
  <2>6. SentInv'
    BY <2>1, SentSame
  <2>7. OldestInv'
    BY <2>1 DEF OldestInv
  <2>3. IdInv' /\ AckInv'
    BY <2>1, EntryNumbers DEF IdInv, AckInv
  <2>4. BatchInv'
    BY <2>1, EntryNumbers DEF BatchInv
  <2> QED BY <2>2, <2>3, <2>4, <2>5, <2>6, <2>7
<1>2. CASE Connect
  <2>1. /\ proc = "up" /\ UNCHANGED <<entries, removed, tip, lastID, proc, nextID, batch, pending, late,
                       blobs, sent, evicted, contiguous, ackFailures>>
    BY <1>2 DEF Connect, store, ghosts, counts
  <2>2. Types' /\ ProcInv'
    BY <2>1 DEF ProcInv
  <2>3. IdInv' /\ AckInv'
    BY <2>1 DEF IdInv, AckInv
  <2>4. BatchInv'
    BY <2>1 DEF BatchInv
  <2>5. ChainInv' /\ NoResultLeavesUnsent'
    BY <2>1 DEF ChainInv, NoResultLeavesUnsent
  <2>6. SentInv'
    BY <2>1, SentSame
  <2>7. OldestInv'
    BY <2>1 DEF OldestInv
  <2> QED BY <2>2, <2>3, <2>4, <2>5, <2>6, <2>7
<1>3. CASE ServerReads \/ UNCHANGED vars
  <2>1. UNCHANGED <<entries, removed, tip, lastID, proc, nextID, link, batch, pending, late,
                       blobs, sent, evicted, contiguous, ackFailures>>
    BY <1>3 DEF ServerReads, vars, store, drain, ghosts, counts
  <2>2. Types' /\ ProcInv'
    BY <2>1 DEF ProcInv
  <2>3. IdInv' /\ AckInv'
    BY <2>1 DEF IdInv, AckInv
  <2>4. BatchInv'
    BY <2>1 DEF BatchInv
  <2>5. ChainInv' /\ NoResultLeavesUnsent'
    BY <2>1 DEF ChainInv, NoResultLeavesUnsent
  <2>6. SentInv'
    BY <2>1, SentSame
  <2>7. OldestInv'
    BY <2>1 DEF OldestInv
  <2> QED BY <2>2, <2>3, <2>4, <2>5, <2>6, <2>7
<1>4. CASE DrainAckFails
  <2>1. /\ pending' = 0 /\ ackFailures' = ackFailures + 1
        /\ UNCHANGED <<entries, removed, tip, lastID, proc, nextID, link, batch, late,
                       blobs, sent, evicted, contiguous>>
    BY <1>4 DEF DrainAckFails, store, ghosts
  <2>2. Types'
    BY <2>1
  <2>5. ProcInv' /\ IdInv'
    BY <2>1 DEF ProcInv, IdInv
  <2>6. BatchInv'
    BY <2>1 DEF BatchInv
  <2>7. ChainInv' /\ NoResultLeavesUnsent'
    BY <2>1 DEF ChainInv, NoResultLeavesUnsent
  <2>8. SentInv'
    BY <2>1, SentSame
  <2>3. AckInv'
    BY <2>1, EntryNumbers DEF AckInv
  <2>4. OldestInv'
    BY <2>1 DEF OldestInv
  <2> QED BY <2>2, <2>3, <2>4, <2>5, <2>6, <2>7, <2>8
<1> QED BY <1>1, <1>2, <1>3, <1>4

--------------------------------------------------------------------------------
(***************************************************************************)
(* The theorems.                                                             *)
(***************************************************************************)
LEMMA IInvStep == ASSUME IInv, [Next]_vars PROVE IInv'
<1>1. ASSUME NEW size \in Sizes, OutboxAppend(size) PROVE IInv'
  BY <1>1, AppendStep
<1>2. CASE DrainAck
  <2>1. /\ OutboxAck(pending) /\ pending' = 0
        /\ UNCHANGED <<proc, nextID, link, batch, late, wire, ghosts, counts>>
    BY <1>2 DEF DrainAck
  <2>2. PICK id \in late \cup {pending} : id = pending
    OBVIOUS
  <2> QED BY <2>1, <2>2, AckStep
<1>3. ASSUME NEW id \in late, LateAck(id) PROVE IInv'
  <2>1. /\ OutboxAck(id) /\ late' \subseteq late
        /\ UNCHANGED <<proc, nextID, link, batch, pending, wire, ghosts, counts>>
    BY <1>3 DEF LateAck
  <2> QED BY <2>1, AckStep
<1>4. CASE LinkBreak
  <2>1. /\ batch' = <<>> /\ pending' = 0 /\ late' = late \cup ({pending} \ {0}) /\ ~link'
        /\ UNCHANGED <<proc, store, nextID, ghosts, ackFailures>>
    BY <1>4 DEF LinkBreak
  <2>2. 0 \notin late
    BY DEF IInv, Types
  <2> QED BY <2>1, <2>2, DropStep
<1>5. CASE Crash
  <2>1. /\ batch' = <<>> /\ pending' = 0 /\ late' = {} /\ ~link' /\ proc' = "down"
        /\ UNCHANGED <<store, nextID, ghosts, ackFailures>>
    BY <1>5 DEF Crash
  <2> QED BY <2>1, DropStep
<1> QED BY <1>1, <1>2, <1>3, <1>4, <1>5, PeekStep, SendStep, ReopenStep, OtherStep DEF Next

LEMMA IInvHolds == Spec => []IInv
<1>1. Init => IInv
  <2> SUFFICES ASSUME Init PROVE IInv
    OBVIOUS
  <2> USE DEF Init
  <2>1. IsFiniteSet(entries) /\ 1..Len(batch) = {} /\ 1..blobs = {} /\ Len(tip) = 0
    BY FS_EmptySet
  <2>2. Types
    BY <2>1 DEF Types
  <2>3. ProcInv /\ IdInv /\ AckInv /\ NoResultLeavesUnsent
    BY <2>1 DEF ProcInv, IdInv, AckInv, NoResultLeavesUnsent
  <2>4. BatchInv /\ SentInv /\ OldestInv
    BY <2>1 DEF BatchInv, SentInv, OldestInv
  <2>5. ChainInv
    BY <2>1 DEF ChainInv
  <2> QED BY <2>2, <2>3, <2>4, <2>5 DEF IInv
<1> QED BY <1>1, IInvStep, PTL DEF Spec

\* No result is lost between Outbox.Append and the stream: whatever the order of
\* acks, late acks, crashes and restarts of the ids, only a sent result or one
\* that the caps evict leaves the file.
THEOREM UnsentResultsStay == Spec => []NoResultLeavesUnsent
<1>1. IInv => NoResultLeavesUnsent
  BY DEF IInv
<1> QED BY <1>1, IInvHolds, PTL

\* Outbox.Open succeeds after every crash as long as no Ack transaction failed.
THEOREM ReopenSucceeds == Spec => []ReopensUnlessAckFailed
<1>1. IInv => ReopensUnlessAckFailed
  BY DEF IInv, OldestInv, Types, ReopensUnlessAckFailed
<1> QED BY <1>1, IInvHolds, PTL

\* Outbox.Verify accepts exactly the files whose ids were never restarted and
\* never skipped.
THEOREM VerifyAcceptsContiguous == Spec => []VerifyIffContiguous
<1>1. ASSUME IInv PROVE VerifyIffContiguous
  <2> USE <1>1 DEF IInv
  <2>1. blobs \in Nat /\ lastID \in Nat /\ tip \in Seq(Nat \X Blobs) /\ Len(tip) = blobs
    BY DEF Types, ChainInv
  <2>2. (lastID = IF blobs = 0 THEN 0 ELSE tip[blobs][1]) /\ \A k \in 1..blobs : tip[k][1] # 0 /\ tip[k][2] = k
    BY DEF ChainInv
  <2>3. ASSUME Verify PROVE contiguous
    <3>1. CASE lastID = 0
      <4>1. blobs = 0
        BY <2>1, <2>2, <3>1
      <4> QED BY <4>1 DEF ChainInv
    <3>2. CASE lastID # 0
      <4>1. tip = [i \in 1..lastID |-> <<i, (CHOOSE e \in Evidence(i) : TRUE).blob>>]
        BY <2>3, <3>2 DEF Verify
      <4>2. DOMAIN tip = 1..lastID /\ DOMAIN tip = 1..blobs
        BY <2>1, <4>1
      <4>3. \A k \in 1..blobs : tip[k][1] = k
        BY <4>1, <4>2
      <4> QED BY <4>3 DEF ChainInv
    <3> QED BY <3>1, <3>2
  <2>4. ASSUME contiguous PROVE Verify
    <3>1. /\ \A e \in entries \cup removed : e.id = e.blob
          /\ \A k \in 1..blobs : \E e \in entries \cup removed : e.id = k
          /\ \A k \in 1..blobs : tip[k][1] = k
      BY <2>4 DEF ChainInv
    <3>2. lastID = blobs
      BY <2>1, <2>2, <3>1
    <3>3. \A k \in 1..blobs : Evidence(k) # {} /\ \A e \in Evidence(k) : e.blob = k
      BY <3>1 DEF Evidence, Stored
    <3>4. \A k \in 1..blobs : (CHOOSE e \in Evidence(k) : TRUE).blob = k
      BY <3>3
    <3>5. \A k \in 1..blobs : tip[k] = <<k, k>>
      <4>1. \A k \in 1..blobs : tip[k] \in Nat \X Blobs
        BY <2>1
      <4> QED BY <2>2, <3>1, <4>1
    <3>6. tip = [i \in 1..blobs |-> <<i, (CHOOSE e \in Evidence(i) : TRUE).blob>>]
      BY <2>1, <3>4, <3>5
    <3> QED BY <3>2, <3>3, <3>6 DEF Verify
  <2> QED BY <2>3, <2>4 DEF VerifyIffContiguous, Types
<1> QED BY <1>1, IInvHolds, PTL

\* transport.Client sends results for the first time in the order in which the
\* executor produced them.
THEOREM FirstSendsFollowAppends == Spec => FirstSendsInOrder
<1>1. IInv /\ [Next]_vars => [\A b \in sent' \ sent : \A c \in sent : c < b]_vars
  <2> SUFFICES ASSUME IInv, [Next]_vars PROVE \A b \in sent' \ sent : \A c \in sent : c < b
    OBVIOUS
  <2>1. CASE DrainSend
    BY <2>1, SendStep
  <2>2. CASE ~DrainSend
    <3>1. sent' = sent
      BY <2>2 DEF Next, vars, ghosts, drain, counts, OutboxAppend, OutboxAppendFails, Reopen, Connect, DrainPeek, DrainAck,
                  DrainAckFails, LateAck, ServerReads, LinkBreak, Crash
    <3> QED BY <3>1
  <2> QED BY <2>1, <2>2
<1> QED BY <1>1, IInvHolds, PTL DEF Spec, FirstSendsInOrder

(***************************************************************************)
(* The caps.  Bytes is a sum over a set, which the library defines by a      *)
(* recursive function on subsets; that it does not depend on the order       *)
(* follows from minimal counterexamples.                                     *)
(***************************************************************************)
\* A set of subsets of a finite set has a minimal member.
LEMMA MinimalSubset ==
  ASSUME NEW S, IsFiniteSet(S), NEW T, T \subseteq SUBSET S, T # {}
  PROVE  \E t \in T : \A u \in T : u \subseteq t => u = t
<1>1. IsWellFoundedOn(StrictSubsetOrdering(S), SUBSET S)
  BY FS_FiniteSubsetsOfFinite, FS_StrictSubsetOrderingWellFounded
<1>2. PICK t \in T : \A u \in T : ~ (<<u, t>> \in StrictSubsetOrdering(S))
  BY <1>1, WFMin
<1>3. ASSUME NEW u \in T, u \subseteq t, u # t PROVE FALSE
  <2>1. <<u, t>> \in StrictSubsetOrdering(S)
    BY <1>3 DEF StrictSubsetOrdering
  <2> QED BY <2>1, <1>2
<1> QED BY <1>2, <1>3

\* The recursion by which Bytes adds up the sizes of the subsets of S.
Pick(s) == CHOOSE e \in s : TRUE
Adds(g, S) ==
    \A s \in SUBSET S : g[s] = IF s = {} THEN 0 ELSE Pick(s).size + g[s \ {Pick(s)}]

LEMMA PickIn == ASSUME NEW s, s # {} PROVE Pick(s) \in s
  BY DEF Pick

\* It has one solution.
LEMMA AddsAgree ==
  ASSUME NEW S, IsFiniteSet(S), NEW R \in SUBSET S, NEW g, Adds(g, S), NEW k, Adds(k, R)
  PROVE  \A s \in SUBSET R : g[s] = k[s]
<1> DEFINE Bad == {t \in SUBSET S : t \subseteq R /\ g[t] # k[t]}
<1>1. SUFFICES ASSUME Bad # {} PROVE FALSE
  OBVIOUS
<1>2. PICK t \in Bad : \A x \in Bad : x \subseteq t => x = t
  <2>1. Bad \subseteq SUBSET S
    OBVIOUS
  <2> HIDE DEF Bad
  <2> QED BY <2>1, <1>1, MinimalSubset
<1>3. /\ g[t] = IF t = {} THEN 0 ELSE Pick(t).size + g[t \ {Pick(t)}]
      /\ k[t] = IF t = {} THEN 0 ELSE Pick(t).size + k[t \ {Pick(t)}]
  BY DEF Adds
<1>4. t # {} => g[t \ {Pick(t)}] = k[t \ {Pick(t)}]
  BY <1>2, PickIn
<1> QED BY <1>3, <1>4

Sized(S) == IsFiniteSet(S) /\ \A e \in S : e.size \in Nat

LEMMA AddsExist ==
  ASSUME NEW S, Sized(S)
  PROVE  \E g : Adds(g, S) /\ g \in [SUBSET S -> Nat]
<1> DEFINE OK(g, t) == Adds(g, t) /\ g \in [SUBSET t -> Nat]
           Bad == {t \in SUBSET S : ~ \E g : OK(g, t)}
<1>1. SUFFICES ASSUME Bad # {} PROVE FALSE
  OBVIOUS
<1>2. PICK t \in Bad : \A x \in Bad : x \subseteq t => x = t
  <2>1. Bad \subseteq SUBSET S
    OBVIOUS
  <2> HIDE DEF Bad
  <2> QED BY <2>1, <1>1, MinimalSubset DEF Sized
<1> DEFINE r == t \ {Pick(t)}
<1>3. CASE t = {}
  <2> DEFINE z == [s \in SUBSET {} |-> 0]
  <2>1. OK(z, {})
    BY DEF Adds
  <2> QED BY <2>1, <1>2, <1>3
<1>4. CASE t # {}
  <2> DEFINE of(s) == CHOOSE g : OK(g, s)
             V(s) == of(s)[s]
  <2>1. ASSUME NEW s \in SUBSET t, s # t PROVE OK(of(s), s)
    <3>1. \E g : OK(g, s)
      BY <1>2, <2>1
    <3> HIDE DEF OK
    <3> QED BY <3>1
  <2> HIDE DEF of
  <2>2. ASSUME NEW s \in SUBSET t, s # {} PROVE s \ {Pick(s)} \in SUBSET t /\ s \ {Pick(s)} # t
    BY <2>2, PickIn
  <2>3. ASSUME NEW s \in SUBSET t, s # t
        PROVE  V(s) \in Nat /\ V(s) = IF s = {} THEN 0 ELSE Pick(s).size + V(s \ {Pick(s)})
    <3>1. V(s) \in Nat
      BY <2>1, <2>3
    <3>2. CASE s = {}
      BY <2>1, <2>3, <3>2 DEF Adds
    <3>3. CASE s # {}
      <4> DEFINE q == s \ {Pick(s)}
      <4>1. Adds(of(s), s) /\ Adds(of(q), q)
        BY <2>1, <2>2, <2>3, <3>3
      <4>2. q \in SUBSET s /\ IsFiniteSet(s)
        BY FS_Subset DEF Sized
      <4>3. of(s)[q] = of(q)[q]
        <5> HIDE DEF q
        <5> QED BY <4>1, <4>2, AddsAgree
      <4>4. V(s) = Pick(s).size + of(s)[q]
        BY <4>1, <3>3 DEF Adds
      <4> QED BY <3>1, <3>3, <4>3, <4>4
    <3> QED BY <3>1, <3>2, <3>3
  <2> HIDE DEF V
  <2> DEFINE w == [s \in SUBSET t |-> IF s = t THEN Pick(t).size + V(r) ELSE V(s)]
  <2>4. Pick(t).size + V(r) \in Nat
    <3>1. Pick(t) \in S
      BY <1>4, PickIn
    <3>2. Pick(t).size \in Nat
      BY <3>1 DEF Sized
    <3>3. V(r) \in Nat
      BY <1>4, <2>2, <2>3
    <3> QED BY <3>2, <3>3
  <2>5. w \in [SUBSET t -> Nat]
    BY <2>3, <2>4
  <2>6. ASSUME NEW s \in SUBSET t
        PROVE  w[s] = IF s = {} THEN 0 ELSE Pick(s).size + w[s \ {Pick(s)}]
    <3>1. CASE s = {}
      BY <3>1, <1>4, <2>3
    <3>2. CASE s # {}
      <4>1. w[s \ {Pick(s)}] = V(s \ {Pick(s)})
        BY <2>2, <3>2
      <4>2. w[s] = Pick(s).size + V(s \ {Pick(s)})
        BY <2>3, <3>2
      <4> QED BY <3>2, <4>1, <4>2
    <3> QED BY <3>1, <3>2
  <2> HIDE DEF w
  <2>7. OK(w, t)
    BY <2>5, <2>6 DEF Adds
  <2> HIDE DEF OK
  <2> QED BY <2>7, <1>2
<1> QED BY <1>3, <1>4

\* Bytes is this solution, at S and at its subsets.
LEMMA BytesAdds ==
  ASSUME NEW S, Sized(S), NEW g, Adds(g, S)
  PROVE  \A s \in SUBSET S : Bytes(s) = g[s]
<1> TAKE s \in SUBSET S
<1> DEFINE Is(k) == k = [x \in SUBSET s |-> IF x = {} THEN 0
                          ELSE (CHOOSE e \in x : TRUE).size + k[x \ {CHOOSE e \in x : TRUE}]]
           Fold == CHOOSE k : Is(k)
<1>1. Sized(s)
  BY FS_Subset DEF Sized
<1>2. Bytes(s) = Fold[s]
  BY Zenon DEF Bytes, MapThenSumSet, MapThenFoldSet
<1>3. PICK k : Adds(k, s) /\ k \in [SUBSET s -> Nat]
  BY <1>1, AddsExist
<1>4. Is(k)
  BY <1>3 DEF Adds, Pick
<1>5. Is(Fold)
  BY <1>4, Zenon
<1> HIDE DEF Fold
<1>6. Adds(Fold, s)
  BY <1>5 DEF Adds, Pick
<1>7. \A x \in SUBSET s : g[x] = Fold[x]
  BY <1>6, AddsAgree DEF Sized
<1> QED BY <1>2, <1>7

\* Whatever entry is taken away, the rest has the other bytes.
LEMMA BytesRemove ==
  ASSUME NEW S, Sized(S)
  PROVE  /\ Bytes({}) = 0 /\ Bytes(S) \in Nat
         /\ \A x \in S : Bytes(S \ {x}) \in Nat /\ Bytes(S) = x.size + Bytes(S \ {x})
<1>1. PICK g : Adds(g, S) /\ g \in [SUBSET S -> Nat]
  BY AddsExist
<1>2. \A s \in SUBSET S : Bytes(s) = g[s]
  BY <1>1, BytesAdds
<1> DEFINE Bad == {t \in SUBSET S : \E x \in t : g[t] # x.size + g[t \ {x}]}
<1>3. Bad = {}
  <2> SUFFICES ASSUME Bad # {} PROVE FALSE
    OBVIOUS
  <2>1. PICK t \in Bad : \A u \in Bad : u \subseteq t => u = t
    <3>1. Bad \subseteq SUBSET S
      OBVIOUS
    <3> HIDE DEF Bad
    <3> QED BY <3>1, MinimalSubset DEF Sized
  <2>2. PICK x \in t : g[t] # x.size + g[t \ {x}]
    OBVIOUS
  <2> DEFINE p == Pick(t)
             q == (t \ {p}) \ {x}
  <2>3. p \in t
    BY PickIn
  <2>4. g[t] = p.size + g[t \ {p}]
    BY <1>1 DEF Adds
  <2> HIDE DEF p
  <2>5. p # x
    BY <2>2, <2>4
  <2>6. g[t \ {p}] = x.size + g[q]
    <3>1. t \ {p} \in SUBSET S /\ t \ {p} \notin Bad /\ x \in t \ {p}
      BY <2>1, <2>3, <2>5
    <3> QED BY <3>1
  <2>7. g[t \ {x}] = p.size + g[q]
    <3>1. (t \ {x}) \ {p} = q
      OBVIOUS
    <3> QED BY <3>1, <2>1, <2>3, <2>5
  <2>8. p.size \in Nat /\ x.size \in Nat /\ g[q] \in Nat
    BY <1>1, <2>3 DEF Sized
  <2> HIDE DEF q
  <2>9. g[t] = x.size + g[t \ {x}]
    BY <2>4, <2>6, <2>7, <2>8
  <2> QED BY <2>2, <2>9
<1>4. \A x \in S : g[S] = x.size + g[S \ {x}]
  BY <1>3
<1>5. g[{}] = 0
  BY <1>1 DEF Adds
<1> HIDE DEF Bad
<1>6. S \in SUBSET S /\ {} \in SUBSET S /\ \A x \in S : S \ {x} \in SUBSET S
  OBVIOUS
<1> QED BY <1>1, <1>2, <1>4, <1>5, <1>6

\* What is left after a removal still fits.
LEMMA FewerFit ==
  ASSUME NEW S, Sized(S), Fits(S), NEW x \in S
  PROVE  Fits(S \ {x})
<1>1. Cardinality(S) \in Nat /\ Cardinality(S \ {x}) = Cardinality(S) - 1
  BY FS_CardinalityType, FS_RemoveElement DEF Sized
<1>2. x.size \in Nat /\ Bytes(S) = x.size + Bytes(S \ {x}) /\ Bytes(S \ {x}) \in Nat
  BY BytesRemove DEF Sized
<1> QED BY <1>1, <1>2, OutboxAssumption DEF Fits

\* What enforceCapTx keeps fits: nothing, or the most of the youngest entries that do.
LEMMA KeptFits ==
  ASSUME NEW S, S \subseteq Entry, IsFiniteSet(S)
  PROVE  Fits(Kept(S))
<1> DEFINE G == {g \in S : Fits(From(S, g))}
           Older(g) == S \ From(S, g)
<1>1. CASE G = {}
  <2>1. Kept(S) = {}
    BY <1>1 DEF Kept
  <2>2. Bytes({}) = 0 /\ Cardinality({}) = 0
    <3>1. Sized({})
      BY FS_EmptySet DEF Sized
    <3> QED BY <3>1, BytesRemove, FS_EmptySet
  <2> QED BY <2>1, <2>2, OutboxAssumption DEF Fits
<1>2. CASE G # {}
  <2> DEFINE T == {Older(g) : g \in G}
  <2>1. PICK t \in T : \A u \in T : u \subseteq t => u = t
    <3>1. T \subseteq SUBSET S /\ T # {}
      BY <1>2
    <3> HIDE DEF T
    <3> QED BY <3>1, MinimalSubset
  <2>2. PICK g \in G : t = Older(g)
    OBVIOUS
  <2>3. ASSUME NEW h \in G PROVE From(S, h) \subseteq From(S, g)
    <3>1. g.id \in Nat /\ h.id \in Nat /\ \A e \in S : e.id \in Nat
      BY DEF Entry
    <3>2. CASE g.id <= h.id
      BY <3>1, <3>2 DEF From
    <3>3. CASE h.id <= g.id
      <4>1. From(S, g) \subseteq From(S, h)
        BY <3>1, <3>3 DEF From
      <4>2. Older(h) = Older(g)
        <5>1. Older(h) \in T /\ Older(h) \subseteq t
          BY <4>1, <2>2
        <5> QED BY <5>1, <2>1, <2>2
      <4>3. From(S, h) \subseteq S
        BY DEF From
      <4> QED BY <4>2, <4>3
    <3> QED BY <3>1, <3>2, <3>3
  <2>4. Kept(S) = From(S, g)
    BY <2>3 DEF Kept
  <2> QED BY <2>4
<1> QED BY <1>1, <1>2

LEMMA CapsStep ==
  ASSUME IInv, Fits(entries), [Next]_vars
  PROVE  Fits(entries')
<1>1. entries \subseteq Entry /\ IsFiniteSet(entries) /\ \A e, f \in entries : e.id = f.id => e = f
  BY DEF IInv, Types, IdInv
<1>2. ASSUME NEW size \in Sizes, OutboxAppend(size) PROVE Fits(entries')
  <2> DEFINE e == [id |-> nextID, blob |-> blobs + 1, size |-> size]
  <2>1. entries' = Kept(Put(entries, e))
    BY <1>2 DEF OutboxAppend
  <2>2. e \in Entry
    BY <1>2, OutboxAssumption DEF OutboxAppend, IInv, Types, Entry, Blobs
  <2> HIDE DEF e
  <2>3. Put(entries, e) \subseteq entries \cup {e}
    BY DEF Put
  <2>4. IsFiniteSet(Put(entries, e)) /\ Put(entries, e) \subseteq Entry
    <3>1. IsFiniteSet(entries \cup {e})
      BY <1>1, FS_AddElement
    <3> QED BY <3>1, <1>1, <2>2, <2>3, FS_Subset
  <2> QED BY <2>1, <2>4, KeptFits
<1>3. ASSUME NEW id, OutboxAck(id) PROVE Fits(entries')
  <2>1. entries' = {e \in entries : e.id # id}
    BY <1>3, AckIs
  <2>2. CASE \E e \in entries : e.id = id
    <3>1. PICK x \in entries : x.id = id
      BY <2>2
    <3>2. entries' = entries \ {x}
      BY <1>1, <2>1, <3>1
    <3>3. Sized(entries)
      BY <1>1, OutboxAssumption DEF Sized, Entry
    <3> QED BY <3>2, <3>3, FewerFit
  <2>3. CASE \A e \in entries : e.id # id
    BY <2>1, <2>3
  <2> QED BY <2>2, <2>3
<1>4. CASE UNCHANGED entries
  BY <1>4
<1>5. CASE DrainAck
  BY <1>3, <1>5 DEF DrainAck
<1>6. ASSUME NEW id \in late, LateAck(id) PROVE Fits(entries')
  BY <1>3, <1>6 DEF LateAck
<1>7. (\E size \in Sizes : OutboxAppend(size)) \/ DrainAck \/ (\E id \in late : LateAck(id)) \/ UNCHANGED entries
  BY DEF Next, vars, store, OutboxAppendFails, Reopen, Connect, DrainPeek, DrainSend, DrainAckFails,
         ServerReads, LinkBreak, Crash
<1> QED BY <1>2, <1>4, <1>5, <1>6, <1>7

\* The file stays within its caps between transactions, for any caps and any sizes,
\* also when one result is larger than the cap on bytes: enforceCapTx evicts from the
\* oldest on, in the transaction of the append.
THEOREM CapsHold == Spec => []Fits(entries)
<1>1. Init => Fits(entries)
  <2>1. Sized({})
    BY FS_EmptySet DEF Sized
  <2> QED BY <2>1, BytesRemove, FS_EmptySet, OutboxAssumption DEF Init, Fits
<1>2. IInv /\ Fits(entries) /\ [Next]_vars => Fits(entries)'
  BY CapsStep
<1> QED BY <1>1, <1>2, IInvHolds, PTL DEF Spec

================================================================================
