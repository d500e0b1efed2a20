---------------------------- MODULE Platform_proofs ----------------------------
(***************************************************************************)
(* The keys, the audit chain, the releases and the secrets broker, for any    *)
(* writers, uploads, references, lifetimes and crashes.  They share the       *)
(* process alone, so each has an invariant of its own; only what is signed    *)
(* rests on the invariant of the keys.                                        *)
(***************************************************************************)
EXTENDS Platform, FiniteSetTheorems, TLAPS

(***************************************************************************)
(* Keys.                                                                     *)
(***************************************************************************)
KeyTypes ==
    /\ disk \in [File -> Int] /\ made \in Nat /\ gen \in Nat /\ step \in 1..4
    /\ born \in Seq(Int) /\ Len(born) = made /\ now \in Nat
    /\ pc \in {"down", "ca", "opened", "sign", "services", "grpc", "up", "rotate"}
    /\ split \in BOOLEAN /\ (pc = "sign" => step <= 3)

CaParts == {"root.key", "root.crt", "int.key", "int.crt"}

\* The CA is made once, by the first start, and belongs to generation 1 for good.
CaInv ==
    /\ "ca" \notin dirs => dirs = {} /\ made = 0 /\ pc = "down" /\ leaves = {}
    /\ "ca" \in dirs => made > 0
    /\ \A f \in CaParts : disk[f] \in {Absent, Torn, 1}
    /\ pc = "ca" => gen = 1
    /\ pc \notin {"down", "ca"} => /\ \A f \in {"int.key", "int.crt", "root.crt"} : ca[f] = 1
    /\ \A leaf \in leaves : leaf.by = 1 /\ leaf.until \in Int

\* Unless a crash split them, the key and its public half are of one generation
\* whenever the key can be loaded.
SignInv ==
    LET key == disk["current.key"]
        pub == disk["current.pub"]
    IN  /\ "signing" \notin dirs => key = Absent /\ pc \in {"down", "ca", "opened"}
        /\ pc = "sign" => /\ step = 1 => key = Absent
                          /\ step # 1 => key = gen
                          /\ step = 3 => pub = gen
        /\ pc = "rotate" => /\ step > 2 => key = gen
                            /\ step = 4 => pub = gen
        /\ ~split => /\ pc \in {"down", "ca", "opened"} => key = pub \/ key <= 0
                     /\ pc \in {"services", "grpc", "up"} => sign = pub /\ key = pub
                     /\ pc = "rotate" /\ step <= 2 => key = pub

(***************************************************************************)
(* Releases.                                                                 *)
(***************************************************************************)
Release == [ver : Version, sha : Data, by : Int, status : {"published", "yanked"}]
Upload  == [ver : Version, sha : Data, by : Int]

ReleaseInv ==
    /\ bin \in [Version -> Data \cup {None}] /\ rel \in Seq(Release)
    /\ upl \in [Uploader -> Upload \cup {None}]
    /\ \A i \in 1..Len(rel) : rel[i].ver \notin doubted => bin[rel[i].ver] = rel[i].sha
    /\ \A u \in Uploader : upl[u] # None /\ upl[u].ver \notin doubted =>
          /\ bin[upl[u].ver] = upl[u].sha
          /\ \A o \in Uploader : o # u /\ upl[o] # None => upl[o].ver # upl[u].ver

(***************************************************************************)
(* Secrets.                                                                  *)
(***************************************************************************)
Ask == [pc : {"ask", "got", "write", "wrote"}, ref : Ref, then : Ref \cup {"handle", "put"},
        user : User \cup {None}, val : Nat]

\* Of a reference whose requests never overlapped and whose writes never failed: one
\* request at most is at it, and until that has written what is stored is acknowledged.
RefInv(r) ==
    /\ cache[r] \in {None, acked[r]}
    /\ \A o, p \in Busy(r) : o = p
    /\ (\A o \in Busy(r) : op[o].pc # "wrote") => Value(r) = acked[r]
    /\ \A o \in Busy(r) : /\ op[o].pc = "got" => op[o].val = acked[r]
                          /\ op[o].pc = "wrote" => op[o].val = Value(r)

SecretTypes ==
    /\ stored \in [Ref -> Seq(Nat)] /\ op \in [Op -> Ask \cup {NoOp}] /\ calls \in Nat
    /\ DOMAIN cache = Ref /\ DOMAIN acked = Ref

SecretInv == SecretTypes /\ \A r \in Ref \ muddled : RefInv(r)

(***************************************************************************)
(* Audit.                                                                    *)
(***************************************************************************)
\* A number that an entry of the set has, or that a sweep has deleted.
Reached(k, set, gone) == k \in gone \/ \E o \in set : o.seq = k

\* A number and a link that continue the chain of the set, or a swept entry.
Follows(seq, prev, set, gone) ==
    \/ seq = 0 /\ prev = Genesis
    \/ seq # 0 /\ \E o \in set : o.seq = seq - 1 /\ o.hash = prev
    \/ seq # 0 /\ seq - 1 \in gone

Chain(set, gone) ==
    /\ IsFiniteSet(set)
    /\ \A e \in set : /\ e.seq \in 0..MaxSeq /\ e.ts \in Nat
                      /\ e.hash = EntryHash(e.seq, e.ts, e.actor, e.prev)
                      /\ Follows(e.seq, e.prev, set, gone)
                      /\ \A k \in 0..e.seq : Reached(k, set, gone)
    /\ \A e, o \in set : e.seq = o.seq => e = o

TxFields == {"pc", "ts", "dirty", "flushed", "seq", "prev", "own", "cps", "retried", "lost"}

\* An open transaction continues the committed chain, and what it has read is still
\* followed by the number it will insert.
TxOk(t, set, gone) ==
    /\ DOMAIN t = TxFields /\ t.ts \in Nat /\ t.seq \in Nat
    /\ Chain(set \cup t.own, gone) /\ IsFiniteSet(t.own)
    /\ \A e \in t.own : \A o \in set : o.seq # e.seq
    /\ t.pc = "read" => /\ Follows(t.seq, t.prev, set \cup t.own, gone)
                        /\ \A k \in 0..(t.seq - 1) : Reached(k, set \cup t.own, gone)
                        /\ \A e \in t.own : e.seq # t.seq

\* The number of one transaction is the number of no other.
Apart(t, u) == \A e \in t.own, o \in u.own : e.seq # o.seq

ChainInv ==
    /\ now \in Nat /\ DOMAIN tx = Writer
    /\ Chain(rows, swept)
    /\ \A w \in Writer : Open(w) => TxOk(tx[w], rows, swept)
    /\ \A w, v \in Writer : w # v /\ Open(w) /\ Open(v) => Apart(tx[w], tx[v])
    /\ sweep # None => sweep \in Int /\ sweep <= now - Retention

\* On SQLite one transaction writes at a time, and what it has read stays true.
TxKeeps(t, set) ==
    /\ ~t.lost /\ \A e \in t.own : ~e.lost
    /\ t.dirty /\ t.pc # "start" => t.flushed
    /\ t.pc = "flushed" => t.flushed
    /\ t.pc = "read" /\ (t.own # {} \/ t.flushed) => \A o \in set : o.seq < t.seq

WriteInv ==
    engine = "sqlite" =>
        /\ \A e \in rows : ~e.lost
        /\ \A w, v \in Writer : Writing(w) /\ Writing(v) => w = v
        /\ \A w \in Writer : Open(w) => TxKeeps(tx[w], rows)

\* A checkpoint is over the first entries of the chain.
Numbered(set, k) == CHOOSE e \in set : e.seq = k
FirstHashes(set, n) == [i \in 1..n |-> Numbered(set, i - 1).hash]
Covers(c, set) ==
    /\ c.covers \in Nat /\ \A k \in 0..c.covers : \E e \in set : e.seq = k
    /\ c.root = MerkleRoot(FirstHashes(set, c.covers + 1))

CheckInv ==
    /\ \A c \in checks : (split \/ c.by = c.pub) /\ (swept = {} => Covers(c, rows))
    /\ \A w \in Writer : Open(w) =>
          \A c \in tx[w].cps : (split \/ c.by = c.pub)
                               /\ (swept = {} => Covers(c, rows \cup tx[w].own))

-----------------------------------------------------------------------------
(***************************************************************************)
(* Chains.                                                                   *)
(***************************************************************************)
\* Numbers are in the order of ranks, and every rank is taken.
Upto(e, set) == {o \in set : o.seq <= e.seq}

LEMMA RankStep ==
  ASSUME NEW set, NEW gone, Chain(set, gone)
  PROVE  /\ Cardinality(set) \in Nat
         /\ \A e \in set : Cardinality(Upto(e, set)) \in 1..Cardinality(set)
         /\ \A e, o \in set : e.seq < o.seq => Cardinality(Upto(e, set)) < Cardinality(Upto(o, set))
<1>0. IsFiniteSet(set) /\ \A e \in set : e.seq \in Nat
  BY AuditAssumption DEF Chain
<1>1. Cardinality(set) \in Nat
  BY <1>0, FS_CardinalityType
<1>2. \A e \in set : Upto(e, set) \in SUBSET set /\ e \in Upto(e, set)
  BY <1>0 DEF Upto
<1>3. \A e \in set : /\ IsFiniteSet(Upto(e, set)) /\ Cardinality(Upto(e, set)) <= Cardinality(set)
                     /\ Cardinality(Upto(e, set)) \in Nat
  BY <1>0, <1>2, FS_Subset, FS_CardinalityType
<1>4. \A e \in set : Cardinality(Upto(e, set)) # 0
  BY <1>2, <1>3, FS_EmptySet
<1>5. ASSUME NEW e \in set, NEW o \in set, e.seq < o.seq
      PROVE  Cardinality(Upto(e, set)) < Cardinality(Upto(o, set))
  <2>1. Upto(e, set) \in SUBSET Upto(o, set) /\ o \in Upto(o, set) /\ o \notin Upto(e, set)
    BY <1>0, <1>5 DEF Upto
  <2>2. /\ Cardinality(Upto(e, set)) <= Cardinality(Upto(o, set))
        /\ Cardinality(Upto(e, set)) # Cardinality(Upto(o, set))
    BY <1>3, <2>1, FS_Subset
  <2> QED BY <1>3, <2>2
<1> QED BY <1>1, <1>3, <1>4, <1>5

LEMMA RankExists ==
  ASSUME NEW set, NEW gone, Chain(set, gone)
  PROVE  \A i \in 1..Cardinality(set) : \E e \in set : Cardinality(Upto(e, set)) = i
<1> DEFINE T == 1..Cardinality(set)
           r == [e \in set |-> Cardinality(Upto(e, set))]
<1>1. /\ Cardinality(set) \in Nat
      /\ \A e \in set : Cardinality(Upto(e, set)) \in 1..Cardinality(set)
      /\ \A e, o \in set : e.seq < o.seq => Cardinality(Upto(e, set)) < Cardinality(Upto(o, set))
  BY RankStep
<1>2. r \in [set -> T]
  BY <1>1
<1>3. ASSUME NEW e \in set, NEW o \in set, r[e] = r[o] PROVE e = o
  <2>1. e.seq \in Nat /\ o.seq \in Nat
    BY AuditAssumption DEF Chain
  <2>2. ~ (e.seq < o.seq) /\ ~ (o.seq < e.seq)
    BY <1>1, <1>3
  <2>3. e.seq = o.seq
    BY <2>1, <2>2
  <2> QED BY <2>3 DEF Chain
<1>4. r \in Injection(set, T)
  BY <1>2, <1>3 DEF Injection, IsInjective
<1>5. IsFiniteSet(T) /\ Cardinality(T) = Cardinality(set)
  BY <1>1, FS_Interval
<1>6. r \in Surjection(set, T)
  BY <1>4, <1>5, FS_Injection DEF Chain
<1> QED BY <1>6 DEF Surjection

\* A chain that is not empty has a newest entry, and only one.
LEMMA NewestExists ==
  ASSUME NEW set, NEW gone, Chain(set, gone), set # {}
  PROVE  \E e \in set : \A o \in set : o.seq <= e.seq
<1>1. Cardinality(set) \in Nat /\ Cardinality(set) # 0
  BY FS_CardinalityType, FS_EmptySet DEF Chain
<1>2. PICK e \in set : Cardinality(Upto(e, set)) = Cardinality(set)
  BY <1>1, RankExists
<1>3. ASSUME NEW o \in set PROVE o.seq <= e.seq
  <2>1. /\ Cardinality(Upto(o, set)) \in 1..Cardinality(set)
        /\ e.seq < o.seq => Cardinality(Upto(e, set)) < Cardinality(Upto(o, set))
    BY RankStep
  <2>2. e.seq \in Nat /\ o.seq \in Nat
    BY AuditAssumption DEF Chain
  <2> QED BY <1>1, <1>2, <2>1, <2>2
<1> QED BY <1>3

\* Two continuations of one chain that share no number are a chain together.
LEMMA ChainUnion ==
  ASSUME NEW a, NEW b, NEW c, NEW gone, Chain(a \cup b, gone), Chain(a \cup c, gone),
         \A e \in b, o \in c : e.seq # o.seq
  PROVE  Chain(a \cup b \cup c, gone)
<1>1. IsFiniteSet(a \cup b \cup c)
  <2>1. IsFiniteSet((a \cup b) \cup (a \cup c))
    BY FS_Union DEF Chain
  <2> QED BY <2>1, Zenon
<1>2. ASSUME NEW e \in a \cup b \cup c
      PROVE  /\ e.seq \in 0..MaxSeq /\ e.ts \in Nat
             /\ e.hash = EntryHash(e.seq, e.ts, e.actor, e.prev)
             /\ Follows(e.seq, e.prev, a \cup b \cup c, gone)
             /\ \A k \in 0..e.seq : Reached(k, a \cup b \cup c, gone)
  <2>1. CASE e \in a \cup b
    BY <2>1 DEF Chain, Follows, Reached
  <2>2. CASE e \in a \cup c
    BY <2>2 DEF Chain, Follows, Reached
  <2> QED BY <2>1, <2>2
<1>3. ASSUME NEW e \in a \cup b \cup c, NEW o \in a \cup b \cup c, e.seq = o.seq PROVE e = o
  <2>1. CASE e \in a \cup b /\ o \in a \cup b
    BY <1>3, <2>1 DEF Chain
  <2>2. CASE e \in a \cup c /\ o \in a \cup c
    BY <1>3, <2>2 DEF Chain
  <2>3. CASE (e \in b /\ o \in c) \/ (o \in b /\ e \in c)
    BY <1>3, <2>3
  <2> QED BY <2>1, <2>2, <2>3
<1> QED BY <1>1, <1>2, <1>3 DEF Chain

\* An entry with a new number that continues the chain is one more entry of it.
LEMMA ChainAdd ==
  ASSUME NEW set, NEW gone, NEW e, Chain(set, gone), e.seq \in 0..MaxSeq, e.ts \in Nat,
         e.hash = EntryHash(e.seq, e.ts, e.actor, e.prev), Follows(e.seq, e.prev, set, gone),
         \A k \in 0..(e.seq - 1) : Reached(k, set, gone), \A o \in set : o.seq # e.seq
  PROVE  Chain(set \cup {e}, gone)
<1>1. IsFiniteSet(set \cup {e})
  BY FS_AddElement DEF Chain
<1>2. ASSUME NEW o \in set
      PROVE  /\ o.seq \in 0..MaxSeq /\ o.ts \in Nat
             /\ o.hash = EntryHash(o.seq, o.ts, o.actor, o.prev)
             /\ Follows(o.seq, o.prev, set \cup {e}, gone)
             /\ \A k \in 0..o.seq : Reached(k, set \cup {e}, gone)
  BY DEF Chain, Follows, Reached
<1>3. Follows(e.seq, e.prev, set \cup {e}, gone)
  BY DEF Follows
<1>4. ASSUME NEW k \in 0..e.seq PROVE Reached(k, set \cup {e}, gone)
  <2>1. CASE k = e.seq
    BY <2>1 DEF Reached
  <2>2. CASE k # e.seq
    <3>1. k \in 0..(e.seq - 1)
      BY <2>2, AuditAssumption
    <3> QED BY <3>1 DEF Reached
  <2> QED BY <2>1, <2>2
<1>5. \A o, p \in set \cup {e} : o.seq = p.seq => o = p
  BY DEF Chain
<1> QED BY <1>1, <1>2, <1>3, <1>4, <1>5 DEF Chain

\* What is left of a chain is one, once the numbers that went are known to be gone.
LEMMA ChainSweep ==
  ASSUME NEW set, NEW gone, NEW left, NEW more, Chain(set, gone), left \subseteq set,
         gone \subseteq more, \A e \in set \ left : e.seq \in more
  PROVE  /\ Chain(left, more)
         /\ \A k : Reached(k, set, gone) => Reached(k, left, more)
         /\ \A seq, prev : Follows(seq, prev, set, gone) => Follows(seq, prev, left, more)
<1>1. IsFiniteSet(left)
  BY FS_Subset DEF Chain
<1>2. \A k : Reached(k, set, gone) => Reached(k, left, more)
  BY DEF Reached
<1>3. \A seq, prev : Follows(seq, prev, set, gone) => Follows(seq, prev, left, more)
  BY DEF Follows
<1> QED BY <1>1, <1>2, <1>3 DEF Chain

-----------------------------------------------------------------------------
(***************************************************************************)
(* The steps of one transaction, by what they make of its record.            *)
(***************************************************************************)
LEMMA TxMove ==
  ASSUME ChainInv, NEW w \in Writer, NEW n, tx' = [tx EXCEPT ![w] = n],
         UNCHANGED <<rows, swept, sweep, now>>,
         n.pc # "idle" => /\ TxOk(n, rows, swept)
                          /\ \A v \in Writer \ {w} : Open(v) => Apart(n, tx[v])
  PROVE  ChainInv'
<1>1. DOMAIN tx' = Writer /\ tx'[w] = n /\ \A v \in Writer \ {w} : tx'[v] = tx[v]
  BY DEF ChainInv
<1>2. \A v \in Writer : tx'[v].pc # "idle" => TxOk(tx'[v], rows, swept)
  BY <1>1 DEF ChainInv, Open
<1>3. \A u, v \in Writer : u # v /\ tx'[u].pc # "idle" /\ tx'[v].pc # "idle" => Apart(tx'[u], tx'[v])
  <2> SUFFICES ASSUME NEW u \in Writer, NEW v \in Writer, u # v, tx'[u].pc # "idle", tx'[v].pc # "idle"
               PROVE  Apart(tx'[u], tx'[v])
    OBVIOUS
  <2>1. CASE u = w
    BY <1>1, <2>1 DEF Open
  <2>2. CASE v = w
    <3>1. Apart(n, tx[u]) /\ tx'[u] = tx[u]
      BY <1>1, <2>2 DEF Open
    <3> QED BY <1>1, <2>2, <3>1 DEF Apart
  <2>3. CASE u # w /\ v # w
    BY <1>1, <2>3 DEF ChainInv, Open
  <2> QED BY <2>1, <2>2, <2>3
<1> QED BY <1>1, <1>2, <1>3 DEF ChainInv, Open

LEMMA WriteMove ==
  ASSUME WriteInv, DOMAIN tx = Writer, NEW w \in Writer, NEW n, tx' = [tx EXCEPT ![w] = n],
         UNCHANGED <<rows, engine>>,
         engine = "sqlite" /\ n.pc # "idle" =>
           /\ TxKeeps(n, rows)
           /\ n.own # {} \/ n.flushed => Writing(w) \/ \A v \in Writer \ {w} : ~Writing(v)
  PROVE  WriteInv'
<1>1. DOMAIN tx' = Writer /\ tx'[w] = n /\ \A v \in Writer \ {w} : tx'[v] = tx[v]
  OBVIOUS
<1> SUFFICES ASSUME engine = "sqlite" PROVE WriteInv'
  BY DEF WriteInv
<1>2. \A v \in Writer : tx'[v].pc # "idle" => TxKeeps(tx'[v], rows)
  BY <1>1 DEF WriteInv, Open
<1>3. \A v \in Writer \ {w} : Writing(v)' <=> Writing(v)
  BY <1>1 DEF Writing, Open
<1>4. Writing(w)' => Writing(w) \/ \A v \in Writer \ {w} : ~Writing(v)
  BY <1>1 DEF Writing, Open
<1>5. \A u, v \in Writer : Writing(u) /\ Writing(v) => u = v
  BY DEF WriteInv
<1> HIDE DEF Writing
<1>6. \A u, v \in Writer : Writing(u)' /\ Writing(v)' => u = v
  BY <1>3, <1>4, <1>5
<1> QED BY <1>2, <1>6 DEF WriteInv, Open

LEMMA CheckMove ==
  ASSUME CheckInv, DOMAIN tx = Writer, NEW w \in Writer, NEW n, tx' = [tx EXCEPT ![w] = n],
         UNCHANGED <<rows, swept, checks, split>>,
         n.pc # "idle" => \A c \in n.cps : /\ split \/ c.by = c.pub
                                           /\ swept = {} => Covers(c, rows \cup n.own)
  PROVE  CheckInv'
<1>1. DOMAIN tx' = Writer /\ tx'[w] = n /\ \A v \in Writer \ {w} : tx'[v] = tx[v]
  OBVIOUS
<1> QED BY <1>1 DEF CheckInv, Open

LEMMA StartIs ==
  ASSUME ChainInv, NEW w \in Writer, NEW dirty, AppendStart(w, dirty)
  PROVE  \E n : /\ tx' = [tx EXCEPT ![w] = n] /\ DOMAIN n = TxFields
                /\ n.pc = "start" /\ n.ts = now /\ n.seq = 0 /\ n.own = {} /\ n.cps = {}
                /\ n.flushed = FALSE /\ n.lost = FALSE
<1>1. PICK n : n = [pc |-> "start", ts |-> now, dirty |-> dirty, flushed |-> FALSE,
                    seq |-> 0, prev |-> Genesis, own |-> {}, cps |-> {},
                    retried |-> FALSE, lost |-> FALSE]
  OBVIOUS
<1>2. tx' = [tx EXCEPT ![w] = n]
  BY <1>1 DEF AppendStart
<1>3. /\ DOMAIN n = TxFields /\ n.pc = "start" /\ n.ts = now /\ n.seq = 0 /\ n.own = {} /\ n.cps = {}
      /\ n.flushed = FALSE /\ n.lost = FALSE
  BY <1>1 DEF TxFields
<1> QED BY <1>2, <1>3

LEMMA AgainIs ==
  ASSUME ChainInv, NEW w \in Writer, AppendAgain(w)
  PROVE  \E n : /\ tx' = [tx EXCEPT ![w] = n] /\ DOMAIN n = TxFields
                /\ n.pc = "start" /\ n.ts = now /\ n.seq = tx[w].seq /\ n.own = tx[w].own
                /\ n.cps = tx[w].cps /\ n.flushed = tx[w].flushed /\ n.lost = tx[w].lost
<1>1. DOMAIN tx[w] = TxFields
  BY DEF ChainInv, TxOk, Open, AppendAgain
<1>2. PICK n : n = [tx[w] EXCEPT !.pc = "start", !.ts = now]
  OBVIOUS
<1>3. tx' = [tx EXCEPT ![w] = n]
  BY <1>2 DEF AppendAgain
<1>4. /\ DOMAIN n = TxFields /\ n.pc = "start" /\ n.ts = now /\ n.seq = tx[w].seq
      /\ n.own = tx[w].own /\ n.cps = tx[w].cps /\ n.flushed = tx[w].flushed /\ n.lost = tx[w].lost
  BY <1>1, <1>2 DEF TxFields
<1> QED BY <1>3, <1>4

LEMMA ReadIs ==
  ASSUME ChainInv, NEW w \in Writer, AppendRead(w)
  PROVE  \E n : /\ tx' = [tx EXCEPT ![w] = n] /\ DOMAIN n = TxFields
                /\ n.pc = "read" /\ n.ts = tx[w].ts /\ n.own = tx[w].own
                /\ n.cps = tx[w].cps /\ n.lost = tx[w].lost /\ n.dirty = tx[w].dirty
                /\ n.flushed <=> (tx[w].flushed \/ tx[w].dirty)
                /\ \/ Visible(w) = {} /\ n.seq = 0 /\ n.prev = Genesis
                   \/ \E e \in Visible(w) : /\ \A o \in Visible(w) : o.seq <= e.seq
                                            /\ n.seq = e.seq + 1 /\ n.prev = e.hash
<1>1. DOMAIN tx[w] = TxFields /\ Chain(Visible(w), swept)
  BY DEF ChainInv, TxOk, Open, AppendRead, Visible
<1>2. PICK last : last = {e \in Visible(w) : \A o \in Visible(w) : o.seq <= e.seq}
  OBVIOUS
<1>3. PICK s, p : /\ s = (IF last = {} THEN 0 ELSE (CHOOSE e \in last : TRUE).seq + 1)
                  /\ p = (IF last = {} THEN Genesis ELSE (CHOOSE e \in last : TRUE).hash)
  OBVIOUS
<1>4. PICK n : n = [tx[w] EXCEPT !.pc = "read", !.flushed = @ \/ tx[w].dirty, !.seq = s, !.prev = p]
  OBVIOUS
<1>5. tx' = [tx EXCEPT ![w] = n]
  BY <1>2, <1>3, <1>4 DEF AppendRead
<1>6. /\ DOMAIN n = TxFields /\ n.pc = "read" /\ n.ts = tx[w].ts /\ n.seq = s /\ n.prev = p
      /\ n.own = tx[w].own /\ n.cps = tx[w].cps /\ n.lost = tx[w].lost /\ n.dirty = tx[w].dirty
  BY <1>1, <1>4 DEF TxFields
<1>7. n.flushed <=> (tx[w].flushed \/ tx[w].dirty)
  BY <1>1, <1>4, Zenon DEF TxFields
<1>8. CASE Visible(w) = {}
  BY <1>2, <1>3, <1>5, <1>6, <1>7, <1>8
<1>9. CASE Visible(w) # {}
  <2>1. last # {}
    BY <1>1, <1>2, <1>9, NewestExists
  <2>2. PICK e \in last : e = (CHOOSE f \in last : TRUE)
    BY <2>1
  <2>3. e \in Visible(w) /\ \A o \in Visible(w) : o.seq <= e.seq
    BY <1>2, <2>2
  <2>4. s = e.seq + 1 /\ p = e.hash
    BY <1>3, <2>1, <2>2
  <2> QED BY <1>5, <1>6, <1>7, <2>3, <2>4
<1> QED BY <1>8, <1>9

\* An insert adds the entry, and the checkpoint that is due, or ends the transaction.
LEMMA InsertIs ==
  ASSUME ChainInv, NEW w \in Writer, AppendInsert(w)
  PROVE  \E n : /\ tx' = [tx EXCEPT ![w] = n]
                /\ n.pc # "idle" =>
                     /\ DOMAIN n = TxFields
                     /\ n.pc = "flushed" /\ n.ts = tx[w].ts /\ n.seq = tx[w].seq
                     /\ n.own = tx[w].own \cup {Entry(w)}
                     /\ n.cps \subseteq tx[w].cps \cup {Checkpoint(rows \cup n.own)}
                     /\ n.lost = tx[w].lost /\ n.flushed = TRUE
<1> DEFINE due == (tx[w].seq + 1) % Interval = 0
           own == tx[w].own \cup {Entry(w)}
<1>1. DOMAIN tx[w] = TxFields
  BY DEF ChainInv, TxOk, Open, AppendInsert, CanInsert
<1>2. CASE due /\ disk["current.pub"] <= 0
  <2>1. tx' = [tx EXCEPT ![w] = NoTx] /\ NoTx.pc = "idle"
    BY <1>2 DEF AppendInsert, NoTx
  <2> QED BY <2>1
<1>3. CASE ~ (due /\ disk["current.pub"] <= 0)
  <2>1. PICK c : c = (IF due THEN tx[w].cps \cup {Checkpoint(rows \cup own)} ELSE tx[w].cps)
    OBVIOUS
  <2>2. PICK o : o = own
    OBVIOUS
  <2>3. PICK n : n = [tx[w] EXCEPT !.pc = "flushed", !.own = o, !.flushed = TRUE, !.cps = c]
    OBVIOUS
  <2>4. tx' = [tx EXCEPT ![w] = n]
    BY <1>3, <2>1, <2>2, <2>3 DEF AppendInsert
  <2>5. /\ DOMAIN n = TxFields /\ n.pc = "flushed" /\ n.ts = tx[w].ts /\ n.seq = tx[w].seq
        /\ n.own = o /\ n.cps = c /\ n.lost = tx[w].lost /\ n.flushed = TRUE
    BY <1>1, <2>3 DEF TxFields
  <2>6. c \subseteq tx[w].cps \cup {Checkpoint(rows \cup n.own)}
    BY <2>1, <2>2, <2>5
  <2> QED BY <2>2, <2>4, <2>5, <2>6
<1> QED BY <1>2, <1>3

LEMMA CollideIs ==
  ASSUME ChainInv, NEW w \in Writer, AppendCollides(w)
  PROVE  \E n : /\ tx' = [tx EXCEPT ![w] = n]
                /\ n.pc # "idle" =>
                     /\ DOMAIN n = TxFields
                     /\ n.pc = "start" /\ n.ts = tx[w].ts /\ n.seq = tx[w].seq
                     /\ n.own = {} /\ n.cps = {} /\ n.flushed = FALSE
                     /\ n.lost <=> (tx[w].lost \/ tx[w].dirty)
<1>1. DOMAIN tx[w] = TxFields
  BY DEF ChainInv, TxOk, Open, AppendCollides, CanInsert
<1>2. CASE tx[w].retried
  <2>1. tx' = [tx EXCEPT ![w] = NoTx] /\ NoTx.pc = "idle"
    BY <1>2 DEF AppendCollides, NoTx
  <2> QED BY <2>1
<1>3. CASE ~tx[w].retried
  <2>1. PICK n : n = Rewound(tx[w])
    OBVIOUS
  <2>2. tx' = [tx EXCEPT ![w] = n]
    BY <1>3, <2>1 DEF AppendCollides
  <2>3. /\ DOMAIN n = TxFields /\ n.pc = "start" /\ n.ts = tx[w].ts /\ n.seq = tx[w].seq
        /\ n.own = {} /\ n.cps = {} /\ n.flushed = FALSE
    BY <1>1, <2>1 DEF TxFields, Rewound
  <2>4. n.lost <=> (tx[w].lost \/ tx[w].dirty)
    BY <1>1, <2>1, Zenon DEF TxFields, Rewound
  <2> QED BY <2>2, <2>3, <2>4
<1> QED BY <1>2, <1>3

-----------------------------------------------------------------------------
(***************************************************************************)
(* The chain.                                                                *)
(***************************************************************************)
\* What is shown of every open transaction, in the words of the invariant.
LEMMA OpenTx ==
  ASSUME ChainInv, NEW w \in Writer, Open(w)
  PROVE  /\ TxOk(tx[w], rows, swept)
         /\ \A v \in Writer \ {w} : Open(v) => Apart(tx[w], tx[v])
  BY DEF ChainInv

LEMMA ChainTx ==
  ASSUME ChainInv, NEW w \in Writer,
         \/ \E dirty \in BOOLEAN : AppendStart(w, dirty)
         \/ AppendAgain(w) \/ AppendRead(w) \/ AppendInsert(w) \/ AppendCollides(w) \/ Abort(w)
  PROVE  ChainInv'
<1>0. /\ UNCHANGED <<rows, swept, sweep, now>> /\ now \in Nat
      /\ IsFiniteSet({}) /\ Chain(rows, swept) /\ Chain(rows \cup {}, swept)
  <2>1. rows \cup {} = rows
    OBVIOUS
  <2> QED BY <2>1, FS_EmptySet
        DEF ChainInv, AppendStart, AppendAgain, AppendRead, AppendInsert, AppendCollides, Abort, Rest,
            keyVars
<1>1. ASSUME NEW dirty, AppendStart(w, dirty) PROVE ChainInv'
  <2>1. PICK n : /\ tx' = [tx EXCEPT ![w] = n] /\ DOMAIN n = TxFields
                 /\ n.pc = "start" /\ n.ts = now /\ n.seq = 0 /\ n.own = {}
    BY <1>1, StartIs
  <2>2. TxOk(n, rows, swept) /\ \A v \in Writer \ {w} : Apart(n, tx[v])
    BY <1>0, <2>1 DEF TxOk, Apart
  <2> QED BY <1>0, <2>1, <2>2, TxMove
<1>2. CASE AppendAgain(w)
  <2>0. TxOk(tx[w], rows, swept) /\ \A v \in Writer \ {w} : Open(v) => Apart(tx[w], tx[v])
    BY <1>2, OpenTx DEF AppendAgain, Open
  <2>1. PICK n : /\ tx' = [tx EXCEPT ![w] = n] /\ DOMAIN n = TxFields
                 /\ n.pc = "start" /\ n.ts = now /\ n.seq = tx[w].seq /\ n.own = tx[w].own
    BY <1>2, AgainIs
  <2>2. TxOk(n, rows, swept) /\ \A v \in Writer \ {w} : Open(v) => Apart(n, tx[v])
    BY <1>0, <2>0, <2>1 DEF TxOk, Apart
  <2> QED BY <1>0, <2>1, <2>2, TxMove
<1>3. CASE AppendRead(w)
  <2>0. TxOk(tx[w], rows, swept) /\ \A v \in Writer \ {w} : Open(v) => Apart(tx[w], tx[v])
    BY <1>3, OpenTx DEF AppendRead, Open
  <2>1. PICK n : /\ tx' = [tx EXCEPT ![w] = n] /\ DOMAIN n = TxFields
                 /\ n.pc = "read" /\ n.ts = tx[w].ts /\ n.own = tx[w].own
                 /\ \/ Visible(w) = {} /\ n.seq = 0 /\ n.prev = Genesis
                    \/ \E e \in Visible(w) : /\ \A o \in Visible(w) : o.seq <= e.seq
                                             /\ n.seq = e.seq + 1 /\ n.prev = e.hash
    BY <1>3, ReadIs
  <2>2. Chain(rows \cup n.own, swept) /\ Visible(w) = rows \cup n.own
    BY <2>0, <2>1 DEF TxOk, Visible
  <2>3. /\ n.seq \in Nat /\ Follows(n.seq, n.prev, rows \cup n.own, swept)
        /\ \A k \in 0..(n.seq - 1) : Reached(k, rows \cup n.own, swept)
        /\ \A e \in n.own : e.seq # n.seq
    <3>1. CASE Visible(w) = {} /\ n.seq = 0 /\ n.prev = Genesis
      BY <2>2, <3>1 DEF Follows
    <3>2. ASSUME NEW e \in Visible(w), \A o \in Visible(w) : o.seq <= e.seq,
                 n.seq = e.seq + 1, n.prev = e.hash
          PROVE  /\ n.seq \in Nat /\ Follows(n.seq, n.prev, rows \cup n.own, swept)
                 /\ \A k \in 0..(n.seq - 1) : Reached(k, rows \cup n.own, swept)
                 /\ \A o \in n.own : o.seq # n.seq
      <4>1. \A o \in Visible(w) : o.seq \in Nat
        BY <2>2, AuditAssumption DEF Chain
      <4>2. n.seq \in Nat /\ n.seq # 0 /\ n.seq - 1 = e.seq
        BY <3>2, <4>1
      <4>3. Follows(n.seq, n.prev, rows \cup n.own, swept)
        BY <2>2, <3>2, <4>2 DEF Follows
      <4>4. \A k \in 0..(n.seq - 1) : Reached(k, rows \cup n.own, swept)
        BY <2>2, <4>2 DEF Chain
      <4>5. \A o \in n.own : o.seq # n.seq
        BY <2>2, <3>2, <4>1
      <4> QED BY <4>2, <4>3, <4>4, <4>5
    <3> QED BY <2>1, <3>1, <3>2
  <2>4. TxOk(n, rows, swept) /\ \A v \in Writer \ {w} : Open(v) => Apart(n, tx[v])
    BY <2>0, <2>1, <2>2, <2>3 DEF TxOk, Apart
  <2> QED BY <1>0, <2>1, <2>4, TxMove
<1>4. CASE AppendInsert(w)
  <2>0. TxOk(tx[w], rows, swept) /\ \A v \in Writer \ {w} : Open(v) => Apart(tx[w], tx[v])
    BY <1>4, OpenTx DEF AppendInsert, CanInsert, Open
  <2>1. PICK n : /\ tx' = [tx EXCEPT ![w] = n]
                 /\ n.pc # "idle" =>
                     /\ DOMAIN n = TxFields
                     /\ n.pc = "flushed" /\ n.ts = tx[w].ts /\ n.seq = tx[w].seq
                     /\ n.own = tx[w].own \cup {Entry(w)}
    BY <1>4, InsertIs
  <2>2. ASSUME n.pc # "idle"
        PROVE  TxOk(n, rows, swept) /\ \A v \in Writer \ {w} : Open(v) => Apart(n, tx[v])
    <3>1. PICK e : e = Entry(w)
      OBVIOUS
    <3>2. /\ e.seq = tx[w].seq /\ e.ts = tx[w].ts /\ e.prev = tx[w].prev
          /\ e.hash = EntryHash(e.seq, e.ts, e.actor, e.prev)
      BY <3>1 DEF Entry
    <3>3. /\ \A o \in rows : o.seq # e.seq
          /\ \A v \in Writer \ {w} : Open(v) => \A o \in tx[v].own : o.seq # e.seq
          /\ e.seq \in 0..MaxSeq /\ e.ts \in Nat /\ tx[w].pc = "read"
      BY <1>4, <2>0, <3>2, AuditAssumption DEF AppendInsert, CanInsert, Duplicate, TxOk
    <3>4. /\ Chain(rows \cup tx[w].own, swept) /\ Follows(e.seq, e.prev, rows \cup tx[w].own, swept)
          /\ \A k \in 0..(e.seq - 1) : Reached(k, rows \cup tx[w].own, swept)
          /\ \A o \in tx[w].own : o.seq # e.seq
      BY <2>0, <3>2, <3>3 DEF TxOk
    <3>5. Chain(rows \cup tx[w].own \cup {e}, swept)
      BY <3>2, <3>3, <3>4, ChainAdd
    <3>6. rows \cup n.own = rows \cup tx[w].own \cup {e} /\ n.own = tx[w].own \cup {e}
      BY <2>1, <2>2, <3>1
    <3>7. IsFiniteSet(n.own)
      BY <2>0, <3>6, FS_AddElement DEF TxOk
    <3>8. \A f \in n.own : \A o \in rows : o.seq # f.seq
      BY <2>0, <3>3, <3>6 DEF TxOk
    <3>9. TxOk(n, rows, swept)
      <4>1. DOMAIN n = TxFields /\ n.ts \in Nat /\ n.seq \in Nat /\ n.pc # "read"
        BY <2>0, <2>1, <2>2 DEF TxOk
      <4> QED BY <3>5, <3>6, <3>7, <3>8, <4>1 DEF TxOk
    <3>10. ASSUME NEW v \in Writer \ {w}, Open(v) PROVE Apart(n, tx[v])
      BY <2>0, <3>3, <3>6, <3>10 DEF Apart
    <3> QED BY <3>9, <3>10
  <2> QED BY <1>0, <2>1, <2>2, TxMove
<1>5. CASE AppendCollides(w)
  <2>0. TxOk(tx[w], rows, swept)
    BY <1>5, OpenTx DEF AppendCollides, CanInsert, Open
  <2>1. PICK n : /\ tx' = [tx EXCEPT ![w] = n]
                 /\ n.pc # "idle" =>
                     /\ DOMAIN n = TxFields
                     /\ n.pc = "start" /\ n.ts = tx[w].ts /\ n.seq = tx[w].seq /\ n.own = {}
    BY <1>5, CollideIs
  <2>2. n.pc # "idle" => TxOk(n, rows, swept) /\ \A v \in Writer \ {w} : Apart(n, tx[v])
    BY <1>0, <2>0, <2>1 DEF TxOk, Apart
  <2> QED BY <1>0, <2>1, <2>2, TxMove
<1>6. CASE Abort(w)
  <2>1. tx' = [tx EXCEPT ![w] = NoTx] /\ NoTx.pc = "idle"
    BY <1>6 DEF Abort, NoTx
  <2> QED BY <1>0, <2>1, TxMove
<1> QED BY <1>1, <1>2, <1>3, <1>4, <1>5, <1>6

LEMMA ChainCommit ==
  ASSUME ChainInv, NEW w \in Writer, Commit(w)
  PROVE  ChainInv'
<1>1. /\ tx' = [tx EXCEPT ![w] = NoTx] /\ rows' = rows \cup tx[w].own
      /\ UNCHANGED <<swept, sweep, now>> /\ Open(w) /\ NoTx.pc = "idle"
  BY DEF Commit, keyVars, Open, NoTx
<1>2. DOMAIN tx' = Writer /\ tx'[w].pc = "idle" /\ \A v \in Writer \ {w} : tx'[v] = tx[v]
  BY <1>1 DEF ChainInv
<1>3. TxOk(tx[w], rows, swept) /\ \A v \in Writer \ {w} : Open(v) => Apart(tx[w], tx[v])
  BY <1>1, OpenTx
<1>4. Chain(rows', swept)
  BY <1>1, <1>3 DEF TxOk
<1>5. ASSUME NEW v \in Writer \ {w}, Open(v) PROVE TxOk(tx[v], rows', swept)
  <2>1. TxOk(tx[v], rows, swept) /\ Apart(tx[w], tx[v])
    BY <1>3, <1>5, OpenTx
  <2>2. Chain(rows \cup tx[w].own \cup tx[v].own, swept)
    <3>1. PICK b, c : b = tx[w].own /\ c = tx[v].own
      OBVIOUS
    <3>2. /\ Chain(rows \cup b, swept) /\ Chain(rows \cup c, swept)
          /\ \A e \in b, o \in c : e.seq # o.seq
      BY <1>3, <2>1, <3>1 DEF TxOk, Apart
    <3>3. Chain(rows \cup b \cup c, swept)
      BY <3>2, ChainUnion
    <3> QED BY <3>1, <3>3
  <2>3. Chain(rows' \cup tx[v].own, swept) /\ rows \cup tx[v].own \subseteq rows' \cup tx[v].own
    BY <1>1, <2>2
  <2>4. \A e \in tx[v].own : \A o \in rows' : o.seq # e.seq
    BY <1>1, <2>1 DEF TxOk, Apart
  <2>5. \A k : Reached(k, rows \cup tx[v].own, swept) => Reached(k, rows' \cup tx[v].own, swept)
    BY <2>3 DEF Reached
  <2>6. \A seq, prev : Follows(seq, prev, rows \cup tx[v].own, swept)
                          => Follows(seq, prev, rows' \cup tx[v].own, swept)
    BY <2>3 DEF Follows
  <2>7. /\ DOMAIN tx[v] = TxFields /\ tx[v].ts \in Nat /\ tx[v].seq \in Nat /\ IsFiniteSet(tx[v].own)
        /\ tx[v].pc = "read" =>
             /\ Follows(tx[v].seq, tx[v].prev, rows \cup tx[v].own, swept)
             /\ \A k \in 0..(tx[v].seq - 1) : Reached(k, rows \cup tx[v].own, swept)
             /\ \A e \in tx[v].own : e.seq # tx[v].seq
    BY <2>1 DEF TxOk
  <2> QED BY <2>3, <2>4, <2>5, <2>6, <2>7 DEF TxOk
<1>6. /\ now \in Nat /\ sweep # None => sweep \in Int /\ sweep <= now - Retention
      /\ \A u, v \in Writer : u # v /\ Open(u) /\ Open(v) => Apart(tx[u], tx[v])
  BY DEF ChainInv
<1>7. \A v \in Writer : tx'[v].pc # "idle" => TxOk(tx'[v], rows', swept)
  BY <1>2, <1>5 DEF Open
<1>8. \A u, v \in Writer : u # v /\ tx'[u].pc # "idle" /\ tx'[v].pc # "idle" => Apart(tx'[u], tx'[v])
  BY <1>2, <1>6 DEF Open
<1> QED BY <1>1, <1>2, <1>4, <1>6, <1>7, <1>8 DEF ChainInv, Open

LEMMA ChainDelete ==
  ASSUME ChainInv, SweepDelete
  PROVE  ChainInv'
<1>1. /\ rows' \subseteq rows /\ swept \subseteq swept' /\ \A e \in rows \ rows' : e.seq \in swept'
      /\ sweep' = None /\ UNCHANGED <<tx, now>>
  BY DEF SweepDelete, keyVars
<1>2. Chain(rows', swept')
  BY <1>1, ChainSweep DEF ChainInv
<1>3. ASSUME NEW w \in Writer, Open(w) PROVE TxOk(tx[w], rows', swept')
  <2>1. TxOk(tx[w], rows, swept)
    BY <1>3, OpenTx
  <2>2. /\ rows' \cup tx[w].own \subseteq rows \cup tx[w].own
        /\ \A e \in (rows \cup tx[w].own) \ (rows' \cup tx[w].own) : e.seq \in swept'
    BY <1>1
  <2>3. /\ Chain(rows' \cup tx[w].own, swept')
        /\ \A k : Reached(k, rows \cup tx[w].own, swept) => Reached(k, rows' \cup tx[w].own, swept')
        /\ \A seq, prev : Follows(seq, prev, rows \cup tx[w].own, swept)
                             => Follows(seq, prev, rows' \cup tx[w].own, swept')
    <3>1. PICK a, b : a = rows \cup tx[w].own /\ b = rows' \cup tx[w].own
      OBVIOUS
    <3>2. Chain(a, swept) /\ b \subseteq a /\ swept \subseteq swept' /\ \A e \in a \ b : e.seq \in swept'
      BY <1>1, <2>1, <2>2, <3>1 DEF TxOk
    <3>3. /\ Chain(b, swept')
          /\ \A k : Reached(k, a, swept) => Reached(k, b, swept')
          /\ \A seq, prev : Follows(seq, prev, a, swept) => Follows(seq, prev, b, swept')
      BY <3>2, ChainSweep
    <3> QED BY <3>1, <3>3
  <2> QED BY <1>1, <2>1, <2>3 DEF TxOk
<1> QED BY <1>1, <1>2, <1>3 DEF ChainInv, Open

LEMMA ChainRest ==
  ASSUME ChainInv,
         \/ UNCHANGED auditVars /\ now' \in {now, now + 1}
         \/ SweepCheckpoint
         \/ AuditCrash /\ UNCHANGED now
  PROVE  ChainInv'
<1>0. Retention \in Int
  BY AuditAssumption
<1>1. CASE UNCHANGED auditVars /\ now' \in {now, now + 1}
  BY <1>0, <1>1 DEF ChainInv, auditVars, Open
<1>2. CASE SweepCheckpoint
  BY <1>0, <1>2 DEF ChainInv, SweepCheckpoint, keyVars, Open
<1>3. CASE AuditCrash /\ UNCHANGED now
  BY <1>3 DEF ChainInv, AuditCrash, Open, NoTx
<1> QED BY <1>1, <1>2, <1>3

\* The steps that the audit chain can see.
LEMMA AuditCases ==
  ASSUME [Next]_vars
  PROVE  \/ UNCHANGED auditVars /\ now' \in {now, now + 1} /\ (split => split')
         \/ \E w \in Writer : \/ \E dirty \in BOOLEAN : AppendStart(w, dirty)
                              \/ AppendAgain(w) \/ AppendRead(w) \/ AppendInsert(w)
                              \/ AppendCollides(w) \/ Abort(w)
         \/ \E w \in Writer : Commit(w)
         \/ SweepCheckpoint
         \/ SweepDelete
         \/ AuditCrash /\ UNCHANGED now /\ (split => split')
<1>1. CASE UNCHANGED vars
  BY <1>1 DEF vars, keyVars
<1>2. CASE BootStep /\ UNCHANGED <<auditVars, relVars, secretVars>>
  BY <1>2 DEF BootStep, StartCa, WriteCaFile, StartSigning, WriteSignFile, StartServices, StartGrpc,
              WriteRotated, fileVars, bootVars, memVars
<1>3. CASE (SignHost \/ KeysStep) /\ UNCHANGED <<auditVars, relVars, secretVars>>
  BY <1>3 DEF SignHost, KeysStep, Rotate, Tick, fileVars, bootVars, memVars
<1>4. CASE AuditStep
  BY <1>4 DEF AuditStep
<1>5. CASE ReleasesStep /\ UNCHANGED <<auditVars, secretVars>>
  BY <1>5 DEF ReleasesStep, UploadWrite, UploadCommit, Yank, InstallInfo, InstallBinary, keyVars
<1>6. CASE SecretsStep /\ UNCHANGED <<auditVars, relVars>>
  BY ZenonT(30), <1>6 DEF SecretsStep, RevealSecret, GetCached, GetMisses, RotateSecret, Migrate, Put, BackendGet,
              GotValue, BackendPut, PutDone, Reveal, CacheExpires, HandleExpires, VaultSeals, PollOnce,
              KeepsMonitor, keyVars
<1>7. CASE ProcessEnds
  BY <1>7 DEF ProcessEnds, CrashKeys, StopKeys
<1> QED BY <1>1, <1>2, <1>3, <1>4, <1>5, <1>6, <1>7 DEF Next

LEMMA ChainStep == ASSUME ChainInv, [Next]_vars PROVE ChainInv'
  BY AuditCases, ChainTx, ChainCommit, ChainDelete, ChainRest

LEMMA ChainHolds == Spec => []ChainInv
<1>1. Init => ChainInv
  <2> SUFFICES ASSUME Init PROVE ChainInv
    OBVIOUS
  <2>1. /\ rows = {} /\ swept = {} /\ sweep = None /\ tx = [w \in Writer |-> NoTx] /\ now = 0
    BY DEF Init, AuditInit, KeysInit
  <2>2. \A w \in Writer : ~Open(w)
    BY <2>1 DEF Open, NoTx
  <2> QED BY <2>1, <2>2, FS_EmptySet DEF ChainInv, Chain
<1>2. ChainInv /\ [Next]_vars => ChainInv'
  BY ChainStep
<1> QED BY <1>1, <1>2, PTL DEF Spec

-----------------------------------------------------------------------------
(***************************************************************************)
(* What SQLite's write lock keeps.                                           *)
(***************************************************************************)
LEMMA WriteTx ==
  ASSUME ChainInv, WriteInv, NEW w \in Writer,
         \/ \E dirty \in BOOLEAN : AppendStart(w, dirty)
         \/ AppendAgain(w) \/ AppendRead(w) \/ AppendInsert(w) \/ AppendCollides(w) \/ Abort(w)
  PROVE  WriteInv'
<1>0. UNCHANGED <<rows, engine>> /\ DOMAIN tx = Writer
  BY DEF ChainInv, AppendStart, AppendAgain, AppendRead, AppendInsert, AppendCollides, Abort, Rest
<1> SUFFICES ASSUME engine = "sqlite" PROVE WriteInv'
  BY <1>0 DEF WriteInv
<1>1. ASSUME NEW dirty, AppendStart(w, dirty) PROVE WriteInv'
  <2>1. PICK n : /\ tx' = [tx EXCEPT ![w] = n] /\ n.pc = "start" /\ n.own = {}
                 /\ n.flushed = FALSE /\ n.lost = FALSE
    BY <1>1, StartIs
  <2>2. TxKeeps(n, rows) /\ ~ (n.own # {} \/ n.flushed)
    BY <2>1 DEF TxKeeps
  <2> QED BY <1>0, <2>1, <2>2, WriteMove
<1>2. CASE AppendAgain(w)
  <2>0. Open(w) /\ TxKeeps(tx[w], rows)
    BY <1>2 DEF AppendAgain, Open, WriteInv
  <2>1. PICK n : /\ tx' = [tx EXCEPT ![w] = n] /\ n.pc = "start" /\ n.own = tx[w].own
                 /\ n.flushed = tx[w].flushed /\ n.lost = tx[w].lost
    BY <1>2, AgainIs
  <2>2. TxKeeps(n, rows) /\ (n.own # {} \/ n.flushed => Writing(w))
    BY <2>0, <2>1 DEF TxKeeps, Writing
  <2> QED BY <1>0, <2>1, <2>2, WriteMove
<1>3. CASE AppendRead(w)
  <2>0. Open(w) /\ TxKeeps(tx[w], rows)
    BY <1>3 DEF AppendRead, Open, WriteInv
  <2>1. PICK n : /\ tx' = [tx EXCEPT ![w] = n] /\ n.pc = "read" /\ n.own = tx[w].own
                 /\ n.lost = tx[w].lost /\ n.dirty = tx[w].dirty
                 /\ n.flushed <=> (tx[w].flushed \/ tx[w].dirty)
                 /\ \/ Visible(w) = {} /\ n.seq = 0 /\ n.prev = Genesis
                    \/ \E e \in Visible(w) : /\ \A o \in Visible(w) : o.seq <= e.seq
                                             /\ n.seq = e.seq + 1 /\ n.prev = e.hash
    BY <1>3, ReadIs
  <2>2. \A o \in rows : o.seq < n.seq
    <3>1. \A o \in Visible(w) : o.seq \in Nat
      <4>1. Chain(Visible(w), swept)
        BY <2>0, OpenTx DEF TxOk, Visible
      <4> QED BY <4>1, AuditAssumption DEF Chain
    <3> QED BY <2>1, <3>1 DEF Visible
  <2>3. TxKeeps(n, rows)
    BY <2>0, <2>1, <2>2 DEF TxKeeps
  <2>4. n.own # {} \/ n.flushed => Writing(w) \/ \A v \in Writer \ {w} : ~Writing(v)
    <3>1. CASE tx[w].dirty
      BY <1>3, <3>1 DEF AppendRead, LockFree
    <3>2. CASE ~tx[w].dirty
      BY <2>0, <2>1, <3>2 DEF Writing
    <3> QED BY <3>1, <3>2
  <2> QED BY <1>0, <2>1, <2>3, <2>4, WriteMove
<1>4. CASE AppendInsert(w)
  <2>0. Open(w) /\ TxKeeps(tx[w], rows)
    BY <1>4 DEF AppendInsert, CanInsert, Open, WriteInv
  <2>1. PICK n : /\ tx' = [tx EXCEPT ![w] = n]
                 /\ n.pc # "idle" => /\ n.pc = "flushed" /\ n.own = tx[w].own \cup {Entry(w)}
                                     /\ n.lost = tx[w].lost /\ n.flushed = TRUE
    BY <1>4, InsertIs
  <2>2. ~Entry(w).lost
    BY <2>0 DEF Entry, TxKeeps
  <2>3. n.pc # "idle" => TxKeeps(n, rows)
    BY <2>0, <2>1, <2>2 DEF TxKeeps
  <2>4. \A v \in Writer \ {w} : ~Writing(v)
    BY <1>4 DEF AppendInsert, CanInsert, LockFree
  <2> QED BY <1>0, <2>1, <2>3, <2>4, WriteMove
<1>5. CASE AppendCollides(w)
  <2>0. /\ Open(w) /\ TxKeeps(tx[w], rows) /\ tx[w].pc = "read" /\ TxOk(tx[w], rows, swept)
        /\ \E e \in rows : e.seq = tx[w].seq
    BY <1>5, OpenTx DEF AppendCollides, CanInsert, Duplicate, Open, WriteInv
  <2>1. PICK n : /\ tx' = [tx EXCEPT ![w] = n]
                 /\ n.pc # "idle" => /\ n.pc = "start" /\ n.own = {} /\ n.flushed = FALSE
                                     /\ n.lost <=> (tx[w].lost \/ tx[w].dirty)
    BY <1>5, CollideIs
  <2>2. ~tx[w].dirty
    BY <2>0 DEF TxKeeps, TxOk
  <2>3. n.pc # "idle" => TxKeeps(n, rows) /\ ~ (n.own # {} \/ n.flushed)
    BY <2>0, <2>1, <2>2 DEF TxKeeps
  <2> QED BY <1>0, <2>1, <2>3, WriteMove
<1>6. CASE Abort(w)
  <2>1. tx' = [tx EXCEPT ![w] = NoTx] /\ NoTx.pc = "idle"
    BY <1>6 DEF Abort, NoTx
  <2> QED BY <1>0, <2>1, WriteMove
<1> QED BY <1>1, <1>2, <1>3, <1>4, <1>5, <1>6

LEMMA WriteStep == ASSUME ChainInv, WriteInv, [Next]_vars PROVE WriteInv'
<1>0. engine' = engine /\ DOMAIN tx = Writer
  BY AuditCases DEF ChainInv, auditVars, AppendStart, AppendAgain, AppendRead, AppendInsert,
                    AppendCollides, Abort, Rest, Commit, SweepCheckpoint, SweepDelete, AuditCrash
<1> SUFFICES ASSUME engine = "sqlite" PROVE WriteInv'
  BY <1>0 DEF WriteInv
<1>1. CASE UNCHANGED auditVars
  BY <1>1 DEF WriteInv, auditVars, Writing, Open
<1>2. ASSUME NEW w \in Writer, Commit(w) PROVE WriteInv'
  <2>1. /\ tx' = [tx EXCEPT ![w] = NoTx] /\ rows' = rows \cup tx[w].own
        /\ Open(w) /\ tx[w].pc = "flushed" /\ NoTx.pc = "idle"
    BY <1>2 DEF Commit, Open, NoTx
  <2>2. DOMAIN tx' = Writer /\ tx'[w].pc = "idle" /\ \A v \in Writer \ {w} : tx'[v] = tx[v]
    BY <1>0, <2>1
  <2>3. TxKeeps(tx[w], rows) /\ \A v \in Writer : Open(v) => TxKeeps(tx[v], rows)
    BY <2>1 DEF WriteInv
  <2>4. Writing(w)
    BY <2>1, <2>3 DEF Writing, TxKeeps
  <2>5. \A v \in Writer \ {w} : ~Writing(v)
    BY <2>4 DEF WriteInv
  <2>6. ASSUME NEW v \in Writer \ {w}, Open(v) PROVE TxKeeps(tx[v], rows')
    <3>1. ~ (tx[v].own # {} \/ tx[v].flushed)
      BY <2>5, <2>6 DEF Writing
    <3> QED BY <2>3, <2>6, <3>1 DEF TxKeeps
  <2>7. \A v \in Writer : tx'[v].pc # "idle" => TxKeeps(tx'[v], rows')
    BY <2>2, <2>6 DEF Open
  <2>8. \A v \in Writer : ~Writing(v)'
    <3> SUFFICES ASSUME NEW v \in Writer PROVE ~Writing(v)'
      OBVIOUS
    <3>1. CASE v = w
      BY <2>2, <3>1 DEF Writing, Open
    <3>2. CASE v # w
      BY <2>2, <2>5, <3>2 DEF Writing, Open
    <3> QED BY <3>1, <3>2
  <2>9. \A e \in rows' : ~e.lost
    BY <2>1, <2>3 DEF TxKeeps, WriteInv
  <2> HIDE DEF Writing
  <2> QED BY <2>7, <2>8, <2>9 DEF WriteInv, Open
<1>3. CASE SweepCheckpoint
  BY <1>3 DEF SweepCheckpoint, WriteInv, Writing, Open
<1>4. CASE SweepDelete
  <2>1. rows' \subseteq rows /\ UNCHANGED tx
    BY <1>4 DEF SweepDelete
  <2>2. \A w \in Writer : Open(w) => TxKeeps(tx[w], rows')
    BY <2>1 DEF WriteInv, TxKeeps
  <2> QED BY <2>1, <2>2 DEF WriteInv, Writing, Open
<1>5. CASE AuditCrash
  BY <1>5 DEF AuditCrash, WriteInv, Writing, Open, NoTx
<1> QED BY AuditCases, WriteTx, <1>1, <1>2, <1>3, <1>4, <1>5

LEMMA WriteHolds == Spec => []WriteInv
<1>1. Init => WriteInv
  <2> SUFFICES ASSUME Init PROVE WriteInv
    OBVIOUS
  <2>1. rows = {} /\ \A w \in Writer : tx[w].pc = "idle"
    BY DEF Init, AuditInit, NoTx
  <2> QED BY <2>1 DEF WriteInv, Writing, Open
<1>2. ChainInv /\ WriteInv /\ [Next]_vars => WriteInv'
  BY WriteStep
<1> QED BY <1>1, <1>2, ChainHolds, PTL DEF Spec

\* On SQLite no committed entry reports a change that append rolled back: the head is
\* read after the flush has taken the write lock, so that the insert of a caller with
\* changes meets no duplicate.
THEOREM ChangesStayWithEntries == Spec => []EntryKeepsItsChange
<1>1. WriteInv => EntryKeepsItsChange
  BY DEF WriteInv, EntryKeepsItsChange
<1> QED BY <1>1, WriteHolds, PTL

-----------------------------------------------------------------------------
(***************************************************************************)
(* The committed rows implement the abstract log.                            *)
(***************************************************************************)
Logged(e) == [seq |-> e.seq, prev |-> e.prev, hash |-> e.hash]
LogOf(set) == {Logged(e) : e \in set}
Expired == swept \cup {e.seq : e \in Old}

LEMMA LoggedFields ==
  ASSUME NEW e
  PROVE  Logged(e).seq = e.seq /\ Logged(e).prev = e.prev /\ Logged(e).hash = e.hash
  BY DEF Logged

\* In a chain the newest entry below a number is the one before it, if it is there.
LEMMA NewestBelow ==
  ASSUME NEW set, NEW gone, Chain(set, gone), NEW e \in set, NEW o \in set, o.seq = e.seq - 1
  PROVE  Log!Newest({l \in LogOf(set) : l.seq < e.seq}) = Logged(o)
<1> DEFINE B == {l \in LogOf(set) : l.seq < e.seq}
<1>1. \A f \in set : f.seq \in Nat
  BY AuditAssumption DEF Chain
<1>2. Logged(o) \in B
  BY <1>1, LoggedFields DEF LogOf
<1>3. ASSUME NEW l \in B PROVE l.seq \in Nat /\ l.seq <= o.seq /\ (l.seq = o.seq => l = Logged(o))
  <2>1. PICK f \in set : l = Logged(f)
    BY DEF LogOf
  <2>2. l.seq = f.seq /\ l.seq < e.seq
    BY <2>1, LoggedFields
  <2>3. f.seq = o.seq => f = o
    BY DEF Chain
  <2> QED BY <1>1, <2>1, <2>2, <2>3
<1>4. PICK m : m = (CHOOSE l \in B : \A p \in B : p.seq <= l.seq)
  OBVIOUS
<1>5. m \in B /\ \A p \in B : p.seq <= m.seq
  <2>1. \A p \in B : p.seq <= Logged(o).seq
    BY <1>3, LoggedFields
  <2> HIDE DEF B
  <2> QED BY <1>2, <1>4, <2>1
<1>6. o.seq <= m.seq
  BY <1>2, <1>5, LoggedFields
<1>7. m = Logged(o)
  <2> HIDE DEF B
  <2> QED BY <1>1, <1>3, <1>5, <1>6
<1>8. B # {}
  BY <1>2
<1> HIDE DEF B
<1>9. Log!Newest(B) = m
  BY <1>4, <1>8 DEF Log!Newest
<1> QED BY <1>7, <1>9 DEF B

LEMMA CommitExtends ==
  ASSUME ChainInv, ChainInv', NEW w \in Writer, Commit(w)
  PROVE  Log!Extend
<1>1. /\ rows' = rows \cup tx[w].own /\ swept' = swept /\ Open(w)
      /\ TxOk(tx[w], rows, swept) /\ Chain(rows, swept) /\ Chain(rows', swept)
  BY OpenTx DEF Commit, Open, ChainInv
<1>2. LogOf(rows) \subseteq LogOf(rows')
  BY <1>1 DEF LogOf
<1>3. ASSUME NEW l \in LogOf(rows') \ LogOf(rows)
      PROVE  /\ \/ /\ l.seq = Log!Newest({o \in LogOf(rows') : o.seq < l.seq}).seq + 1
                   /\ l.prev = Log!Newest({o \in LogOf(rows') : o.seq < l.seq}).hash
                \/ l.seq - 1 \in Expired
             /\ (\A o \in LogOf(rows) : o.seq < l.seq) \/ l.seq \in Expired
             /\ \A o \in LogOf(rows') : o.seq = l.seq => o = l
  <2>1. PICK e \in tx[w].own : l = Logged(e)
    BY <1>1, <1>3 DEF LogOf
  <2>2. e \in rows' /\ l.seq = e.seq /\ l.prev = e.prev /\ e.seq \in Nat
    BY <1>1, <2>1, LoggedFields, AuditAssumption DEF Chain
  <2>3. \A o \in rows' : o.seq \in Nat
    BY <1>1, AuditAssumption DEF Chain
  <2>4. Follows(e.seq, e.prev, rows', swept)
    BY <1>1, <2>2 DEF Chain
  <2>5. \/ /\ l.seq = Log!Newest({o \in LogOf(rows') : o.seq < l.seq}).seq + 1
           /\ l.prev = Log!Newest({o \in LogOf(rows') : o.seq < l.seq}).hash
        \/ l.seq - 1 \in Expired
    <3>1. CASE e.seq = 0 /\ e.prev = Genesis
      <4>1. {o \in LogOf(rows') : o.seq < l.seq} = {}
        BY <2>2, <2>3, <3>1, LoggedFields DEF LogOf
      <4>2. Log!Newest({}).seq = -1 /\ Log!Newest({}).hash = Genesis
        BY DEF Log!Newest
      <4> QED BY <2>2, <3>1, <4>1, <4>2
    <3>2. CASE \E o \in rows' : o.seq = e.seq - 1 /\ o.hash = e.prev
      <4>1. PICK o \in rows' : o.seq = e.seq - 1 /\ o.hash = e.prev
        BY <3>2
      <4>2. Log!Newest({p \in LogOf(rows') : p.seq < e.seq}) = Logged(o)
        <5>1. PICK a, g : a = rows' /\ g = swept
          OBVIOUS
        <5>2. Chain(a, g) /\ e \in a /\ o \in a
          BY <1>1, <2>2, <4>1, <5>1
        <5>3. Log!Newest({p \in LogOf(a) : p.seq < e.seq}) = Logged(o)
          BY <4>1, <5>2, NewestBelow
        <5> QED BY <5>1, <5>3
      <4> QED BY <2>2, <2>3, <4>1, <4>2, LoggedFields
    <3>3. CASE e.seq - 1 \in swept
      BY <2>2, <3>3 DEF Expired
    <3> QED BY <2>4, <3>1, <3>2, <3>3 DEF Follows
  <2>6. (\A o \in LogOf(rows) : o.seq < l.seq) \/ l.seq \in Expired
    <3>1. CASE \A o \in rows : o.seq < e.seq
      BY <2>2, <3>1, LoggedFields DEF LogOf
    <3>2. CASE \E o \in rows : ~ (o.seq < e.seq)
      <4>1. PICK o \in rows : ~ (o.seq < e.seq)
        BY <3>2
      <4>2. e.seq \in 0..o.seq
        BY <1>1, <2>2, <2>3, <4>1
      <4>3. Reached(e.seq, rows, swept)
        BY <1>1, <4>2 DEF Chain
      <4>4. \A p \in rows : p.seq # e.seq
        BY <1>1, <2>1 DEF TxOk
      <4> QED BY <2>2, <4>3, <4>4 DEF Reached, Expired
    <3> QED BY <3>1, <3>2
  <2>7. ASSUME NEW o \in LogOf(rows'), o.seq = l.seq PROVE o = l
    <3>1. PICK f \in rows' : o = Logged(f)
      BY DEF LogOf
    <3>2. f.seq = e.seq
      BY <2>2, <2>7, <3>1, LoggedFields
    <3>3. f = e
      BY <1>1, <2>2, <3>2 DEF Chain
    <3> QED BY <2>1, <3>1, <3>3
  <2> QED BY <2>5, <2>6, <2>7
<1> QED BY <1>2, <1>3 DEF Log!Extend, LogOf, Logged, Expired

LEMMA DeletePrunes ==
  ASSUME ChainInv, SweepDelete
  PROVE  Log!Prune /\ Expired \subseteq Expired'
<1>1. /\ rows' = {e \in rows : e.ts >= sweep} /\ swept' = swept \cup {e.seq : e \in rows \ rows'}
      /\ sweep \in Int /\ sweep <= now - Retention /\ now \in Nat /\ now' = now
      /\ \A e \in rows : e.ts \in Nat
  BY DEF SweepDelete, ChainInv, Chain, keyVars
<1>2. LogOf(rows') \subseteq LogOf(rows)
  BY <1>1 DEF LogOf
<1>3. ASSUME NEW l \in LogOf(rows) \ LogOf(rows') PROVE l.seq \in Expired
  <2>1. PICK e \in rows : l = Logged(e)
    BY DEF LogOf
  <2>2. e \notin rows'
    BY <1>3, <2>1 DEF LogOf
  <2>3. ~ (e.ts >= sweep)
    BY <1>1, <2>2
  <2>4. e.ts < now - Retention
    BY <1>1, <2>3, AuditAssumption
  <2>5. e \in Old
    BY <2>4 DEF Old
  <2> QED BY <2>1, <2>5, LoggedFields DEF Expired
<1>4. \A e \in Old : e \in Old' \/ e.seq \in swept'
  <2> SUFFICES ASSUME NEW e \in rows, e.ts < now - Retention, e \in rows' PROVE e \in Old'
    BY <1>1 DEF Old
  <2> QED BY <1>1 DEF Old
<1>5. Expired \subseteq Expired'
  BY <1>1, <1>4 DEF Expired
<1> QED BY <1>2, <1>3, <1>5 DEF Log!Prune, LogOf, Logged, Expired

\* Every step of the platform is a step of the log or leaves it unchanged.
LEMMA LogStep ==
  ASSUME ChainInv, ChainInv', [Next]_vars
  PROVE  Log!Next
<1>1. CASE \E w \in Writer : Commit(w)
  <2>1. PICK w \in Writer : Commit(w)
    BY <1>1
  <2>2. rows \subseteq rows' /\ swept' = swept /\ now' = now
    BY <2>1 DEF Commit, keyVars
  <2>3. Expired \subseteq Expired'
    BY <2>2 DEF Expired, Old
  <2> QED BY <2>1, <2>3, CommitExtends DEF Log!Next, Expired
<1>2. CASE SweepDelete
  BY <1>2, DeletePrunes DEF Log!Next, Expired
<1>3. ASSUME UNCHANGED <<rows, swept>>, now' \in {now, now + 1} PROVE Log!Next
  <2>1. \A e \in Old : e \in Old'
    BY <1>3, AuditAssumption DEF Old, ChainInv, Chain
  <2>2. Expired \subseteq Expired'
    BY <1>3, <2>1 DEF Expired
  <2>3. Log!Expire
    BY <1>3 DEF Log!Expire
  <2> QED BY <2>2, <2>3 DEF Log!Next, Expired
<1>4. CASE UNCHANGED auditVars /\ now' \in {now, now + 1}
  BY <1>3, <1>4 DEF auditVars
<1>5. CASE AuditCrash /\ UNCHANGED now
  BY <1>3, <1>5 DEF AuditCrash
<1>6. CASE SweepCheckpoint
  BY <1>3, <1>6 DEF SweepCheckpoint, keyVars
<1>7. ASSUME NEW w \in Writer,
             \/ \E dirty \in BOOLEAN : AppendStart(w, dirty)
             \/ AppendAgain(w) \/ AppendRead(w) \/ AppendInsert(w) \/ AppendCollides(w) \/ Abort(w)
      PROVE  Log!Next
  <2>1. UNCHANGED <<rows, swept>> /\ now' = now
    BY <1>7 DEF AppendStart, AppendAgain, AppendRead, AppendInsert, AppendCollides, Abort, Rest, keyVars
  <2> QED BY <1>3, <2>1
<1> QED BY AuditCases, <1>1, <1>2, <1>4, <1>5, <1>6, <1>7

\* The committed rows of the audit table implement the abstract log, whatever
\* appends, duplicates, retries, aborts, sweeps and crashes interleave: an entry is
\* committed only at the end of the chain and linked to it, is never changed, and
\* leaves only once its retention has passed.
THEOREM RowsImplementLog == Spec => LogImplemented
<1>1. Init => Log!Init
  <2> SUFFICES ASSUME Init PROVE Log!Init
    OBVIOUS
  <2>1. rows = {} /\ swept = {}
    BY DEF Init, AuditInit
  <2> QED BY <2>1 DEF Log!Init, Old
<1>2. ChainInv /\ ChainInv' /\ [Next]_vars => Log!Next
  BY LogStep
<1> QED BY <1>1, <1>2, ChainHolds, PTL DEF Spec, LogImplemented, Log!Spec

-----------------------------------------------------------------------------
(***************************************************************************)
(* The keys.                                                                 *)
(***************************************************************************)
LEMMA FilesAre ==
  /\ CaFiles[1] = "root.key" /\ CaFiles[2] = "root.crt" /\ CaFiles[3] = "int.key" /\ CaFiles[4] = "int.crt"
  /\ SignFiles[1] = "current.key" /\ SignFiles[2] = "current.pub" /\ SignFiles[3] = "grace.json"
  /\ RotateFiles[1] = "retired.pub" /\ RotateFiles[2] = "current.key" /\ RotateFiles[3] = "current.pub"
  /\ RotateFiles[4] = "grace.json"
  /\ Len(CaFiles) = 4 /\ Len(SignFiles) = 3 /\ Len(RotateFiles) = 4
  BY DEF CaFiles, SignFiles, RotateFiles

LEMMA CaPartsIs == {CaFiles[i] : i \in 1..4} = CaParts
<1>1. \A i \in 1..4 : i = 1 \/ i = 2 \/ i = 3 \/ i = 4
  OBVIOUS
<1> QED BY <1>1, FilesAre DEF CaParts

LEMMA FileIs ==
  File = {"root.key", "root.crt", "int.key", "int.crt", "retired.pub", "current.key", "current.pub",
          "grace.json"}
<1>1. {CaFiles[i] : i \in 1..4} = {"root.key", "root.crt", "int.key", "int.crt"}
  BY CaPartsIs DEF CaParts
<1>2. {RotateFiles[i] : i \in 1..4} = {"retired.pub", "current.key", "current.pub", "grace.json"}
  <2>1. \A i \in 1..4 : i = 1 \/ i = 2 \/ i = 3 \/ i = 4
    OBVIOUS
  <2> QED BY <2>1, FilesAre
<1> QED BY <1>1, <1>2 DEF File

\* The file a script writes next, and whether a crash can tear it.
LEMMA ScriptIs ==
  ASSUME KeyTypes, pc \in {"ca", "sign", "rotate"}
  PROVE  /\ Script[step] \in File
         /\ Script[step] \notin Atomic =>
              /\ Script[step] # "current.key"
              /\ Script[step] = "current.pub" => (pc = "sign" /\ step = 2) \/ (pc = "rotate" /\ step = 3)
              /\ Script[step] \in CaParts => pc = "ca"
<1>1. step = 1 \/ step = 2 \/ step = 3 \/ step = 4
  BY DEF KeyTypes
<1>2. CASE pc = "ca"
  <2>1. Script = CaFiles
    BY <1>2 DEF Script
  <2> QED BY <1>1, <1>2, <2>1, FilesAre, FileIs DEF Atomic, CaParts
<1>3. CASE pc = "sign"
  <2>1. Script = SignFiles /\ step # 4
    BY <1>3 DEF Script, KeyTypes
  <2> QED BY <1>1, <1>3, <2>1, FilesAre, FileIs DEF Atomic, CaParts
<1>4. CASE pc = "rotate"
  <2>1. Script = RotateFiles
    BY <1>4 DEF Script
  <2> QED BY <1>1, <1>4, <2>1, FilesAre, FileIs DEF Atomic, CaParts
<1> QED BY <1>2, <1>3, <1>4

KeyInv == KeyTypes /\ CaInv /\ SignInv

LEMMA StartCaStep == ASSUME KeyInv, StartCa PROVE KeyInv'
<1>0. UNCHANGED <<disk, graced, sign, retired, leaves, split, now>> /\ pc = "down"
  BY DEF StartCa
<1>1. CASE "ca" \in dirs /\ LoadedCa # None /\ ca' = LoadedCa /\ pc' = "opened"
           /\ UNCHANGED <<dirs, step, gen, made, born>>
  <2>1. KeyTypes' /\ SignInv'
    BY <1>0, <1>1 DEF KeyInv, KeyTypes, SignInv
  <2>2. ca' = [f \in CaParts |-> disk[f]] /\ \A f \in CaParts : disk[f] > 0
    BY <1>1, CaPartsIs DEF LoadedCa
  <2>3. \A f \in CaParts : disk[f] = 1
    BY <2>2 DEF KeyInv, CaInv, Absent, Torn
  <2>4. \A f \in {"int.key", "int.crt", "root.crt"} : ca'[f] = 1
    BY <2>2, <2>3 DEF CaParts
  <2> QED BY <1>0, <1>1, <2>1, <2>4 DEF KeyInv, CaInv
<1>2. CASE "ca" \notin dirs /\ Generate("ca") /\ dirs' = dirs \cup {"ca"} /\ UNCHANGED ca
  <2>1. made = 0 /\ dirs = {} /\ leaves = {}
    BY <1>2 DEF KeyInv, CaInv
  <2>2. made' = 1 /\ gen' = 1 /\ born' = Append(born, now) /\ pc' = "ca" /\ step' = 1
    BY <1>2, <2>1 DEF Generate
  <2>3. KeyTypes'
    BY <1>0, <2>1, <2>2 DEF KeyInv, KeyTypes
  <2>4. CaInv'
    BY <1>0, <1>2, <2>1, <2>2 DEF KeyInv, CaInv
  <2>5. SignInv'
    BY <1>0, <1>2, <2>2 DEF KeyInv, SignInv
  <2> QED BY <2>3, <2>4, <2>5 DEF KeyInv
<1> QED BY <1>1, <1>2 DEF StartCa

LEMMA WriteCaStep == ASSUME KeyInv, WriteCaFile PROVE KeyInv'
<1>1. /\ pc = "ca" /\ gen = 1 /\ CaFiles[step] \in CaParts
      /\ step = 1 \/ step = 2 \/ step = 3 \/ step = 4
      /\ disk' = [disk EXCEPT ![CaFiles[step]] = 1]
      /\ UNCHANGED <<dirs, graced, gen, made, born, sign, retired, leaves, split, now>>
  BY FilesAre DEF WriteCaFile, KeyInv, CaInv, KeyTypes, CaParts
<1>2. /\ disk' \in [File -> Int] /\ UNCHANGED <<disk["current.key"], disk["current.pub"]>>
      /\ \A f \in CaParts : disk'[f] \in {Absent, Torn, 1}
  BY <1>1, FileIs DEF KeyInv, CaInv, KeyTypes, CaParts
<1>3. \/ step' = step + 1 /\ step # 4 /\ UNCHANGED <<pc, ca>>
      \/ pc' = "opened" /\ step' = 1 /\ ca' = [f \in CaParts |-> 1]
  BY <1>1, FilesAre, CaPartsIs DEF WriteCaFile
<1>4. KeyTypes'
  BY <1>1, <1>2, <1>3 DEF KeyInv, KeyTypes
<1>5. CaInv'
  <2>1. CASE step' = step + 1 /\ UNCHANGED <<pc, ca>>
    BY <1>1, <1>2, <2>1 DEF KeyInv, CaInv
  <2>2. CASE pc' = "opened" /\ step' = 1 /\ ca' = [f \in CaParts |-> 1]
    <3>1. \A f \in {"int.key", "int.crt", "root.crt"} : ca'[f] = 1
      BY <2>2 DEF CaParts
    <3> QED BY <1>1, <1>2, <2>2, <3>1 DEF KeyInv, CaInv
  <2> QED BY <1>3, <2>1, <2>2
<1>6. SignInv'
  BY <1>1, <1>2, <1>3 DEF KeyInv, SignInv
<1> QED BY <1>4, <1>5, <1>6 DEF KeyInv

LEMMA StartSigningStep == ASSUME KeyInv, StartSigning PROVE KeyInv'
<1>0. /\ pc = "opened" /\ UNCHANGED <<disk, graced, leaves, split, now>>
      /\ disk["current.key"] \in Int
  BY FileIs DEF StartSigning, KeyInv, KeyTypes
<1>1. CASE /\ "signing" \in dirs /\ disk["current.key"] > 0 /\ sign' = disk["current.key"]
           /\ pc' = "services" /\ UNCHANGED <<ca, dirs, step, gen, made, born>>
  <2>1. KeyTypes' /\ CaInv'
    BY <1>0, <1>1 DEF KeyInv, KeyTypes, CaInv
  <2>2. SignInv'
    BY <1>0, <1>1 DEF KeyInv, SignInv
  <2> QED BY <2>1, <2>2 DEF KeyInv
<1>2. CASE /\ pc' = "down" /\ UNCHANGED <<sign, retired, dirs, step, gen, made, born>>
  <2>1. KeyTypes' /\ CaInv'
    BY <1>0, <1>2 DEF KeyInv, KeyTypes, CaInv
  <2>2. SignInv'
    BY <1>0, <1>2 DEF KeyInv, SignInv
  <2> QED BY <2>1, <2>2 DEF KeyInv
<1>3. CASE "signing" \notin dirs /\ Generate("sign") /\ dirs' = dirs \cup {"signing"} /\ UNCHANGED memVars
  <2>1. /\ made' = made + 1 /\ gen' = made + 1 /\ born' = Append(born, now) /\ pc' = "sign" /\ step' = 1
        /\ UNCHANGED ca
    BY <1>3 DEF Generate, memVars
  <2>2. KeyTypes'
    BY <1>0, <2>1 DEF KeyInv, KeyTypes
  <2>3. CaInv'
    BY <1>0, <1>3, <2>1 DEF KeyInv, KeyTypes, CaInv
  <2>4. SignInv'
    BY <1>0, <1>3, <2>1 DEF KeyInv, SignInv
  <2> QED BY <2>2, <2>3, <2>4 DEF KeyInv
<1> QED BY <1>1, <1>2, <1>3 DEF StartSigning, Reload, Reloadable

LEMMA WriteSignStep == ASSUME KeyInv, WriteSignFile PROVE KeyInv'
<1>1. /\ pc = "sign" /\ gen \in Nat /\ (step = 1 \/ step = 2 \/ step = 3)
      /\ disk' = [disk EXCEPT ![SignFiles[step]] = gen]
      /\ UNCHANGED <<dirs, graced, gen, made, born, ca, retired, leaves, split, now>>
  BY DEF WriteSignFile, KeyInv, KeyTypes
<1>2. /\ disk' \in [File -> Int] /\ \A f \in CaParts : disk'[f] = disk[f]
      /\ step = 1 => disk'["current.key"] = gen /\ disk'["current.pub"] = disk["current.pub"]
      /\ step = 2 => disk'["current.key"] = disk["current.key"] /\ disk'["current.pub"] = gen
      /\ step = 3 => UNCHANGED <<disk["current.key"], disk["current.pub"]>>
  BY <1>1, FilesAre, FileIs DEF KeyInv, KeyTypes, CaParts
<1>3. \/ step' = step + 1 /\ step # 3 /\ UNCHANGED <<pc, sign>>
      \/ pc' = "services" /\ step' = 1 /\ sign' = gen /\ step = 3
  BY <1>1, FilesAre DEF WriteSignFile
<1>4. KeyTypes'
  BY <1>1, <1>2, <1>3 DEF KeyInv, KeyTypes
<1>5. CaInv'
  BY <1>1, <1>2, <1>3 DEF KeyInv, CaInv
<1>6. SignInv'
  <2>1. "signing" \in dirs
    BY <1>1 DEF KeyInv, SignInv
  <2> QED BY <1>1, <1>2, <1>3, <2>1 DEF KeyInv, SignInv
<1> QED BY <1>4, <1>5, <1>6 DEF KeyInv

LEMMA RotateStep == ASSUME KeyInv, Rotate PROVE KeyInv'
<1>1. /\ made' = made + 1 /\ gen' = made + 1 /\ born' = Append(born, now) /\ pc' = "rotate" /\ step' = 1
      /\ pc = "up" /\ UNCHANGED <<disk, dirs, ca, sign, leaves, split, now>>
  BY DEF Rotate, Generate, Request, Up, fileVars, memVars
<1>2. KeyTypes'
  BY <1>1 DEF KeyInv, KeyTypes
<1>3. CaInv'
  BY <1>1 DEF KeyInv, KeyTypes, CaInv
<1>4. SignInv'
  BY <1>1 DEF KeyInv, SignInv
<1> QED BY <1>2, <1>3, <1>4 DEF KeyInv

LEMMA WriteRotatedStep == ASSUME KeyInv, WriteRotated PROVE KeyInv'
<1>1. /\ pc = "rotate" /\ gen \in Nat /\ (step = 1 \/ step = 2 \/ step = 3 \/ step = 4)
      /\ disk["current.pub"] \in Int
      /\ UNCHANGED <<dirs, gen, made, born, ca, leaves, split, now>>
  BY FileIs DEF WriteRotated, KeyInv, KeyTypes
<1>2. PICK v \in Int : /\ disk' = [disk EXCEPT ![RotateFiles[step]] = v]
                       /\ step # 1 => v = gen
  <2>1. PICK v : v = (IF RotateFiles[step] = "retired.pub" THEN disk["current.pub"] ELSE gen)
    OBVIOUS
  <2>2. v \in Int /\ (step # 1 => v = gen)
    BY <1>1, <2>1, FilesAre
  <2>3. disk' = [disk EXCEPT ![RotateFiles[step]] = v]
    BY <2>1 DEF WriteRotated
  <2> QED BY <2>2, <2>3
<1>3. /\ disk' \in [File -> Int] /\ \A f \in CaParts : disk'[f] = disk[f]
      /\ step = 2 => disk'["current.key"] = gen /\ disk'["current.pub"] = disk["current.pub"]
      /\ step = 3 => disk'["current.key"] = disk["current.key"] /\ disk'["current.pub"] = gen
      /\ step \in {1, 4} => UNCHANGED <<disk["current.key"], disk["current.pub"]>>
  BY <1>1, <1>2, FilesAre, FileIs DEF KeyInv, KeyTypes, CaParts
<1>4. \/ step' = step + 1 /\ step # 4 /\ UNCHANGED <<pc, sign>>
      \/ pc' = "up" /\ step' = 1 /\ sign' = gen /\ step = 4
  BY <1>1, FilesAre DEF WriteRotated
<1>5. KeyTypes'
  BY <1>1, <1>3, <1>4 DEF KeyInv, KeyTypes
<1>6. CaInv'
  BY <1>1, <1>3, <1>4 DEF KeyInv, CaInv
<1>7. SignInv'
  BY <1>1, <1>3, <1>4 DEF KeyInv, SignInv
<1> QED BY <1>5, <1>6, <1>7 DEF KeyInv

\* Services, certificates and the clock.
LEMMA ServiceStep ==
  ASSUME KeyInv, StartServices \/ StartGrpc \/ SignHost \/ Tick \/ StopKeys \/ UNCHANGED keyVars
  PROVE  KeyInv'
<1>1. CASE StartServices \/ StopKeys
  <2>1. /\ UNCHANGED <<disk, dirs, step, gen, made, born, leaves, split, now>>
        /\ pc \in {"services", "up"}
        /\ (pc' = "grpc" /\ pc = "services" /\ UNCHANGED <<ca, sign>>) \/ pc' = "down"
    BY <1>1 DEF StartServices, StopKeys, Request, Up, fileVars, memVars
  <2>2. KeyTypes' /\ CaInv'
    BY <2>1 DEF KeyInv, KeyTypes, CaInv
  <2>3. SignInv'
    BY <2>1 DEF KeyInv, SignInv
  <2> QED BY <2>2, <2>3 DEF KeyInv
<1>2. CASE StartGrpc \/ SignHost
  <2>1. /\ UNCHANGED <<disk, dirs, step, gen, made, born, ca, sign, split, now>>
        /\ (pc' = "up" /\ pc = "grpc") \/ (pc' = "up" /\ pc = "up")
        /\ \A leaf \in leaves' : leaf \in leaves \/ leaf = IssueServerCert \/ leaf = IssueHostCert
    BY <1>2 DEF StartGrpc, SignHost, Request, Up, fileVars, memVars, bootVars
  <2>2. KeyTypes'
    BY <2>1 DEF KeyInv, KeyTypes
  <2>3. ca["int.key"] = 1 /\ now \in Nat /\ HostTTL \in Nat /\ ServerTTL \in Nat
    BY <2>1, KeysAssumption DEF KeyInv, CaInv, KeyTypes
  <2>4. \A leaf \in leaves' : leaf.by = 1 /\ leaf.until \in Int
    BY <2>1, <2>3 DEF KeyInv, CaInv, IssueServerCert, IssueHostCert, IssueLeaf
  <2>5. CaInv'
    BY <2>1, <2>4 DEF KeyInv, CaInv
  <2>6. SignInv'
    BY <2>1 DEF KeyInv, SignInv
  <2> QED BY <2>2, <2>5, <2>6 DEF KeyInv
<1>3. CASE Tick
  <2>1. /\ UNCHANGED <<disk, dirs, step, gen, made, born, ca, sign, split, pc, leaves>> /\ now' = now + 1
    BY <1>3 DEF Tick, fileVars, memVars, bootVars
  <2>2. KeyTypes' /\ CaInv' /\ SignInv'
    BY <2>1 DEF KeyInv, KeyTypes, CaInv, SignInv
  <2> QED BY <2>2 DEF KeyInv
<1>4. CASE UNCHANGED keyVars
  <2>1. KeyTypes' /\ CaInv' /\ SignInv'
    BY <1>4 DEF KeyInv, KeyTypes, CaInv, SignInv, keyVars
  <2> QED BY <2>1 DEF KeyInv
<1> QED BY <1>1, <1>2, <1>3, <1>4

LEMMA CrashStep == ASSUME KeyInv, CrashKeys PROVE KeyInv'
<1>1. /\ UNCHANGED <<dirs, graced, gen, made, born, leaves, now>> /\ pc' = "down" /\ step' = 1
      /\ split' = (split \/ (pc = "rotate" /\ step = 3) \/ (pc = "sign" /\ step = 2))
      /\ pc # "down"
  BY DEF CrashKeys
<1>2. \/ disk' = disk
      \/ /\ pc \in {"ca", "sign", "rotate"} /\ Script[step] \notin Atomic
         /\ disk' = [disk EXCEPT ![Script[step]] = Torn]
  BY DEF CrashKeys
<1>3. /\ disk' \in [File -> Int] /\ disk'["current.key"] = disk["current.key"]
      /\ \A f \in CaParts : disk'[f] \in {Absent, Torn, 1}
      /\ \/ disk'["current.pub"] = disk["current.pub"]
         \/ (pc = "sign" /\ step = 2) \/ (pc = "rotate" /\ step = 3)
  <2>1. CASE disk' = disk
    BY <2>1 DEF KeyInv, KeyTypes, CaInv
  <2>2. CASE /\ pc \in {"ca", "sign", "rotate"} /\ Script[step] \notin Atomic
             /\ disk' = [disk EXCEPT ![Script[step]] = Torn]
    <3>1. PICK f \in File : /\ f = Script[step] /\ f # "current.key"
                            /\ f = "current.pub" => (pc = "sign" /\ step = 2) \/ (pc = "rotate" /\ step = 3)
      BY <2>2, ScriptIs DEF KeyInv
    <3> QED BY <2>2, <3>1, FileIs DEF KeyInv, KeyTypes, CaInv, CaParts, Torn
  <2> QED BY <1>2, <2>1, <2>2
<1>4. KeyTypes'
  BY <1>1, <1>3 DEF KeyInv, KeyTypes
<1>5. CaInv'
  BY <1>1, <1>3 DEF KeyInv, CaInv
<1>6. SignInv'
  <2>1. "signing" \notin dirs => disk'["current.key"] = Absent
    BY <1>3 DEF KeyInv, SignInv
  <2>2. ASSUME ~split' PROVE disk'["current.key"] = disk'["current.pub"] \/ disk'["current.key"] <= 0
    <3>1. ~split /\ disk'["current.pub"] = disk["current.pub"]
          /\ ~ (pc = "rotate" /\ step = 3) /\ ~ (pc = "sign" /\ step = 2)
      BY <1>1, <1>3, <2>2
    <3>2. /\ pc \in {"down", "ca", "opened", "sign", "services", "grpc", "up", "rotate"}
          /\ step = 1 \/ step = 2 \/ step = 3 \/ step = 4
          /\ pc = "sign" => step # 4
      BY DEF KeyInv, KeyTypes
    <3> QED BY <1>3, <3>1, <3>2 DEF KeyInv, SignInv, Absent
  <2> QED BY <1>1, <2>1, <2>2 DEF SignInv
<1> QED BY <1>4, <1>5, <1>6 DEF KeyInv

LEMMA KeyStep == ASSUME KeyInv, [Next]_vars PROVE KeyInv'
<1>1. CASE BootStep
  BY <1>1, StartCaStep, WriteCaStep, StartSigningStep, WriteSignStep, WriteRotatedStep, ServiceStep
     DEF BootStep
<1>2. CASE SignHost \/ KeysStep
  BY <1>2, RotateStep, ServiceStep DEF KeysStep
<1>3. CASE AuditStep
  <2>1. UNCHANGED keyVars
    BY <1>3 DEF AuditStep, AppendStart, AppendAgain, AppendRead, AppendInsert, AppendCollides, Abort,
                Rest, Commit, SweepCheckpoint, SweepDelete
  <2> QED BY <2>1, ServiceStep
<1>4. CASE ReleasesStep
  <2>1. UNCHANGED keyVars
    BY <1>4 DEF ReleasesStep, UploadWrite, UploadCommit, Yank, InstallInfo, InstallBinary
  <2> QED BY <2>1, ServiceStep
<1>5. CASE SecretsStep
  <2>1. UNCHANGED keyVars
    BY <1>5 DEF SecretsStep, RevealSecret, GetCached, GetMisses, RotateSecret, Migrate, Put, BackendGet,
                GotValue, BackendPut, PutDone, Reveal, CacheExpires, HandleExpires, VaultSeals, PollOnce,
                KeepsMonitor
  <2> QED BY <2>1, ServiceStep
<1>6. CASE ProcessEnds
  BY <1>6, CrashStep, ServiceStep DEF ProcessEnds
<1>7. CASE UNCHANGED vars
  BY <1>7, ServiceStep DEF vars
<1> QED BY <1>1, <1>2, <1>3, <1>4, <1>5, <1>6, <1>7 DEF Next

LEMMA KeyHolds == Spec => []KeyInv
<1>1. Init => KeyInv
  <2> SUFFICES ASSUME Init PROVE KeyInv
    OBVIOUS
  <2>1. /\ disk = [f \in File |-> 0] /\ dirs = {} /\ pc = "down" /\ step = 1 /\ gen = 0 /\ made = 0
        /\ born = <<>> /\ leaves = {} /\ split = FALSE /\ now = 0
    BY DEF Init, KeysInit, Absent
  <2>2. KeyTypes
    <3>1. born \in Seq(Int) /\ Len(born) = made
      <4>1. <<>> \in Seq(Int) /\ Len(<<>>) = 0
        OBVIOUS
      <4> QED BY <2>1, <4>1
    <3>2. split \in BOOLEAN
      BY <2>1, Zenon
    <3>3. disk \in [File -> Int]
      BY <2>1
    <3> QED BY <2>1, <3>1, <3>2, <3>3 DEF KeyTypes
  <2>3. CaInv /\ SignInv
    BY <2>1, FileIs DEF CaInv, SignInv, CaParts, Absent
  <2> QED BY <2>2, <2>3 DEF KeyInv
<1>2. KeyInv /\ [Next]_vars => KeyInv'
  BY KeyStep
<1> QED BY <1>1, <1>2, PTL DEF Spec

\* A running server accepts every unexpired certificate it ever issued while its own CA
\* certificates are valid, and what it signs verifies under its trust anchors unless a
\* crash split the signing key: whatever number of starts, crashes and rotations.
THEOREM TrustSurvivesRestarts == Spec => []KeysStayTrusted
<1>1. KeyInv => KeysStayTrusted
  <2> SUFFICES ASSUME KeyInv, Up PROVE KeysStayTrusted
    BY DEF KeysStayTrusted
  <2>1. /\ pc = "up" /\ now \in Nat /\ ca["int.crt"] = 1 /\ ca["root.crt"] = 1
        /\ \A leaf \in leaves : leaf.by = 1 /\ leaf.until \in Int
    BY DEF KeyInv, KeyTypes, CaInv, Up
  <2>2. "ca" \in dirs
    BY <2>1 DEF KeyInv, CaInv
  <2>3. born[1] \in Int /\ IntTTL \in Nat /\ RootTTL \in Nat
    BY <2>2, KeysAssumption DEF KeyInv, KeyTypes, CaInv
  <2>4. CaUntil("int.crt", IntTTL) \in Int /\ CaUntil("root.crt", RootTTL) \in Int
    BY <2>1, <2>3 DEF CaUntil
  <2>5. \A leaf \in leaves :
          \/ VerifyChain(leaf) \/ now > leaf.until
          \/ now > CaUntil("int.crt", IntTTL) \/ now > CaUntil("root.crt", RootTTL)
    BY <2>1, <2>4 DEF VerifyChain
  <2>6. split \/ sign \in TrustAnchors
    BY <2>1 DEF KeyInv, SignInv, TrustAnchors
  <2> QED BY <2>5, <2>6 DEF KeysStayTrusted
<1> QED BY <1>1, KeyHolds, PTL

-----------------------------------------------------------------------------
(***************************************************************************)
(* Verification.                                                             *)
(***************************************************************************)
\* In a chain that no sweep has touched the number of an entry is its position.
LEMMA RankIsSeq ==
  ASSUME NEW set, Chain(set, {}), NEW e \in set
  PROVE  Cardinality(Upto(e, set)) = e.seq + 1
<1> DEFINE S == Upto(e, set)
           T == 0..e.seq
           f == [o \in S |-> o.seq]
<1>1. \A o \in set : o.seq \in Nat
  BY AuditAssumption DEF Chain
<1>2. f \in [S -> T]
  BY <1>1 DEF Upto
<1>3. \A o, p \in S : f[o] = f[p] => o = p
  BY DEF Upto, Chain
<1>4. \A k \in T : \E o \in S : f[o] = k
  BY <1>1 DEF Upto, Chain, Reached
<1>5. f \in Injection(S, T) /\ f \in Surjection(S, T)
  BY <1>2, <1>3, <1>4 DEF Injection, IsInjective, Surjection
<1>6. IsFiniteSet(T) /\ Cardinality(T) = e.seq + 1
  BY <1>1, FS_Interval
<1>7. Cardinality(S) = Cardinality(T)
  BY <1>5, <1>6, FS_Injection
<1> QED BY <1>6, <1>7

LEMMA Positions ==
  ASSUME NEW set, Chain(set, {})
  PROVE  /\ Cardinality(set) \in Nat /\ BySeq(set) \in Seq(set) /\ Len(BySeq(set)) = Cardinality(set)
         /\ \A i \in 1..Cardinality(set) : BySeq(set)[i] \in set /\ BySeq(set)[i].seq = i - 1
         /\ \A e \in set : e.seq \in 0..(Cardinality(set) - 1)
<1>1. PICK k \in Nat : k = Cardinality(set)
  BY RankStep
<1>2. \A e \in set : e.seq \in Nat /\ Cardinality(Upto(e, set)) = e.seq + 1
  BY RankIsSeq, AuditAssumption DEF Chain
<1>3. \A e \in set : e.seq \in 0..(k - 1)
  BY <1>1, <1>2, RankStep
<1>4. BySeq(set) = [i \in 1..k |-> CHOOSE e \in set : Cardinality(Upto(e, set)) = i]
  BY <1>1 DEF BySeq, Upto
<1>5. \A i \in 1..k : \E e \in set : Cardinality(Upto(e, set)) = i
  BY <1>1, RankExists
<1>6. \A i \in 1..k : BySeq(set)[i] \in set /\ Cardinality(Upto(BySeq(set)[i], set)) = i
  BY <1>4, <1>5
<1>7. \A i \in 1..k : BySeq(set)[i] \in set /\ BySeq(set)[i].seq = i - 1
  BY <1>2, <1>6
<1>8. BySeq(set) \in [1..k -> set]
  BY <1>4, <1>6
<1>9. BySeq(set) \in Seq(set) /\ Len(BySeq(set)) = k
  BY <1>8
<1> QED BY <1>1, <1>3, <1>7, <1>9

LEMMA ChainLinks ==
  ASSUME NEW set, Chain(set, {})
  PROVE  LinksHold(BySeq(set))
<1>0. PICK s, k : s = BySeq(set) /\ k = Cardinality(set)
  OBVIOUS
<1>1. k \in Nat /\ Len(s) = k /\ \A i \in 1..k : s[i] \in set /\ s[i].seq = i - 1
  BY <1>0, Positions
<1>2. ASSUME NEW i \in 1..k
      PROVE  /\ s[i].prev = (IF i = 1 THEN Genesis ELSE s[i - 1].hash)
             /\ s[i].hash = EntryHash(s[i].seq, s[i].ts, s[i].actor, s[i].prev)
  <2>1. s[i] \in set /\ s[i].seq = i - 1
    BY <1>1
  <2>2. /\ s[i].hash = EntryHash(s[i].seq, s[i].ts, s[i].actor, s[i].prev)
        /\ Follows(s[i].seq, s[i].prev, set, {})
    BY <2>1 DEF Chain
  <2>3. CASE i = 1
    BY <2>1, <2>2, <2>3 DEF Follows
  <2>4. CASE i # 1
    <3>1. PICK o \in set : o.seq = s[i].seq - 1 /\ o.hash = s[i].prev
      BY <2>1, <2>2, <2>4 DEF Follows
    <3>2. i - 1 \in 1..k /\ s[i - 1] \in set /\ s[i - 1].seq = i - 2
      BY <1>1, <2>4
    <3>3. o.seq = s[i - 1].seq
      BY <2>1, <3>1, <3>2
    <3>4. o = s[i - 1]
      BY <3>2, <3>3 DEF Chain
    <3> QED BY <2>2, <2>4, <3>1, <3>4
  <2> QED BY <2>3, <2>4
<1> QED BY <1>0, <1>1, <1>2 DEF LinksHold

\* The first entries of a chain, by number and by position.
LEMMA FirstByPosition ==
  ASSUME NEW set, Chain(set, {}), NEW n \in 0..Cardinality(set)
  PROVE  FirstHashes(set, n) = [i \in 1..n |-> BySeq(set)[i].hash]
<1>1. ASSUME NEW i \in 1..n PROVE Numbered(set, i - 1) = BySeq(set)[i]
  <2>1. BySeq(set)[i] \in set /\ BySeq(set)[i].seq = i - 1
    BY Positions
  <2>2. \A e \in set : e.seq = i - 1 => e = BySeq(set)[i]
    BY <2>1 DEF Chain
  <2> QED BY <2>1, <2>2 DEF Numbered
<1> QED BY <1>1 DEF FirstHashes

LEMMA CheckpointCovers ==
  ASSUME NEW set, Chain(set, {}), set # {}
  PROVE  Covers(Checkpoint(set), set)
<1>1. PICK k : k = Cardinality(set)
  OBVIOUS
<1>2. /\ k \in Nat /\ \A i \in 1..k : BySeq(set)[i] \in set /\ BySeq(set)[i].seq = i - 1
      /\ \A e \in set : e.seq \in 0..(k - 1)
  BY <1>1, Positions
<1>3. k # 0 /\ k \in 1..k
  BY <1>2
<1>4. BySeq(set)[k] \in set /\ BySeq(set)[k].seq = k - 1
  BY <1>2, <1>3
<1>5. Max({e.seq : e \in set}) = k - 1
  <2>1. PICK S : S = {e.seq : e \in set}
    OBVIOUS
  <2>2. S \subseteq 0..(k - 1)
    BY <1>2, <2>1
  <2>3. k - 1 \in S
    BY <1>4, <2>1
  <2>4. \A y \in S : k - 1 >= y
    BY <1>2, <2>2
  <2>5. \A x \in S : (\A y \in S : x >= y) => x = k - 1
    BY <1>2, <2>2, <2>3
  <2>6. Max(S) = k - 1
    BY <2>3, <2>4, <2>5 DEF Max
  <2> QED BY <2>1, <2>6
<1>6. /\ Checkpoint(set).covers = k - 1
      /\ Checkpoint(set).root = MerkleRoot(HashesOf(set))
  BY <1>5 DEF Checkpoint
<1>7. HashesOf(set) = FirstHashes(set, k)
  <2>1. k \in 0..Cardinality(set)
    BY <1>1, <1>2
  <2>2. FirstHashes(set, k) = [i \in 1..k |-> BySeq(set)[i].hash]
    BY <2>1, FirstByPosition
  <2> QED BY <1>1, <2>2 DEF HashesOf
<1>8. ASSUME NEW j \in 0..(k - 1) PROVE \E e \in set : e.seq = j
  <2>1. j + 1 \in 1..k
    BY <1>2
  <2>2. BySeq(set)[j + 1] \in set /\ BySeq(set)[j + 1].seq = (j + 1) - 1
    BY <1>2, <2>1
  <2>3. BySeq(set)[j + 1].seq = j
    BY <2>2
  <2> QED BY <2>2, <2>3
<1>9. (k - 1) + 1 = k /\ k - 1 \in Nat
  BY <1>2, <1>3
<1> QED BY <1>6, <1>7, <1>8, <1>9 DEF Covers

\* A chain that grows keeps its first entries.
LEMMA CoversGrows ==
  ASSUME NEW a, NEW b, NEW c, a \subseteq b, \A e, o \in b : e.seq = o.seq => e = o, Covers(c, a)
  PROVE  Covers(c, b)
<1>1. c.covers \in Nat /\ \A k \in 0..c.covers : \E e \in a : e.seq = k
  BY DEF Covers
<1>2. ASSUME NEW i \in 1..(c.covers + 1)
      PROVE  Numbered(a, i - 1) = Numbered(b, i - 1)
  <2>1. i - 1 \in 0..c.covers
    BY <1>1
  <2>2. PICK e \in a : e.seq = i - 1
    BY <1>1, <2>1
  <2>3. \A o \in b : o.seq = i - 1 => o = e
    BY <2>2
  <2> QED BY <2>2, <2>3 DEF Numbered
<1>3. FirstHashes(a, c.covers + 1) = FirstHashes(b, c.covers + 1)
  BY <1>2 DEF FirstHashes
<1> QED BY <1>1, <1>3 DEF Covers

\* A checkpoint made by a running server is over what it saw, under the key it names.
LEMMA NewCheckpoint ==
  ASSUME KeyInv, Up, NEW set, set # {}, Chain(set, swept)
  PROVE  LET c == Checkpoint(set)
         IN  (split \/ c.by = c.pub) /\ (swept = {} => Covers(c, set))
<1>1. split \/ Checkpoint(set).by = Checkpoint(set).pub
  BY DEF KeyInv, SignInv, Up, Checkpoint
<1>2. swept = {} => Covers(Checkpoint(set), set)
  BY CheckpointCovers
<1> QED BY <1>1, <1>2

LEMMA CheckTx ==
  ASSUME KeyInv, ChainInv, ChainInv', CheckInv, NEW w \in Writer,
         \/ \E dirty \in BOOLEAN : AppendStart(w, dirty)
         \/ AppendAgain(w) \/ AppendRead(w) \/ AppendInsert(w) \/ AppendCollides(w) \/ Abort(w)
  PROVE  CheckInv'
<1>0. UNCHANGED <<rows, swept, checks, split>> /\ DOMAIN tx = Writer
  BY DEF ChainInv, AppendStart, AppendAgain, AppendRead, AppendInsert, AppendCollides, Abort, Rest, keyVars
<1>1. ASSUME NEW dirty, AppendStart(w, dirty) PROVE CheckInv'
  <2>1. PICK n : tx' = [tx EXCEPT ![w] = n] /\ n.cps = {}
    BY <1>1, StartIs
  <2> QED BY <1>0, <2>1, CheckMove
<1>2. CASE AppendAgain(w) \/ AppendRead(w)
  <2>0. Open(w)
    BY <1>2 DEF AppendAgain, AppendRead, Open
  <2>1. PICK n : tx' = [tx EXCEPT ![w] = n] /\ n.cps = tx[w].cps /\ n.own = tx[w].own
    BY <1>2, AgainIs, ReadIs
  <2>2. \A c \in n.cps : (split \/ c.by = c.pub) /\ (swept = {} => Covers(c, rows \cup n.own))
    BY <2>0, <2>1 DEF CheckInv
  <2> QED BY <1>0, <2>1, <2>2, CheckMove
<1>3. CASE AppendInsert(w)
  <2>0. Open(w) /\ Up
    BY <1>3 DEF AppendInsert, CanInsert, Open
  <2>1. PICK n : /\ tx' = [tx EXCEPT ![w] = n]
                 /\ n.pc # "idle" => /\ n.own = tx[w].own \cup {Entry(w)}
                                     /\ n.cps \subseteq tx[w].cps \cup {Checkpoint(rows \cup n.own)}
    BY <1>3, InsertIs
  <2>2. ASSUME n.pc # "idle", NEW c \in n.cps
        PROVE  (split \/ c.by = c.pub) /\ (swept = {} => Covers(c, rows \cup n.own))
    <3>1. Chain(rows \cup n.own, swept)
      <4>1. tx'[w] = n /\ Open(w)'
        BY <1>0, <2>1, <2>2 DEF Open
      <4>2. TxOk(n, rows, swept)
        BY <1>0, <4>1 DEF ChainInv
      <4> QED BY <4>2 DEF TxOk
    <3>2. CASE c \in tx[w].cps
      <4>1. (split \/ c.by = c.pub) /\ (swept = {} => Covers(c, rows \cup tx[w].own))
        BY <2>0, <3>2 DEF CheckInv
      <4>2. rows \cup tx[w].own \subseteq rows \cup n.own
        BY <2>1, <2>2
      <4> QED BY <3>1, <4>1, <4>2, CoversGrows DEF Chain
    <3>3. CASE c = Checkpoint(rows \cup n.own)
      <4>1. rows \cup n.own # {}
        BY <2>1, <2>2
      <4> QED BY <2>0, <3>1, <3>3, <4>1, NewCheckpoint
    <3> QED BY <2>1, <2>2, <3>2, <3>3
  <2> QED BY <1>0, <2>1, <2>2, CheckMove
<1>4. CASE AppendCollides(w)
  <2>1. PICK n : tx' = [tx EXCEPT ![w] = n] /\ (n.pc # "idle" => n.cps = {})
    BY <1>4, CollideIs
  <2> QED BY <1>0, <2>1, CheckMove
<1>5. CASE Abort(w)
  <2>1. tx' = [tx EXCEPT ![w] = NoTx] /\ NoTx.pc = "idle"
    BY <1>5 DEF Abort, NoTx
  <2> QED BY <1>0, <2>1, CheckMove
<1> QED BY <1>1, <1>2, <1>3, <1>4, <1>5

LEMMA CheckStep == ASSUME KeyInv, ChainInv, ChainInv', CheckInv, [Next]_vars PROVE CheckInv'
<1>0. DOMAIN tx = Writer
  BY DEF ChainInv
<1>1. CASE UNCHANGED auditVars /\ (split => split')
  BY <1>1 DEF CheckInv, auditVars, Open
<1>2. ASSUME NEW w \in Writer, Commit(w) PROVE CheckInv'
  <2>1. /\ tx' = [tx EXCEPT ![w] = NoTx] /\ rows' = rows \cup tx[w].own /\ checks' = checks \cup tx[w].cps
        /\ UNCHANGED <<swept, split>> /\ Open(w) /\ NoTx.pc = "idle"
    BY <1>2 DEF Commit, Open, NoTx, keyVars
  <2>2. DOMAIN tx' = Writer /\ tx'[w].pc = "idle" /\ \A v \in Writer \ {w} : tx'[v] = tx[v]
    BY <1>0, <2>1
  <2>3. ASSUME NEW c \in checks' PROVE (split' \/ c.by = c.pub) /\ (swept' = {} => Covers(c, rows'))
    <3>1. CASE c \in checks
      <4>1. (split \/ c.by = c.pub) /\ (swept = {} => Covers(c, rows))
        BY <3>1 DEF CheckInv
      <4>2. PICK b : b = rows'
        OBVIOUS
      <4>3. rows \subseteq b /\ \A e, o \in b : e.seq = o.seq => e = o
        BY <2>1, <4>2 DEF ChainInv, Chain
      <4>4. swept = {} => Covers(c, b)
        BY <4>1, <4>3, CoversGrows
      <4> QED BY <2>1, <4>1, <4>2, <4>4
    <3>2. CASE c \in tx[w].cps
      BY <2>1, <3>2 DEF CheckInv
    <3> QED BY <2>1, <2>3, <3>1, <3>2
  <2>4. ASSUME NEW v \in Writer, Open(v)', NEW c \in tx'[v].cps
        PROVE  (split' \/ c.by = c.pub) /\ (swept' = {} => Covers(c, rows' \cup tx'[v].own))
    <3>1. v # w /\ tx'[v] = tx[v] /\ Open(v)
      BY <2>2, <2>4 DEF Open
    <3>2. (split \/ c.by = c.pub) /\ (swept = {} => Covers(c, rows \cup tx[v].own))
      BY <2>4, <3>1 DEF CheckInv
    <3>3. PICK a, b : a = rows \cup tx[v].own /\ b = rows' \cup tx[v].own
      OBVIOUS
    <3>4. TxOk(tx'[v], rows', swept')
      BY <2>4 DEF ChainInv
    <3>5. a \subseteq b /\ \A e, o \in b : e.seq = o.seq => e = o
      BY <2>1, <3>1, <3>3, <3>4 DEF TxOk, Chain
    <3>6. Covers(c, a) => Covers(c, b)
      BY <3>5, CoversGrows
    <3> QED BY <2>1, <3>1, <3>2, <3>3, <3>6
  <2> QED BY <2>3, <2>4 DEF CheckInv
<1>3. CASE SweepCheckpoint
  <2>1. /\ checks' = checks \cup {Checkpoint(rows)} /\ UNCHANGED <<rows, tx, swept, split>> /\ Up
        /\ rows # {} /\ Chain(rows, swept)
    BY <1>3 DEF SweepCheckpoint, keyVars, Request, Old, ChainInv
  <2>2. PICK c : c = Checkpoint(rows)
    OBVIOUS
  <2>3. (split \/ c.by = c.pub) /\ (swept = {} => Covers(c, rows))
    BY <2>1, <2>2, NewCheckpoint
  <2> QED BY <2>1, <2>2, <2>3 DEF CheckInv, Open
<1>4. CASE SweepDelete
  <2>1. UNCHANGED <<tx, checks, split>> /\ (swept' = {} => UNCHANGED <<rows, swept>>)
    BY <1>4 DEF SweepDelete, keyVars
  <2> QED BY <2>1 DEF CheckInv, Open
<1>5. CASE AuditCrash /\ (split => split')
  BY <1>5 DEF AuditCrash, CheckInv, Open, NoTx
<1> QED BY AuditCases, CheckTx, <1>1, <1>2, <1>3, <1>4, <1>5

LEMMA CheckHolds == Spec => []CheckInv
<1>1. Init => CheckInv
  <2> SUFFICES ASSUME Init PROVE CheckInv
    OBVIOUS
  <2>1. checks = {} /\ \A w \in Writer : tx[w].pc = "idle"
    BY DEF Init, AuditInit, NoTx
  <2> QED BY <2>1 DEF CheckInv, Open
<1>2. KeyInv /\ ChainInv /\ ChainInv' /\ CheckInv /\ [Next]_vars => CheckInv'
  BY CheckStep
<1> QED BY <1>1, <1>2, KeyHolds, ChainHolds, PTL DEF Spec

\* Whatever was committed by whichever transactions, both verifications succeed until a
\* retention sweep has deleted an entry; the checkpoints' signatures, unless a crash
\* split the signing key.
THEOREM CommittedVerifies == Spec => []AuditVerifies
<1>1. ChainInv /\ CheckInv => AuditVerifies
  <2> SUFFICES ASSUME ChainInv, CheckInv, swept = {} PROVE AuditVerifies
    BY DEF AuditVerifies
  <2>1. Chain(rows, {})
    BY DEF ChainInv
  <2>2. LinksHold(BySeq(rows))
    BY <2>1, ChainLinks
  <2>3. {e \in rows : e.seq \in 0..MaxSeq} = rows
    BY <2>1 DEF Chain
  <2>4. VerifyEndpoint(0, MaxSeq)
    BY <2>2, <2>3 DEF VerifyEndpoint
  <2>5. ASSUME ~split PROVE Verify
    <3>1. PICK k \in Nat : k = Cardinality(rows) /\ Len(BySeq(rows)) = k
      BY <2>1, Positions
    <3>2. ASSUME NEW c \in checks
          PROVE  /\ c.covers < Len(BySeq(rows))
                 /\ c.root = MerkleRoot([i \in 1..(c.covers + 1) |-> BySeq(rows)[i].hash])
                 /\ c.by = c.pub
      <4>1. Covers(c, rows) /\ c.by = c.pub
        BY <2>5 DEF CheckInv
      <4>2. PICK e \in rows : e.seq = c.covers
        BY <4>1 DEF Covers
      <4>3. c.covers \in Nat /\ c.covers < k
        BY <2>1, <3>1, <4>1, <4>2, Positions DEF Covers
      <4>4. c.covers + 1 \in 0..Cardinality(rows)
        BY <3>1, <4>3
      <4>5. FirstHashes(rows, c.covers + 1) = [i \in 1..(c.covers + 1) |-> BySeq(rows)[i].hash]
        BY <2>1, <4>4, FirstByPosition
      <4> QED BY <3>1, <4>1, <4>3, <4>5 DEF Covers
    <3> QED BY <2>2, <3>2 DEF Verify
  <2> QED BY <2>4, <2>5 DEF AuditVerifies
<1> QED BY <1>1, ChainHolds, CheckHolds, PTL

-----------------------------------------------------------------------------
(***************************************************************************)
(* Releases.                                                                 *)
(***************************************************************************)
LEMMA UploadWriteStep ==
  ASSUME KeyInv, ReleaseInv, NEW u \in Uploader, NEW v \in Version, NEW d \in Data, UploadWrite(u, v, d)
  PROVE  ReleaseInv'
<1>1. PICK n : n = [ver |-> v, sha |-> d, by |-> ca["int.key"]]
  OBVIOUS
<1>2. n \in Upload /\ n.ver = v /\ n.sha = d
  <2>1. ca["int.key"] = 1
    BY DEF KeyInv, CaInv, UploadWrite, Request, Up
  <2> QED BY <1>1, <2>1 DEF Upload
<1>3. /\ upl' = [upl EXCEPT ![u] = n] /\ bin' = [bin EXCEPT ![v] = d] /\ rel' = rel /\ upl[u] = None
      /\ doubted \subseteq doubted'
      /\ HasRow(v) => v \in doubted'
      /\ \A o \in Uploader : upl[o] # None /\ upl[o].ver = v => v \in doubted'
  BY <1>1 DEF UploadWrite
<1>4. /\ bin' \in [Version -> Data \cup {None}] /\ upl' \in [Uploader -> Upload \cup {None}]
      /\ bin'[v] = d /\ \A o \in Version \ {v} : bin'[o] = bin[o]
      /\ upl'[u] = n /\ \A o \in Uploader \ {u} : upl'[o] = upl[o]
  BY <1>2, <1>3 DEF ReleaseInv
<1>5. ASSUME NEW i \in 1..Len(rel), rel[i].ver \notin doubted' PROVE bin'[rel[i].ver] = rel[i].sha
  <2>1. rel[i].ver # v
    BY <1>3, <1>5 DEF HasRow
  <2>2. rel[i].ver \in Version
    <3>1. rel[i] \in Release
      BY DEF ReleaseInv
    <3> QED BY <3>1 DEF Release
  <2> QED BY <1>3, <1>4, <1>5, <2>1, <2>2 DEF ReleaseInv
<1>6. ASSUME NEW o \in Uploader, upl'[o] # None, upl'[o].ver \notin doubted'
      PROVE  /\ bin'[upl'[o].ver] = upl'[o].sha
             /\ \A p \in Uploader : p # o /\ upl'[p] # None => upl'[p].ver # upl'[o].ver
  <2>1. CASE o = u
    BY <1>2, <1>3, <1>4, <1>6, <2>1
  <2>2. CASE o # u
    <3>1. upl'[o] = upl[o] /\ upl[o].ver # v /\ upl[o].ver \notin doubted
      BY <1>3, <1>4, <1>6, <2>2
    <3>2. upl[o].ver \in Version
      BY <1>6, <3>1 DEF ReleaseInv, Upload
    <3> QED BY <1>2, <1>4, <1>6, <3>1, <3>2 DEF ReleaseInv
  <2> QED BY <2>1, <2>2
<1> QED BY <1>3, <1>4, <1>5, <1>6 DEF ReleaseInv

LEMMA UploadCommitStep ==
  ASSUME ReleaseInv, NEW u \in Uploader, UploadCommit(u)
  PROVE  ReleaseInv'
<1>1. upl' = [upl EXCEPT ![u] = None] /\ UNCHANGED <<bin, doubted>> /\ upl[u] # None /\ upl[u] \in Upload
  BY DEF UploadCommit, ReleaseInv
<1>2. /\ upl' \in [Uploader -> Upload \cup {None}]
      /\ upl'[u] = None /\ \A o \in Uploader \ {u} : upl'[o] = upl[o]
  BY <1>1 DEF ReleaseInv
<1>3. \A o \in Uploader : upl'[o] # None => o # u /\ upl'[o] = upl[o]
  BY <1>2
<1>4. rel' \in Seq(Release) /\ \A i \in 1..Len(rel') : rel'[i].ver \notin doubted => bin[rel'[i].ver] = rel'[i].sha
  <2>1. CASE rel' = rel
    BY <2>1 DEF ReleaseInv
  <2>2. CASE rel' = Append(rel, [ver |-> upl[u].ver, sha |-> upl[u].sha, by |-> upl[u].by,
                                 status |-> "published"])
    <3>1. PICK r : r = [ver |-> upl[u].ver, sha |-> upl[u].sha, by |-> upl[u].by, status |-> "published"]
      OBVIOUS
    <3>2. r \in Release /\ r.ver = upl[u].ver /\ r.sha = upl[u].sha
      BY <1>1, <3>1 DEF Release, Upload
    <3>3. rel' = Append(rel, r) /\ rel \in Seq(Release)
      BY <2>2, <3>1 DEF ReleaseInv
    <3>4. /\ rel' \in Seq(Release) /\ Len(rel') = Len(rel) + 1 /\ Len(rel) \in Nat /\ rel'[Len(rel) + 1] = r
          /\ \A i \in 1..Len(rel) : rel'[i] = rel[i]
      BY <3>2, <3>3
    <3>5. r.ver \notin doubted => bin[r.ver] = r.sha
      BY <1>1, <3>2 DEF ReleaseInv
    <3>6. \A i \in 1..Len(rel') : i \in 1..Len(rel) \/ i = Len(rel) + 1
      BY <3>4
    <3> QED BY <3>4, <3>5, <3>6 DEF ReleaseInv
  <2> QED BY <2>1, <2>2 DEF UploadCommit
<1>5. \A o \in Uploader : upl'[o] # None /\ upl'[o].ver \notin doubted =>
         /\ bin[upl'[o].ver] = upl'[o].sha
         /\ \A p \in Uploader : p # o /\ upl'[p] # None => upl'[p].ver # upl'[o].ver
  BY <1>3 DEF ReleaseInv
<1> QED BY <1>1, <1>2, <1>4, <1>5 DEF ReleaseInv

LEMMA YankStep ==
  ASSUME ReleaseInv, NEW j \in 1..Len(rel), Yank(j)
  PROVE  ReleaseInv'
<1>1. UNCHANGED <<bin, upl, doubted>> /\ rel \in Seq(Release)
  BY DEF Yank, ReleaseInv
<1>2. PICK r : r = [rel[j] EXCEPT !.status = "yanked"]
  OBVIOUS
<1>3. r \in Release /\ r.ver = rel[j].ver /\ r.sha = rel[j].sha
  <2>1. rel[j] \in Release
    BY <1>1
  <2> QED BY <1>2, <2>1 DEF Release
<1>4. rel' = [rel EXCEPT ![j] = r]
  BY <1>2 DEF Yank
<1>5. /\ rel' \in Seq(Release) /\ Len(rel') = Len(rel)
      /\ \A i \in 1..Len(rel) : rel'[i].ver = rel[i].ver /\ rel'[i].sha = rel[i].sha
  BY <1>1, <1>3, <1>4
<1> QED BY <1>1, <1>5 DEF ReleaseInv

LEMMA ReleaseStep == ASSUME KeyInv, ReleaseInv, [Next]_vars PROVE ReleaseInv'
<1>1. CASE ReleasesStep
  <2>1. ASSUME NEW i \in Installer, InstallInfo(i) \/ InstallBinary(i) PROVE ReleaseInv'
    BY <2>1 DEF InstallInfo, InstallBinary, ReleaseInv
  <2> QED BY <1>1, <2>1, UploadWriteStep, UploadCommitStep, YankStep DEF ReleasesStep
<1>2. CASE UNCHANGED relVars
  BY <1>2 DEF relVars, ReleaseInv
<1>3. CASE ReleasesCrash
  BY <1>3 DEF ReleasesCrash, ReleaseInv
<1> QED BY <1>1, <1>2, <1>3 DEF Next, vars, ProcessEnds

LEMMA ReleaseHolds == Spec => []ReleaseInv
<1>1. Init => ReleaseInv
  <2> SUFFICES ASSUME Init PROVE ReleaseInv
    OBVIOUS
  <2>1. /\ bin = [v \in Version |-> None] /\ rel = <<>> /\ upl = [u \in Uploader |-> None]
    BY DEF Init, ReleasesInit
  <2> QED BY <2>1 DEF ReleaseInv
<1>2. KeyInv /\ ReleaseInv /\ [Next]_vars => ReleaseInv'
  BY ReleaseStep
<1> QED BY <1>1, <1>2, KeyHolds, PTL DEF Spec

\* A published release whose version was uploaded once is downloadable and has the
\* digest of its row, whichever uploads, yanks and crashes came between.
THEOREM PublishedStaysServed == Spec => []PublishedIsServed
<1>1. ReleaseInv => PublishedIsServed
  <2> SUFFICES ASSUME ReleaseInv, NEW i \in 1..Len(rel),
                      rel[i].status = "published", rel[i].ver \notin doubted
               PROVE  Downloadable(i) /\ Served(i).data = Served(i).header
    BY DEF PublishedIsServed
  <2>1. bin[rel[i].ver] = rel[i].sha /\ rel[i].sha \in Data
    <3>1. rel[i] \in Release /\ bin[rel[i].ver] = rel[i].sha
      BY DEF ReleaseInv
    <3> QED BY <3>1 DEF Release
  <2> QED BY <2>1, ReleasesAssumption DEF Downloadable, Served
<1> QED BY <1>1, ReleaseHolds, PTL

-----------------------------------------------------------------------------
(***************************************************************************)
(* Secrets.                                                                  *)
(***************************************************************************)
LEMMA CallsStep == ASSUME calls \in Nat, [Next]_vars PROVE calls' \in Nat
<1> SUFFICES Call \/ UNCHANGED calls
  BY DEF Call
<1>1. CASE BootStep
  BY <1>1 DEF BootStep, StartCa, WriteCaFile, StartSigning, WriteSignFile, StartServices, StartGrpc,
              WriteRotated
<1>2. CASE SignHost \/ KeysStep
  BY <1>2 DEF SignHost, KeysStep, Rotate, Tick, Request
<1>3. CASE AuditStep
  BY <1>3, Zenon DEF AuditStep, AppendStart, AppendAgain, AppendRead, AppendInsert, AppendCollides, Abort,
              Commit, SweepCheckpoint, SweepDelete, Request
<1>4. CASE ReleasesStep
  BY <1>4, Zenon DEF ReleasesStep, UploadWrite, UploadCommit, Yank, InstallInfo, InstallBinary, Request
<1>5. CASE SecretsStep
  BY <1>5, Zenon DEF SecretsStep, RevealSecret, GetCached, GetMisses, RotateSecret, Migrate, Put, BackendGet,
              GotValue, BackendPut, PutDone, Reveal, CacheExpires, HandleExpires, VaultSeals, PollOnce,
              Start, Request
<1>6. CASE ProcessEnds
  BY <1>6 DEF ProcessEnds, CrashKeys, StopKeys, Request
<1>7. CASE UNCHANGED vars
  BY <1>7 DEF vars
<1> QED BY <1>1, <1>2, <1>3, <1>4, <1>5, <1>6, <1>7 DEF Next

\* The newest version after a put is the one put, also when the oldest is dropped.
LEMMA WrittenIs ==
  ASSUME SecretTypes, NEW r \in Ref, NEW v \in Nat
  PROVE  /\ Written(r, v) \in Seq(Nat) /\ Written(r, v) # <<>>
         /\ Written(r, v)[Len(Written(r, v))] = v
<1>1. PICK s : s = stored[r]
  OBVIOUS
<1>2. s \in Seq(Nat) /\ KeepVersions \in Nat \ {0}
  BY <1>1, SecretsAssumption DEF SecretTypes
<1>3. PICK a : a = Append(s, v)
  OBVIOUS
<1>4. a \in Seq(Nat) /\ Len(a) = Len(s) + 1 /\ a[Len(a)] = v /\ Len(s) \in Nat
  BY <1>2, <1>3
<1>5. a # <<>>
  BY <1>4
<1>6. CASE Len(a) > KeepVersions
  <2>1. PICK b : b = Tail(a)
    OBVIOUS
  <2>2. b \in Seq(Nat) /\ Len(b) = Len(a) - 1 /\ \A i \in 1..Len(b) : b[i] = a[i + 1]
    BY <1>4, <1>5, <2>1
  <2>3. Len(b) \in Nat /\ Len(b) \in 1..Len(b) /\ Len(b) + 1 = Len(a)
    BY <1>2, <1>4, <1>6, <2>2
  <2>4. b[Len(b)] = v /\ b # <<>>
    BY SMTT(30), <1>4, <2>2, <2>3
  <2>5. Written(r, v) = a \/ Written(r, v) = b
    BY <1>1, <1>3, <2>1 DEF Written
  <2> QED BY <1>4, <1>5, <2>2, <2>4, <2>5
<1>7. CASE ~ (Len(a) > KeepVersions)
  <2>1. Written(r, v) = a
    BY <1>1, <1>3, <1>7 DEF Written
  <2> QED BY <1>4, <1>5, <2>1
<1> QED BY <1>6, <1>7

LEMMA ValueType == ASSUME SecretTypes, NEW r \in Ref PROVE Value(r) \in Nat
<1>1. PICK s : s = stored[r]
  OBVIOUS
<1>2. s \in Seq(Nat)
  BY <1>1 DEF SecretTypes
<1>3. s # <<>> => s[Len(s)] \in Nat
  BY <1>2
<1> QED BY <1>1, <1>3 DEF Value

\* A step of one request that is not, or no longer, at a reference.
LEMMA Leaves ==
  ASSUME SecretTypes, NEW r \in Ref, RefInv(r), NEW o \in Op, NEW n, op' = [op EXCEPT ![o] = n],
         n.pc = "idle" \/ n.ref # r, op[o].pc = "wrote" => op[o].ref # r,
         Value(r)' = Value(r), acked'[r] = acked[r], cache'[r] \in {None, acked[r]}
  PROVE  RefInv(r)'
<1>1. op'[o] = n /\ \A p \in Op \ {o} : op'[p] = op[p]
  BY DEF SecretTypes
<1>2. \A p \in Op : p \in Busy(r)' => p \in Busy(r) /\ p # o /\ op'[p] = op[p]
  BY <1>1 DEF Busy
<1>3. \A p \in Busy(r) : op[p].pc = "wrote" => p \in Busy(r)' /\ op'[p] = op[p]
  BY <1>1 DEF Busy
<1>4. Busy(r) \subseteq Op /\ Busy(r)' \subseteq Op
  BY DEF Busy
<1>5. /\ \A p, q \in Busy(r) : p = q
      /\ (\A p \in Busy(r) : op[p].pc # "wrote") => Value(r) = acked[r]
      /\ \A p \in Busy(r) : /\ op[p].pc = "got" => op[p].val = acked[r]
                            /\ op[p].pc = "wrote" => op[p].val = Value(r)
  BY DEF RefInv
<1>6. /\ \A p, q \in Busy(r)' : p = q
      /\ (\A p \in Busy(r)' : op'[p].pc # "wrote") => Value(r)' = acked'[r]
      /\ \A p \in Busy(r)' : /\ op'[p].pc = "got" => op'[p].val = acked'[r]
                             /\ op'[p].pc = "wrote" => op'[p].val = Value(r)'
  BY <1>2, <1>3, <1>4, <1>5
<1> QED BY <1>6 DEF RefInv

\* A step of the only request at a reference.
LEMMA Stays ==
  ASSUME SecretTypes, NEW r \in Ref, NEW o \in Op, Busy(r) \subseteq {o}, NEW n, op' = [op EXCEPT ![o] = n],
         n.ref = r, n.pc # "wrote" => Value(r)' = acked'[r], n.pc = "got" => n.val = acked'[r],
         n.pc = "wrote" => n.val = Value(r)', n.pc # "idle", cache'[r] \in {None, acked'[r]}
  PROVE  RefInv(r)'
<1>1. op'[o] = n /\ \A p \in Op \ {o} : op'[p] = op[p]
  BY DEF SecretTypes
<1>2. Busy(r)' = {o}
  BY <1>1 DEF Busy
<1>3. /\ \A p, q \in Busy(r)' : p = q
      /\ (\A p \in Busy(r)' : op'[p].pc # "wrote") => Value(r)' = acked'[r]
      /\ \A p \in Busy(r)' : /\ op'[p].pc = "got" => op'[p].val = acked'[r]
                             /\ op'[p].pc = "wrote" => op'[p].val = Value(r)'
  BY <1>1, <1>2
<1> QED BY <1>3 DEF RefInv

\* A request starts at a reference.
LEMMA ReadsStep ==
  ASSUME SecretInv, calls' \in Nat, NEW o \in Op, NEW n \in Ask, op[o] = NoOp, Reads(o, n),
         n.pc \in {"ask", "write"}, UNCHANGED <<stored, cache, acked>>
  PROVE  SecretInv'
<1>1. /\ op' = [op EXCEPT ![o] = n] /\ muddled \subseteq muddled' /\ op[o].pc = "idle"
      /\ Busy(n.ref) # {} => n.ref \in muddled'
  BY DEF Reads, Overlaps, NoOp
<1>2. SecretTypes'
  BY <1>1 DEF SecretInv, SecretTypes
<1>3. ASSUME NEW r \in Ref \ muddled' PROVE RefInv(r)'
  <2>1. SecretTypes /\ RefInv(r) /\ Value(r)' = Value(r) /\ cache'[r] \in {None, acked[r]}
    BY <1>1 DEF SecretInv, Value, RefInv
  <2>2. CASE n.ref = r
    <3>1. Busy(r) = {} /\ Value(r) = acked[r]
      BY <1>1, <1>3, <2>1, <2>2 DEF RefInv
    <3>2. n.pc # "wrote" /\ n.pc # "got" /\ n.pc # "idle" /\ Value(r)' = acked'[r]
      BY <2>1, <3>1
    <3> QED BY <1>1, <2>1, <2>2, <3>1, <3>2, Stays
  <2>3. CASE n.ref # r
    BY <1>1, <2>1, <2>3, Leaves
  <2> QED BY <2>2, <2>3
<1> QED BY <1>2, <1>3 DEF SecretInv

LEMMA BackendGetStep ==
  ASSUME SecretInv, calls' \in Nat, NEW o \in Op, BackendGet(o)
  PROVE  SecretInv'
<1> DEFINE t == op[o]
<1>1. /\ t \in Ask /\ t.pc = "ask" /\ t.ref \in Ref /\ UNCHANGED <<stored, cache, acked, muddled>>
      /\ Value(t.ref) \in Nat
  <2>1. t.pc = "ask" /\ UNCHANGED <<stored, cache, acked, muddled>> /\ t \in Ask \cup {NoOp}
    BY DEF BackendGet, SecretInv, SecretTypes
  <2>2. t \in Ask /\ t.ref \in Ref
    BY <2>1 DEF NoOp, Ask
  <2> QED BY <2>1, <2>2, ValueType DEF SecretInv
<1>2. PICK n : /\ op' = [op EXCEPT ![o] = n] /\ n \in Ask \cup {NoOp}
               /\ n.pc = "idle" \/ (n.pc = "got" /\ n.val = Value(t.ref) /\ n.ref = t.ref)
  <2>1. CASE Available(t.ref) /\ Value(t.ref) # 0
    <3>1. PICK n : n = [t EXCEPT !.pc = "got", !.val = Value(t.ref)]
      OBVIOUS
    <3>2. op' = [op EXCEPT ![o] = n]
      BY <2>1, <3>1 DEF BackendGet
    <3>3. n \in Ask /\ n.pc = "got" /\ n.val = Value(t.ref) /\ n.ref = t.ref
      BY <1>1, <3>1 DEF Ask
    <3> QED BY <3>2, <3>3
  <2>2. CASE ~ (Available(t.ref) /\ Value(t.ref) # 0)
    <3>1. op' = [op EXCEPT ![o] = NoOp]
      BY <2>2 DEF BackendGet
    <3>2. NoOp.pc = "idle"
      BY DEF NoOp
    <3> QED BY <3>1, <3>2
  <2> QED BY <2>1, <2>2
<1>3. SecretTypes'
  BY <1>1, <1>2 DEF SecretInv, SecretTypes
<1>4. ASSUME NEW r \in Ref \ muddled' PROVE RefInv(r)'
  <2>1. SecretTypes /\ RefInv(r) /\ Value(r)' = Value(r) /\ cache'[r] \in {None, acked[r]}
    BY <1>1 DEF SecretInv, Value, RefInv
  <2>2. CASE n.pc # "idle" /\ t.ref = r
    <3>1. o \in Busy(r)
      BY <1>1, <2>2 DEF Busy
    <3>2. Busy(r) \subseteq {o} /\ Value(r) = acked[r]
      BY <1>1, <2>1, <3>1 DEF RefInv
    <3>3. /\ n.ref = r /\ n.pc = "got" /\ n.pc # "wrote" /\ n.val = acked'[r] /\ Value(r)' = acked'[r]
          /\ cache'[r] \in {None, acked'[r]}
      BY <1>1, <1>2, <2>1, <2>2, <3>2
    <3> QED BY <1>2, <2>1, <2>2, <3>2, <3>3, Stays
  <2>3. CASE ~ (n.pc # "idle" /\ t.ref = r)
    <3>1. (n.pc = "idle" \/ n.ref # r) /\ op[o].pc # "wrote" /\ acked'[r] = acked[r]
      BY <1>1, <1>2, <2>3
    <3> QED BY <1>2, <2>1, <3>1, Leaves
  <2> QED BY <2>2, <2>3
<1> QED BY <1>3, <1>4 DEF SecretInv

LEMMA GotValueStep ==
  ASSUME SecretInv, calls' \in Nat, NEW o \in Op, GotValue(o)
  PROVE  SecretInv'
<1>0. PICK t : t = op[o]
  OBVIOUS
<1>1. t \in Ask /\ t.pc = "got" /\ t.ref \in Ref /\ UNCHANGED <<stored, acked>>
  <2>1. t.pc = "got" /\ UNCHANGED <<stored, acked>> /\ t \in Ask \cup {NoOp}
    BY <1>0 DEF GotValue, SecretInv, SecretTypes
  <2> QED BY <2>1 DEF NoOp, Ask
<1>2. CASE t.then = "handle"
  <2>1. /\ cache' = [cache EXCEPT ![t.ref] = t.val] /\ op' = [op EXCEPT ![o] = NoOp] /\ muddled' = muddled
        /\ NoOp.pc = "idle"
    BY <1>0, <1>2 DEF GotValue, NoOp
  <2>2. SecretTypes'
    BY <1>1, <2>1 DEF SecretInv, SecretTypes
  <2>3. ASSUME NEW r \in Ref \ muddled' PROVE RefInv(r)'
    <3>1. SecretTypes /\ RefInv(r) /\ Value(r)' = Value(r)
      BY <1>1, <2>1 DEF SecretInv, Value
    <3>2. cache'[r] \in {None, acked[r]}
      <4>1. CASE r = t.ref
        <5>1. o \in Busy(r)
          BY <1>0, <1>1, <4>1 DEF Busy
        <5>2. t.val = acked[r]
          BY <1>0, <1>1, <3>1, <5>1 DEF RefInv
        <5> QED BY <2>1, <3>1, <4>1, <5>2 DEF SecretTypes
      <4>2. CASE r # t.ref
        BY <2>1, <3>1, <4>2 DEF SecretTypes, RefInv
      <4> QED BY <4>1, <4>2
    <3>3. op[o].pc # "wrote" /\ acked'[r] = acked[r]
      BY <1>0, <1>1
    <3> QED BY <2>1, <3>1, <3>2, <3>3, Leaves
  <2> QED BY <2>2, <2>3 DEF SecretInv
<1>3. CASE t.then # "handle"
  <2>1. PICK dst : dst = (IF t.then = "put" THEN t.ref ELSE t.then)
    OBVIOUS
  <2>2. dst \in Ref
    BY <1>1, <1>3, <2>1 DEF Ask
  <2>3. PICK n : n = [t EXCEPT !.pc = "write", !.ref = dst, !.then = "put"]
    OBVIOUS
  <2>4. n \in Ask /\ n.pc = "write" /\ n.ref = dst
    BY <1>1, <2>2, <2>3 DEF Ask
  <2>5. /\ op' = [op EXCEPT ![o] = n] /\ cache' = cache /\ muddled \subseteq muddled'
        /\ ~ (Busy(dst) \subseteq {o}) => dst \in muddled'
    BY <1>0, <1>3, <2>1, <2>3 DEF GotValue
  <2>6. SecretTypes'
    BY <1>1, <2>4, <2>5 DEF SecretInv, SecretTypes
  <2>7. ASSUME NEW r \in Ref \ muddled' PROVE RefInv(r)'
    <3>1. SecretTypes /\ RefInv(r) /\ Value(r)' = Value(r) /\ cache'[r] \in {None, acked[r]}
      BY <1>1, <2>5 DEF SecretInv, Value, RefInv
    <3>2. CASE r = dst
      <4>1. Busy(r) \subseteq {o}
        BY <2>5, <2>7, <3>2
      <4>2. Value(r) = acked[r]
        BY <1>0, <1>1, <3>1, <4>1 DEF RefInv
      <4>3. /\ n.ref = r /\ n.pc # "wrote" /\ n.pc # "got" /\ n.pc # "idle" /\ Value(r)' = acked'[r]
            /\ cache'[r] \in {None, acked'[r]}
        BY <1>1, <2>4, <3>1, <3>2, <4>2
      <4> QED BY <2>5, <3>1, <4>1, <4>3, Stays
    <3>3. CASE r # dst
      <4>1. n.ref # r /\ op[o].pc # "wrote" /\ acked'[r] = acked[r]
        BY <1>0, <1>1, <2>4, <3>3
      <4> QED BY <2>5, <3>1, <4>1, Leaves
    <3> QED BY <3>2, <3>3
  <2> QED BY <2>6, <2>7 DEF SecretInv
<1> QED BY <1>2, <1>3

LEMMA BackendPutStep ==
  ASSUME SecretInv, calls' \in Nat, NEW o \in Op, BackendPut(o)
  PROVE  SecretInv'
<1>0. PICK t : t = op[o]
  OBVIOUS
<1>1. /\ t \in Ask /\ t.pc = "write" /\ t.ref \in Ref /\ t.val \in Nat /\ UNCHANGED <<cache, acked>>
      /\ NoOp.pc = "idle"
  <2>1. t.pc = "write" /\ UNCHANGED <<cache, acked>> /\ t \in Ask \cup {NoOp}
    BY <1>0 DEF BackendPut, SecretInv, SecretTypes
  <2> QED BY <2>1 DEF NoOp, Ask
<1>2. CASE ~Available(t.ref)
  <2>1. op' = [op EXCEPT ![o] = NoOp] /\ UNCHANGED <<stored, muddled>>
    BY <1>0, <1>2 DEF BackendPut
  <2>2. SecretTypes'
    BY <1>1, <2>1 DEF SecretInv, SecretTypes
  <2>3. ASSUME NEW r \in Ref \ muddled' PROVE RefInv(r)'
    <3>1. /\ SecretTypes /\ RefInv(r) /\ Value(r)' = Value(r) /\ cache'[r] \in {None, acked[r]}
          /\ op[o].pc # "wrote" /\ acked'[r] = acked[r]
      BY <1>0, <1>1, <2>1 DEF SecretInv, Value, RefInv
    <3> QED BY <1>1, <2>1, <3>1, Leaves
  <2> QED BY <2>2, <2>3 DEF SecretInv
<1>3. CASE Available(t.ref)
  <2>0. PICK s : s = Written(t.ref, t.val)
    OBVIOUS
  <2>1. stored' = [stored EXCEPT ![t.ref] = s] /\ s \in Seq(Nat) /\ s # <<>> /\ s[Len(s)] = t.val
    BY <1>0, <1>1, <1>3, <2>0, WrittenIs DEF BackendPut, SecretInv
  <2>2. stored' \in [Ref -> Seq(Nat)] /\ stored'[t.ref] = s /\ \A r \in Ref \ {t.ref} : stored'[r] = stored[r]
    BY <1>1, <2>1 DEF SecretInv, SecretTypes
  <2>3. Value(t.ref)' = t.val /\ \A r \in Ref \ {t.ref} : Value(r)' = Value(r)
    BY <1>0, <2>1, <2>2 DEF Value
  <2>4. CASE op' = [op EXCEPT ![o] = NoOp] /\ muddled' = muddled \cup {t.ref}
    <3>1. SecretTypes'
      BY <1>1, <2>2, <2>4 DEF SecretInv, SecretTypes
    <3>2. ASSUME NEW r \in Ref \ muddled' PROVE RefInv(r)'
      <4>1. /\ SecretTypes /\ RefInv(r) /\ Value(r)' = Value(r) /\ cache'[r] \in {None, acked[r]}
            /\ op[o].pc # "wrote" /\ acked'[r] = acked[r]
        BY <1>0, <1>1, <2>3, <2>4 DEF SecretInv, RefInv
      <4> QED BY <1>1, <2>4, <4>1, Leaves
    <3> QED BY <3>1, <3>2 DEF SecretInv
  <2>5. CASE op' = [op EXCEPT ![o].pc = "wrote"] /\ UNCHANGED muddled
    <3>1. PICK n : n = [t EXCEPT !.pc = "wrote"]
      OBVIOUS
    <3>2. op' = [op EXCEPT ![o] = n] /\ n \in Ask /\ n.pc = "wrote" /\ n.ref = t.ref /\ n.val = t.val
      BY <1>0, <1>1, <2>5, <3>1 DEF Ask
    <3>3. SecretTypes'
      BY <1>1, <2>2, <3>2 DEF SecretInv, SecretTypes
    <3>4. ASSUME NEW r \in Ref \ muddled' PROVE RefInv(r)'
      <4>1. /\ SecretTypes /\ RefInv(r) /\ cache'[r] \in {None, acked[r]}
            /\ op[o].pc = "write" /\ acked'[r] = acked[r]
        BY <1>0, <1>1, <2>5 DEF SecretInv, RefInv
      <4>2. CASE r = t.ref
        <5>1. o \in Busy(r)
          BY <1>0, <4>1, <4>2 DEF Busy
        <5>2. Busy(r) \subseteq {o}
          BY <4>1, <5>1 DEF RefInv
        <5>3. /\ n.ref = r /\ n.pc = "wrote" /\ n.val = Value(r)' /\ n.pc # "idle" /\ n.pc # "got"
              /\ cache'[r] \in {None, acked'[r]}
          BY <2>3, <3>2, <4>1, <4>2
        <5> QED BY <3>2, <4>1, <5>2, <5>3, Stays
      <4>3. CASE r # t.ref
        <5>1. n.ref # r /\ Value(r)' = Value(r) /\ op[o].pc # "wrote"
          BY <2>3, <3>2, <4>1, <4>3
        <5> QED BY <3>2, <4>1, <5>1, Leaves
      <4> QED BY <4>2, <4>3
    <3> QED BY <3>3, <3>4 DEF SecretInv
  <2> QED BY <1>0, <1>3, <2>4, <2>5 DEF BackendPut
<1> QED BY <1>2, <1>3

LEMMA PutDoneStep ==
  ASSUME SecretInv, calls' \in Nat, NEW o \in Op, PutDone(o)
  PROVE  SecretInv'
<1>0. PICK t : t = op[o]
  OBVIOUS
<1>1. /\ t \in Ask /\ t.pc = "wrote" /\ t.ref \in Ref /\ UNCHANGED <<stored, muddled>> /\ NoOp.pc = "idle"
      /\ cache' = [cache EXCEPT ![t.ref] = None] /\ acked' = [acked EXCEPT ![t.ref] = t.val]
      /\ op' = [op EXCEPT ![o] = NoOp]
  <2>1. /\ t.pc = "wrote" /\ t \in Ask \cup {NoOp} /\ UNCHANGED <<stored, muddled>>
        /\ cache' = [cache EXCEPT ![t.ref] = None] /\ acked' = [acked EXCEPT ![t.ref] = t.val]
        /\ op' = [op EXCEPT ![o] = NoOp]
    BY <1>0 DEF PutDone, SecretInv, SecretTypes
  <2> QED BY <2>1 DEF NoOp, Ask
<1>2. SecretTypes'
  BY <1>1 DEF SecretInv, SecretTypes
<1>3. ASSUME NEW r \in Ref \ muddled' PROVE RefInv(r)'
  <2>1. SecretTypes /\ RefInv(r) /\ Value(r)' = Value(r)
    BY <1>1 DEF SecretInv, Value
  <2>2. CASE r # t.ref
    <3>1. acked'[r] = acked[r] /\ cache'[r] \in {None, acked[r]} /\ op[o].ref # r
      BY <1>0, <1>1, <2>1, <2>2 DEF SecretTypes, RefInv
    <3> QED BY <1>1, <2>1, <3>1, Leaves
  <2>3. CASE r = t.ref
    <3>1. o \in Busy(r)
      BY <1>0, <1>1, <2>3 DEF Busy
    <3>2. Busy(r) = {o} /\ Value(r) = t.val
      BY <1>0, <1>1, <2>1, <3>1 DEF RefInv
    <3>3. op'[o].pc = "idle" /\ \A p \in Op \ {o} : op'[p] = op[p]
      BY <1>1, <2>1 DEF SecretTypes
    <3>4. Busy(r)' = {}
      BY <3>2, <3>3 DEF Busy
    <3>5. acked'[r] = t.val /\ cache'[r] = None
      BY <1>1, <2>1, <2>3 DEF SecretTypes
    <3> QED BY <2>1, <3>2, <3>4, <3>5 DEF RefInv
  <2> QED BY <2>2, <2>3
<1> QED BY <1>2, <1>3 DEF SecretInv

\* Steps that change no request and no stored value.
LEMMA SecretRest ==
  ASSUME SecretInv, calls' \in Nat, UNCHANGED <<stored, op, acked, muddled>>,
         DOMAIN cache' = Ref, \A r \in Ref : cache'[r] \in {None, cache[r]}
  PROVE  SecretInv'
<1>1. SecretTypes'
  BY DEF SecretInv, SecretTypes
<1>2. ASSUME NEW r \in Ref \ muddled' PROVE RefInv(r)'
  <2>1. RefInv(r) /\ cache'[r] \in {None, cache[r]} /\ Value(r)' = Value(r) /\ Busy(r)' = Busy(r)
    BY DEF SecretInv, Value, Busy
  <2> QED BY <2>1 DEF RefInv
<1> QED BY <1>1, <1>2 DEF SecretInv

LEMMA SecretsCrashStep ==
  ASSUME SecretInv, calls' \in Nat, SecretsCrash
  PROVE  SecretInv'
<1>1. /\ cache' = [r \in Ref |-> None] /\ op' = [o \in Op |-> NoOp] /\ UNCHANGED <<stored, acked>>
      /\ muddled \subseteq muddled' /\ NoOp.pc = "idle"
      /\ \A o \in Op : op[o].pc = "wrote" => op[o].ref \in muddled'
  BY DEF SecretsCrash, NoOp
<1>2. SecretTypes'
  BY <1>1 DEF SecretInv, SecretTypes
<1>3. ASSUME NEW r \in Ref \ muddled' PROVE RefInv(r)'
  <2>1. RefInv(r) /\ Value(r)' = Value(r) /\ Busy(r)' = {} /\ cache'[r] = None
    BY <1>1 DEF SecretInv, Value, Busy
  <2>2. \A o \in Busy(r) : op[o].pc # "wrote"
    BY <1>1, <1>3 DEF Busy
  <2> QED BY <1>1, <2>1, <2>2 DEF RefInv
<1> QED BY <1>2, <1>3 DEF SecretInv

LEMMA SecretStep == ASSUME SecretInv, [Next]_vars PROVE SecretInv'
<1>0. calls' \in Nat /\ calls \in Nat /\ DOMAIN cache = Ref
  BY CallsStep DEF SecretInv, SecretTypes
<1>1. CASE SecretsStep
  <2>1. ASSUME NEW o \in Op, NEW r \in Ref, NEW u \in User, RevealSecret(o, u, r) PROVE SecretInv'
    <3>1. CASE GetCached(o, u, r)
      BY <1>0, <3>1, SecretRest DEF GetCached
    <3>2. CASE GetMisses(o, u, r)
      <4>1. PICK n : n = [pc |-> "ask", ref |-> r, then |-> "handle", user |-> u, val |-> 0]
        OBVIOUS
      <4>2. n \in Ask /\ n.pc = "ask"
        BY <4>1 DEF Ask
      <4> QED BY <1>0, <3>2, <4>1, <4>2, ReadsStep DEF GetMisses, Start
    <3> QED BY <2>1, <3>1, <3>2 DEF RevealSecret
  <2>2. ASSUME NEW o \in Op, NEW r \in Ref, RotateSecret(o, r) PROVE SecretInv'
    <3>1. PICK n : n = [pc |-> "ask", ref |-> r, then |-> "put", user |-> None, val |-> 0]
      OBVIOUS
    <3>2. n \in Ask /\ n.pc = "ask"
      BY <3>1 DEF Ask
    <3> QED BY <1>0, <2>2, <3>1, <3>2, ReadsStep DEF RotateSecret, Start
  <2>3. ASSUME NEW o \in Op, NEW r \in Ref, NEW dst \in Ref, Migrate(o, r, dst) PROVE SecretInv'
    <3>1. PICK n : n = [pc |-> "ask", ref |-> r, then |-> dst, user |-> None, val |-> 0]
      OBVIOUS
    <3>2. n \in Ask /\ n.pc = "ask"
      BY <3>1 DEF Ask
    <3> QED BY <1>0, <2>3, <3>1, <3>2, ReadsStep DEF Migrate, Start
  <2>4. ASSUME NEW o \in Op, NEW r \in Ref, Put(o, r, calls + 1) PROVE SecretInv'
    <3>1. PICK n : n = [pc |-> "write", ref |-> r, then |-> "put", user |-> None, val |-> calls + 1]
      OBVIOUS
    <3>2. n \in Ask /\ n.pc = "write"
      BY <1>0, <3>1 DEF Ask
    <3> QED BY <1>0, <2>4, <3>1, <3>2, ReadsStep DEF Put, Start
  <2>5. ASSUME NEW r \in Ref, CacheExpires(r) PROVE SecretInv'
    <3>1. DOMAIN cache' = Ref /\ \A q \in Ref : cache'[q] \in {None, cache[q]}
      BY <1>0, <2>5 DEF CacheExpires
    <3> QED BY <1>0, <2>5, <3>1, SecretRest DEF CacheExpires
  <2>6. ASSUME NEW h, HandleExpires(h) \/ \E u \in User : Reveal(u, h) PROVE SecretInv'
    BY <1>0, <2>6, SecretRest DEF HandleExpires, Reveal
  <2>7. CASE VaultSeals \/ \E sealed \in BOOLEAN : PollOnce(sealed)
    BY <1>0, <2>7, SecretRest DEF VaultSeals, PollOnce
  <2> QED BY <1>0, <1>1, <2>1, <2>2, <2>3, <2>4, <2>5, <2>6, <2>7, BackendGetStep, GotValueStep,
             BackendPutStep, PutDoneStep DEF SecretsStep
<1>2. CASE UNCHANGED secretVars
  BY <1>0, <1>2, SecretRest DEF secretVars
<1>3. CASE SecretsCrash
  BY <1>0, <1>3, SecretsCrashStep
<1> QED BY <1>1, <1>2, <1>3 DEF Next, vars, ProcessEnds

LEMMA SecretHolds == Spec => []SecretInv
<1>1. Init => SecretInv
  <2> SUFFICES ASSUME Init PROVE SecretInv
    OBVIOUS
  <2>1. /\ stored = [r \in Ref |-> <<>>] /\ cache = [r \in Ref |-> None] /\ op = [o \in Op |-> NoOp]
        /\ acked = [r \in Ref |-> 0] /\ NoOp.pc = "idle" /\ calls \in Nat
    BY PlatformAssumption DEF Init, SecretsInit, NoOp
  <2>2. SecretTypes
    BY <2>1 DEF SecretTypes
  <2>3. \A r \in Ref : Value(r) = 0 /\ Busy(r) = {}
    BY <2>1 DEF Value, Busy
  <2> QED BY <2>1, <2>2, <2>3 DEF SecretInv, RefInv
<1>2. SecretInv /\ [Next]_vars => SecretInv'
  BY SecretStep
<1> QED BY <1>1, <1>2, PTL DEF Spec

\* A secret whose requests never overlapped and whose writes never failed half way holds
\* what the last writer was told, in the backend and in the cache, after any number of
\* reads, writes, rotations, migrations, expiries, seals and crashes.
THEOREM AcknowledgedStays == Spec => []AcknowledgedIsRead
<1>1. SecretInv => AcknowledgedIsRead
  BY DEF SecretInv, RefInv, AcknowledgedIsRead
<1> QED BY <1>1, SecretHolds, PTL

================================================================================
