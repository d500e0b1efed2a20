--------------------------------- MODULE Secrets ---------------------------------
(* The secrets broker over its backends, with its cache, its handles and the     *)
(* sealed-mode monitor.  The local file backend answers within the call; the     *)
(* Vault and plugin backends answer later, so that other requests run between    *)
(* what they read or wrote and what the broker does with it.                     *)
(*                                                                              *)
(* A value is the number of the put that chose it; 0 is no secret.              *)
EXTENDS Keys

CONSTANTS
    Ref,        \* secret references
    LocalRef,   \* those of the local backend
    User,       \* requesters
    Op,         \* slots for requests at the broker
    GracePolls, \* polls that must find the vault sealed (5 minutes in the code)
    RecoverPolls, \* polls that must find it unsealed (30 seconds)
    KeepVersions  \* versions the local backend keeps (10 in the code)

ASSUME SecretsAssumption ==
    /\ LocalRef \subseteq Ref
    /\ {GracePolls, RecoverPolls, KeepVersions} \subseteq Nat \ {0}

VARIABLES
    stored,    \* the versions of each secret in its backend, oldest first
    cache,     \* BrokerCache: the value of each reference, or None
    handles,   \* HandleStore: live handles
    op,        \* requests in progress
    vault,     \* "open" or "sealed"
    degraded,  \* SealedModeMonitor: degraded read-only mode
    streak,    \* consecutive polls with the same answer: [sealed, n]
    acked,     \* the last value acknowledged to a writer (history)
    muddled    \* references with overlapping or failed writes (history)

secretVars == <<stored, cache, handles, op, vault, degraded, streak, acked, muddled>>

NoOp == [pc |-> "idle"]
Value(r) == IF stored[r] = <<>> THEN 0 ELSE stored[r][Len(stored[r])]
Busy(r) == {o \in Op : op[o].pc # "idle" /\ op[o].ref = r}

SecretsInit ==
    /\ stored = [r \in Ref |-> <<>>]
    /\ cache = [r \in Ref |-> None]
    /\ handles = {}
    /\ op = [o \in Op |-> NoOp]
    /\ vault = "open" /\ degraded = FALSE /\ streak = [sealed |-> FALSE, n |-> 0]
    /\ acked = [r \in Ref |-> 0] /\ muddled = {}

\* The secret in the slot's reference starts to be read or written: whatever is in
\* progress on it overlaps.
Overlaps(r) == muddled' = IF Busy(r) = {} THEN muddled ELSE muddled \cup {r}
KeepsMonitor == UNCHANGED <<vault, degraded, streak, keyVars>>

\* A request at the local backend runs without an interruption by another.
Turn(o) == \A p \in Op : p # o /\ op[p].pc # "idle" => op[p].ref \notin LocalRef
Start(o) == Request /\ op[o] = NoOp /\ Turn(o)

\* put of a backend: a new version, of which the local one keeps the last few.
Written(r, v) ==
    LET all == Append(stored[r], v)
    IN  IF r \in LocalRef /\ Len(all) > KeepVersions THEN Tail(all) ELSE all

\* SecretRef.parse has accepted the reference.  get: the cache answers, or the
\* backend is asked unless the broker is degraded.
GetCached(o, u, r) ==
    /\ Start(o) /\ cache[r] # None
    /\ handles' = handles \cup {[ref |-> r, val |-> cache[r], user |-> u]}
    /\ UNCHANGED <<stored, cache, op, acked, muddled>> /\ KeepsMonitor

Reads(o, rec) == op' = [op EXCEPT ![o] = rec] /\ Overlaps(rec.ref)

GetMisses(o, u, r) ==
    /\ Start(o) /\ cache[r] = None /\ ~degraded
    /\ Reads(o, [pc |-> "ask", ref |-> r, then |-> "handle", user |-> u, val |-> 0])
    /\ UNCHANGED <<stored, cache, handles, acked>> /\ KeepsMonitor

\* reveal_secret, once the second factor is proven: the broker is asked for a handle.
RevealSecret(o, u, r) == GetCached(o, u, r) \/ GetMisses(o, u, r)

\* rotate: the value is read past the cache and written back as a new version.
RotateSecret(o, r) ==
    /\ Start(o) /\ ~degraded
    /\ Reads(o, [pc |-> "ask", ref |-> r, then |-> "put", user |-> None, val |-> 0])
    /\ UNCHANGED <<stored, cache, handles, acked>> /\ KeepsMonitor

\* migrate_secret: read from one reference, and unless it is a dry run written to
\* another.
Migrate(o, r, dst) ==
    /\ Start(o) /\ ~degraded /\ r # dst
    /\ Reads(o, [pc |-> "ask", ref |-> r, then |-> dst, user |-> None, val |-> 0])
    /\ UNCHANGED <<stored, cache, handles, acked>> /\ KeepsMonitor

\* put: not held back by the degraded mode.
Put(o, r, v) ==
    /\ Start(o)
    /\ Reads(o, [pc |-> "write", ref |-> r, then |-> "put", user |-> None, val |-> v])
    /\ UNCHANGED <<stored, cache, handles, acked>> /\ KeepsMonitor

Available(r) == r \in LocalRef \/ vault = "open"

\* The backend reads: a missing secret or a sealed vault ends the request.
BackendGet(o) ==
    LET r == op[o].ref
    IN  /\ Up /\ op[o].pc = "ask" /\ Turn(o) /\ UNCHANGED calls
        /\ op' = [op EXCEPT ![o] = IF Available(r) /\ Value(r) # 0
                                   THEN [@ EXCEPT !.pc = "got", !.val = Value(r)] ELSE NoOp]
        /\ UNCHANGED <<stored, cache, handles, acked, muddled>> /\ KeepsMonitor

\* The broker resumes with the value: it caches it and issues a handle, or goes on
\* to write.
GotValue(o) ==
    LET t == op[o]
    IN  /\ Up /\ t.pc = "got" /\ Turn(o) /\ UNCHANGED calls
        /\ IF t.then = "handle"
           THEN /\ cache' = [cache EXCEPT ![t.ref] = t.val]
                /\ handles' = handles \cup {[ref |-> t.ref, val |-> t.val, user |-> t.user]}
                /\ op' = [op EXCEPT ![o] = NoOp]
                /\ UNCHANGED muddled
           ELSE LET dst == IF t.then = "put" THEN t.ref ELSE t.then
                IN  /\ op' = [op EXCEPT ![o].pc = "write", ![o].ref = dst, ![o].then = "put"]
                    /\ muddled' = IF Busy(dst) \subseteq {o} THEN muddled ELSE muddled \cup {dst}
                    /\ UNCHANGED <<cache, handles>>
        /\ UNCHANGED <<stored, acked>> /\ KeepsMonitor

\* The backend writes.  A sealed vault refuses; an answer that is lost or malformed
\* fails a put that took place, and the cache is not told.
BackendPut(o) ==
    LET t == op[o]
    IN  /\ Up /\ t.pc = "write" /\ Turn(o) /\ UNCHANGED calls
        /\ IF Available(t.ref)
           THEN /\ stored' = [stored EXCEPT ![t.ref] = Written(t.ref, t.val)]
                /\ \/ op' = [op EXCEPT ![o].pc = "wrote"] /\ UNCHANGED muddled
                   \/ /\ t.ref \notin LocalRef
                      /\ op' = [op EXCEPT ![o] = NoOp]
                      /\ muddled' = muddled \cup {t.ref}
           ELSE op' = [op EXCEPT ![o] = NoOp] /\ UNCHANGED <<stored, muddled>>
        /\ UNCHANGED <<cache, handles, acked>> /\ KeepsMonitor

\* The put is acknowledged, the cached value dropped.
PutDoneKeeping(o) ==
    /\ Up /\ op[o].pc = "wrote" /\ Turn(o) /\ UNCHANGED calls
    /\ acked' = [acked EXCEPT ![op[o].ref] = op[o].val]
    /\ op' = [op EXCEPT ![o] = NoOp]
    /\ UNCHANGED <<stored, cache, handles, muddled>> /\ KeepsMonitor
PutDone(o) ==
    /\ Up /\ op[o].pc = "wrote" /\ Turn(o) /\ UNCHANGED calls
    /\ cache' = [cache EXCEPT ![op[o].ref] = None]
    /\ acked' = [acked EXCEPT ![op[o].ref] = op[o].val]
    /\ op' = [op EXCEPT ![o] = NoOp]
    /\ UNCHANGED <<stored, handles, muddled>> /\ KeepsMonitor

\* reveal: the requester of a live handle, with a recent second factor, gets its
\* value; the handle stays.
Reveal(u, h) ==
    /\ Request /\ h \in handles /\ h.user = u
    /\ UNCHANGED <<stored, cache, handles, op, acked, muddled>> /\ KeepsMonitor

CacheExpires(r) ==
    /\ cache[r] # None /\ UNCHANGED calls
    /\ cache' = [cache EXCEPT ![r] = None]
    /\ UNCHANGED <<stored, handles, op, acked, muddled>> /\ KeepsMonitor

HandleExpires(h) ==
    /\ h \in handles /\ UNCHANGED calls
    /\ handles' = handles \ {h}
    /\ UNCHANGED <<stored, cache, op, acked, muddled>> /\ KeepsMonitor

-----------------------------------------------------------------------------
(* The sealed-mode monitor.                                                    *)

VaultSeals ==
    /\ Call /\ vault' = IF vault = "open" THEN "sealed" ELSE "open"
    /\ UNCHANGED <<stored, cache, handles, op, degraded, streak, acked, muddled, keyVars>>

\* _poll_once: the health may be the one cached before the vault changed; an error
\* counts as sealed.  The mode changes after a long enough run of equal answers.
PollOnce(sealed) ==
    LET n == IF streak.sealed = sealed THEN streak.n + 1 ELSE 0
    IN  /\ Request
        /\ streak' = [sealed |-> sealed, n |-> n]
        /\ degraded' = IF sealed THEN degraded \/ n >= GracePolls
                                 ELSE degraded /\ n < RecoverPolls
        /\ UNCHANGED <<stored, cache, handles, op, vault, acked, muddled, keyVars>>

SecretsCrash ==
    /\ cache' = [r \in Ref |-> None] /\ handles' = {}
    /\ op' = [o \in Op |-> NoOp]
    /\ degraded' = FALSE /\ streak' = [sealed |-> FALSE, n |-> 0]
    /\ muddled' = muddled \cup {op[o].ref : o \in {p \in Op : op[p].pc \in {"write", "wrote"}}}
    /\ UNCHANGED <<stored, vault, acked>>

SecretsStep ==
    \/ \E o \in Op, r \in Ref :
         \/ \E u \in User : RevealSecret(o, u, r)
         \/ RotateSecret(o, r)
         \/ \E dst \in Ref : Migrate(o, r, dst)
         \/ Put(o, r, calls + 1)
    \/ \E o \in Op : BackendGet(o) \/ GotValue(o) \/ BackendPut(o) \/ PutDone(o)
    \/ \E r \in Ref : CacheExpires(r)
    \/ \E h \in handles : HandleExpires(h) \/ \E u \in User : Reveal(u, h)
    \/ VaultSeals \/ \E sealed \in BOOLEAN : PollOnce(sealed)

-----------------------------------------------------------------------------
\* What a writer was told is stored is what the backend and the cache hold, once the
\* request is over, unless requests on the secret overlapped or a write failed half
\* way: then a late read caches the old value, and rotate or migrate writes it back.
AcknowledgedIsRead ==
    \A r \in Ref : r \notin muddled /\ Busy(r) = {} =>
      /\ Value(r) = acked[r]
      /\ cache[r] \in {None, acked[r]}

================================================================================
