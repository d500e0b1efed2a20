-------------------------------- MODULE AuditLog --------------------------------
(* What the audit trail promises: committed entries form one hash chain.  An    *)
(* entry is added only after the newest one, linked to its hash, and none is    *)
(* ever changed; entries leave only when their retention has passed.            *)
(*                                                                              *)
(* A hash is the sequence of what has been hashed: two are equal exactly if      *)
(* their histories are.                                                         *)
EXTENDS Integers

CONSTANT Genesis

VARIABLES
    log,      \* committed entries: sequence number, link and hash
    expired   \* the sequence numbers whose retention has passed

Newest(entries) ==
    IF entries = {} THEN [seq |-> -1, hash |-> Genesis]
    ELSE CHOOSE e \in entries : \A o \in entries : o.seq <= e.seq

Init == log = {} /\ expired = {}

\* New entries continue the chain from the newest one, one by one.  Where entries
\* have expired, the one to follow may be gone, and its number free again.
Extend ==
    /\ log \subseteq log'
    /\ \A e \in log' \ log :
         LET last == Newest({o \in log' : o.seq < e.seq})
         IN  /\ (e.seq = last.seq + 1 /\ e.prev = last.hash) \/ e.seq - 1 \in expired
             /\ (\A o \in log : o.seq < e.seq) \/ e.seq \in expired
             /\ \A o \in log' : o.seq = e.seq => o = e

Expire == UNCHANGED log

Prune ==
    /\ log' \subseteq log
    /\ \A e \in log \ log' : e.seq \in expired

\* What has expired stays so.
Next == expired \subseteq expired' /\ (Extend \/ Expire \/ Prune)

Spec == Init /\ [][Next]_<<log, expired>>

================================================================================
