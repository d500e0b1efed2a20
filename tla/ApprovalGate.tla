------------------------------ MODULE ApprovalGate ------------------------------
(***************************************************************************)
(* Approval rows (ApprovalEngine, ApprovalSweeper) and the gate in           *)
(* Dispatcher.dispatch that asks them about high-risk commands.              *)
(*                                                                          *)
(* decide() and sweep() read rows in one query and write them in a later     *)
(* one; the UPDATE names the rows by id only and sets the columns assigned.  *)
(* On SQLite a dispatch holds the write lock from the flush of its Task row  *)
(* on; on Postgres sessions write concurrently.                              *)
(***************************************************************************)
EXTENDS Naturals, FiniteSets

CONSTANTS
    Users,         \* principals
    Approvers,     \* principals that hold task:approve
    Kinds,         \* payload kinds: the subject_id of a command approval
    Ids,           \* approval ids
    Deciders,      \* decide() calls that may be in progress at once
    Calls,         \* high-risk dispatch calls
    Databases,     \* what the server may run on: SQLite, Postgres or either
    None

Policies == {"single", "two_person", "single_second_factor"}
Open     == {"pending", "pending_second"}
Closed   == {"approved", "rejected", "expired"}

VARIABLES
    db,       \* the database of this installation
    row,      \* approvals: None or [by, kind, policy, state, first]
    overdue,  \* ids past expires_at
    update,   \* a decide() between its read and its commit: [id, state, first, vote]
    sweep,    \* ids read by the sweeper, not yet written
    call,     \* a dispatch call: [pc, by, kind, using]
    writer,   \* the call that holds SQLite's write lock
    votes     \* ghost: approve decisions committed, per id: <<user, proof given>>

gateVars == <<db, row, overdue, update, sweep, call, writer, votes>>

Rows == [by : Users, kind : Kinds, policy : Policies, state : Open \cup Closed,
         first : Users \cup {None}]

Updates == [id : Ids, state : Open \cup Closed, first : Users \cup {None},
            vote : (Users \X BOOLEAN) \cup {None}]

CallStates == [pc : {"idle", "begun", "asking", "sent", "pending", "failed"},
               by : Users \cup {None}, kind : Kinds \cup {None}, using : Ids \cup {None}]

ASSUME GateAssumption ==
    /\ Approvers \subseteq Users
    /\ Databases \subseteq {"sqlite", "postgres"}
    /\ None \notin Users \cup Ids \cup Calls
    /\ None \notin Rows /\ None \notin Updates /\ None \notin Users \X BOOLEAN

GateTypeOK ==
    /\ db \in Databases
    /\ row \in [Ids -> Rows \cup {None}]
    /\ overdue \subseteq Ids
    /\ update \in [Deciders -> Updates \cup {None}]
    /\ sweep \subseteq Ids
    /\ call \in [Calls -> CallStates]
    /\ writer \in Calls \cup {None}
    /\ votes \in [Ids -> SUBSET (Users \X BOOLEAN)]

GateInit ==
    /\ db \in Databases
    /\ row = [i \in Ids |-> None] /\ overdue = {}
    /\ update = [s \in Deciders |-> None] /\ sweep = {}
    /\ call = [c \in Calls |-> [pc |-> "idle", by |-> None, kind |-> None, using |-> None]]
    /\ writer = None
    /\ votes = [i \in Ids |-> {}]

Exists(i) == row[i] # None

--------------------------------------------------------------------------------
(***************************************************************************)
(* ApprovalEngine and ApprovalSweeper.                                       *)
(***************************************************************************)
NewRow(u, k, policy, state) ==
    [by |-> u, kind |-> k, policy |-> policy, state |-> state, first |-> None]

\* create_approval: the requester picks the policy.
Request(i, u, k, policy) ==
    /\ ~Exists(i) /\ writer = None
    /\ row' = [row EXCEPT ![i] = NewRow(u, k, policy, "pending")]
    /\ UNCHANGED <<db, overdue, update, sweep, call, writer, votes>>

TimeOut(i) ==
    /\ Exists(i) /\ i \notin overdue
    /\ overdue' = overdue \cup {i}
    /\ UNCHANGED <<db, row, update, sweep, call, writer, votes>>

\* Mutant: two_person is handled like single.
DecisionOfOne(i, u, approve, proof) ==
    LET a == row[i]
    IN  IF a.state \notin Open \/ (a.policy = "single_second_factor" /\ ~proof) THEN None
        ELSE [id |-> i, first |-> a.first, vote |-> <<u, proof>>,
              state |-> IF i \in overdue THEN "expired"
                        ELSE IF ~approve \/ u = a.by THEN "rejected" ELSE "approved"]

\* What decide() assigns, from the row it read: a record, or None when it
\* returns without a change (closed row, or MFA proof missing).
Decision(i, u, approve, proof) ==
    LET a == row[i]
        set(state, first, v) == [id |-> i, state |-> state, first |-> first, vote |-> v]
        vote == <<u, proof>>
    IN  IF a.state \notin Open THEN None
        ELSE IF i \in overdue THEN set("expired", a.first, None)
        ELSE IF ~approve \/ u = a.by THEN set("rejected", a.first, None)
        ELSE IF a.policy = "two_person" THEN
            IF a.state = "pending" THEN set("pending_second", u, vote)
            ELSE IF u = a.first THEN set("rejected", a.first, None)
            ELSE set("approved", a.first, vote)
        ELSE IF a.policy = "single_second_factor" /\ ~proof THEN None
        ELSE set("approved", a.first, vote)

\* decide(): the SELECT and everything computed from it.
DecideRead(s, i, u, approve, proof) ==
    /\ Exists(i) /\ update[s] = None
    /\ Decision(i, u, approve, proof) # None
    /\ update' = [update EXCEPT ![s] = Decision(i, u, approve, proof)]
    /\ UNCHANGED <<db, row, overdue, sweep, call, writer, votes>>

\* decide(): the UPDATE, and the commit of decide_approval.  first_decider_id is
\* written only by the first approval.
DecideCommit(s) ==
    LET d == update[s]
    IN  /\ d # None /\ writer = None
        /\ row' = [row EXCEPT ![d.id].state = d.state,
                              ![d.id].first = IF d.state = "pending_second" THEN d.first ELSE @]
        /\ votes' = [votes EXCEPT ![d.id] = IF d.vote = None THEN @ ELSE @ \cup {d.vote}]
        /\ update' = [update EXCEPT ![s] = None]
        /\ UNCHANGED <<db, overdue, sweep, call, writer>>

\* sweep(): the SELECT of overdue open rows, then the UPDATE by id.
SweepRead ==
    /\ sweep = {}
    /\ sweep' = {i \in overdue : row[i].state \in Open}
    /\ sweep' # {}
    /\ UNCHANGED <<db, row, overdue, update, call, writer, votes>>

SweepCommit ==
    /\ sweep # {} /\ writer = None
    /\ row' = [i \in Ids |-> IF i \in sweep THEN [row[i] EXCEPT !.state = "expired"] ELSE row[i]]
    /\ sweep' = {}
    /\ UNCHANGED <<db, overdue, update, call, writer, votes>>

--------------------------------------------------------------------------------
(***************************************************************************)
(* Step 4 of Dispatcher.dispatch, for a high-risk payload with candidates.   *)
(***************************************************************************)
Finish(c, pc, i) ==
    /\ call' = [call EXCEPT ![c].pc = pc, ![c].using = i]
    /\ writer' = None

\* Step 3.5: the Task row is flushed.
GateBegin(c, u, k) ==
    /\ call[c].pc = "idle" /\ writer = None
    /\ call' = [call EXCEPT ![c] = [pc |-> "begun", by |-> u, kind |-> k, using |-> None]]
    /\ writer' = IF db = "sqlite" THEN c ELSE None
    /\ UNCHANGED <<db, row, overdue, update, sweep, votes>>

\* Any approved row of this requester and kind will do: neither its age nor an
\* earlier use is looked at.
Granting(c) ==
    {i \in Ids : Exists(i) /\ row[i].by = call[c].by /\ row[i].kind = call[c].kind
                   /\ row[i].state = "approved"}

GateOpen(c) ==
    /\ call[c].pc = "begun"
    /\ \E i \in Granting(c) : Finish(c, "sent", i)
    /\ UNCHANGED <<db, row, overdue, update, sweep, votes>>

\* Mutant: the permission is not checked.
GateSelfApproveAnyone(c, i) ==
    /\ call[c].pc = "begun" /\ Granting(c) = {}
    /\ ~Exists(i)
    /\ row' = [row EXCEPT ![i] = NewRow(call[c].by, call[c].kind, "single", "approved")]
    /\ Finish(c, "sent", i)
    /\ UNCHANGED <<db, overdue, update, sweep, votes>>

\* A principal with task:approve approves its own request on the spot.
GateSelfApprove(c, i) ==
    /\ call[c].pc = "begun" /\ Granting(c) = {} /\ call[c].by \in Approvers
    /\ ~Exists(i)
    /\ row' = [row EXCEPT ![i] = NewRow(call[c].by, call[c].kind, "single", "approved")]
    /\ Finish(c, "sent", i)
    /\ UNCHANGED <<db, overdue, update, sweep, votes>>

\* Otherwise the approval engine is asked for a row, in a session of its own.
GateAsk(c) ==
    /\ call[c].pc = "begun" /\ Granting(c) = {} /\ call[c].by \notin Approvers
    /\ call' = [call EXCEPT ![c].pc = "asking"]
    /\ UNCHANGED <<db, row, overdue, update, sweep, writer, votes>>

GateRequest(c, i) ==
    /\ call[c].pc = "asking" /\ writer = None /\ ~Exists(i)
    /\ row' = [row EXCEPT ![i] = NewRow(call[c].by, call[c].kind, "single_second_factor", "pending")]
    /\ Finish(c, "pending", i)
    /\ UNCHANGED <<db, overdue, update, sweep, votes>>

\* The other session waits for the write lock that this call holds; after
\* busy_timeout it raises "database is locked" and the call is rolled back.
GateLocked(c) ==
    /\ call[c].pc = "asking" /\ writer = c
    /\ Finish(c, "failed", None)
    /\ UNCHANGED <<db, row, overdue, update, sweep, votes>>

--------------------------------------------------------------------------------
GateStep(c) ==
    \/ GateOpen(c) \/ GateAsk(c) \/ GateLocked(c)
    \/ \E i \in Ids : GateSelfApprove(c, i) \/ GateRequest(c, i)

GateNext ==
    \/ \E i \in Ids :
          \/ \E u \in Users, k \in Kinds, policy \in Policies : Request(i, u, k, policy)
          \/ TimeOut(i)
          \/ \E s \in Deciders, u \in Users, approve \in BOOLEAN, proof \in BOOLEAN :
                DecideRead(s, i, u, approve, proof)
    \/ \E s \in Deciders : DecideCommit(s)
    \/ SweepRead \/ SweepCommit
    \/ \E c \in Calls : GateStep(c) \/ \E u \in Users, k \in Kinds : GateBegin(c, u, k)

GateSpec == GateInit /\ [][GateNext]_gateVars

--------------------------------------------------------------------------------
(***************************************************************************)
(* Properties.                                                               *)
(***************************************************************************)
Others(i) == {v[1] : v \in votes[i]} \ {row[i].by}

\* An approved row has the decisions its policy asks for, from principals other
\* than the requester: two distinct ones for two_person, one with an MFA proof
\* for single_second_factor.  Overlapping decide() calls that read stale rows
\* cannot fake a second person.  (The row a task:approve holder writes for its
\* own dispatch is the exception.)
ApprovalMeetsPolicy ==
    \A i \in Ids :
        (Exists(i) /\ row[i].state = "approved") =>
            CASE row[i].policy = "two_person" -> Cardinality(Others(i)) >= 2
              [] row[i].policy = "single_second_factor" ->
                    \E v \in votes[i] : v[1] # row[i].by /\ v[2]
              [] OTHER -> Others(i) # {} \/ row[i].by \in Approvers

\* A high-risk dispatch of a principal that may not approve went through only on
\* an approval that somebody else decided for that principal and that kind,
\* whatever happened to the row since.
GatedByAnother ==
    \A c \in Calls :
        (call[c].pc = "sent" /\ call[c].by \notin Approvers) =>
            LET i == call[c].using
            IN  /\ row[i].by = call[c].by /\ row[i].kind = call[c].kind
                /\ Others(i) # {}

================================================================================
