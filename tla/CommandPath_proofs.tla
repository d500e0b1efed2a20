-------------------------- MODULE CommandPath_proofs --------------------------
(***************************************************************************)
(* The way of a command, through the approval gate and then to its agent.     *)
(*                                                                         *)
(* ApprovalGate, for every set of users, rows, decide() calls and dispatches: *)
(* the type invariant, that an approved row has the decisions its policy asks *)
(* for, and that a gated dispatch went through on somebody else's decision.   *)
(*                                                                         *)
(* CommandDelivery, for every set of commands and every bound: the type       *)
(* invariant, that no command vanishes, that a reconnect covers every         *)
(* un-acked command, and how many copies of a command there can be.          *)
(***************************************************************************)
EXTENDS ApprovalGate, CommandDelivery, FiniteSetTheorems, SequenceTheorems, TLAPS

(***************************************************************************)
(* The approval gate.                                                      *)
(***************************************************************************)
\* Somebody other than the requester voted on row i; p is that voter.
VotedBy(i, p) == p # row[i].by /\ \E v \in votes[i] : v[1] = p

\* ApprovalMeetsPolicy for one row, with the voters named instead of counted.
Justified(i) ==
    /\ row[i].policy = "two_person" =>
          \E p \in Users, q \in Users : p # q /\ VotedBy(i, p) /\ VotedBy(i, q)
    /\ row[i].policy = "single_second_factor" =>
          \E v \in votes[i] : v[1] # row[i].by /\ v[2] = TRUE
    /\ row[i].policy = "single" =>
          (\E p \in Users : VotedBy(i, p)) \/ row[i].by \in Approvers

RowsJustified ==
    \A i \in Ids : Exists(i) =>
        /\ row[i].state = "approved" => Justified(i)
        /\ row[i].state = "pending_second" =>
              row[i].policy = "two_person" /\ row[i].first \in Users /\ VotedBy(i, row[i].first)

\* A decide() that read a row long ago still carries a vote that the row's policy
\* accepts: what the argument needs of the row (requester, policy, votes) does
\* not go stale.
UpdateJustified(d) ==
    /\ Exists(d.id)
    /\ d.state \in {"pending_second", "approved"} =>
          d.vote \in Users \X BOOLEAN /\ d.vote[1] # row[d.id].by
    /\ d.state = "pending_second" => row[d.id].policy = "two_person" /\ d.first = d.vote[1]
    /\ d.state = "approved" =>
          /\ row[d.id].policy = "two_person" =>
                d.first \in Users /\ d.first # d.vote[1] /\ VotedBy(d.id, d.first)
          /\ row[d.id].policy = "single_second_factor" => d.vote[2] = TRUE

UpdatesJustified == \A s \in Deciders : update[s] # None => UpdateJustified(update[s])

SentJustified ==
    \A c \in Calls :
        /\ call[c].pc # "idle" => call[c].by \in Users /\ call[c].kind \in Kinds
        /\ (call[c].pc = "sent" /\ call[c].by \notin Approvers) =>
              LET i == call[c].using
              IN  /\ i \in Ids /\ Exists(i)
                  /\ row[i].by = call[c].by /\ row[i].kind = call[c].kind
                  /\ \E p \in Users : VotedBy(i, p)

VotesFinite == \A i \in Ids : IsFiniteSet(votes[i])
SweptExist  == \A i \in overdue \cup sweep : Exists(i)

\* The inductive invariant.
GateInv ==
    /\ GateTypeOK
    /\ VotesFinite /\ SweptExist
    /\ RowsJustified /\ UpdatesJustified /\ SentJustified

--------------------------------------------------------------------------------
(***************************************************************************)
(* What every step keeps: a row is never deleted or handed to another         *)
(* requester, kind or policy, and a vote is never withdrawn.                 *)
(***************************************************************************)
Keeps ==
    \A i \in Ids :
        /\ Exists(i) => /\ Exists(i)' /\ row'[i].by = row[i].by
                        /\ row'[i].kind = row[i].kind /\ row'[i].policy = row[i].policy
        /\ votes[i] \subseteq votes'[i]

LEMMA GateTypeInit == GateInit => GateTypeOK
  BY GateAssumption DEF GateInit, GateTypeOK, CallStates

LEMMA NewRowType ==
  ASSUME NEW u \in Users, NEW k \in Kinds, NEW policy \in Policies, NEW state \in Open \cup Closed
  PROVE  NewRow(u, k, policy, state) \in Rows /\ NewRow(u, k, policy, state) # None
  BY GateAssumption DEF NewRow, Rows

LEMMA DecisionType ==
  ASSUME GateTypeOK, NEW i \in Ids, NEW u \in Users, NEW approve \in BOOLEAN, NEW proof \in BOOLEAN,
         Exists(i), Decision(i, u, approve, proof) # None
  PROVE  Decision(i, u, approve, proof) \in Updates /\ Decision(i, u, approve, proof).id = i
<1>1. row[i] \in Rows
  BY DEF GateTypeOK, Exists
<1>2. <<u, proof>> \in Users \X BOOLEAN
  OBVIOUS
<1> QED
  BY <1>1, <1>2 DEF Decision, Updates, Rows, Policies, Open, Closed

LEMMA DecideCommitFacts ==
  ASSUME GateInv, NEW s \in Deciders, DecideCommit(s)
  PROVE  LET d == update[s]
             i == d.id
         IN  /\ d \in Updates /\ i \in Ids /\ UpdateJustified(d)
             /\ row[i] \in Rows /\ row'[i] \in Rows
             /\ row' \in [Ids -> Rows \cup {None}]
             /\ row'[i].by = row[i].by /\ row'[i].kind = row[i].kind
             /\ row'[i].policy = row[i].policy /\ row'[i].state = d.state
             /\ row'[i].first = IF d.state = "pending_second" THEN d.first ELSE row[i].first
             /\ \A j \in Ids : j # i => row'[j] = row[j] /\ votes'[j] = votes[j]
             /\ votes'[i] = IF d.vote = None THEN votes[i] ELSE votes[i] \cup {d.vote}
             /\ votes' \in [Ids -> SUBSET (Users \X BOOLEAN)]
<1> DEFINE d == update[s]
           i == d.id
           new == [row[i] EXCEPT !.state = d.state,
                                 !.first = IF d.state = "pending_second" THEN d.first ELSE @]
<1>1. d \in Updates /\ i \in Ids /\ (d.vote # None => d.vote \in Users \X BOOLEAN)
  BY DEF GateInv, GateTypeOK, DecideCommit, Updates
<1>2. UpdateJustified(d)
  BY DEF GateInv, UpdatesJustified, DecideCommit
<1>3. /\ row[i] \in Rows /\ row \in [Ids -> Rows \cup {None}]
      /\ votes \in [Ids -> SUBSET (Users \X BOOLEAN)]
  BY <1>1, <1>2 DEF GateInv, GateTypeOK, UpdateJustified, Exists
<1>4. new \in Rows
  BY <1>1, <1>3 DEF Rows, Updates
<1>5. /\ new.by = row[i].by /\ new.kind = row[i].kind
      /\ new.policy = row[i].policy /\ new.state = d.state
      /\ new.first = IF d.state = "pending_second" THEN d.first ELSE row[i].first
  BY <1>3 DEF Rows
<1>6. /\ row' = [row EXCEPT ![i] = new]
      /\ votes' = [votes EXCEPT ![i] = IF d.vote = None THEN votes[i] ELSE votes[i] \cup {d.vote}]
  BY DEF DecideCommit
<1> HIDE DEF new, i
<1>7. votes' \in [Ids -> SUBSET (Users \X BOOLEAN)]
  BY <1>1, <1>3, <1>6
<1> QED BY <1>1, <1>2, <1>3, <1>4, <1>5, <1>6, <1>7 DEF i

LEMMA FinishFacts ==
  ASSUME GateTypeOK, NEW c \in Calls, NEW pc \in {"sent", "pending", "failed"},
         NEW i \in Ids \cup {None}, Finish(c, pc, i)
  PROVE  /\ call' \in [Calls -> CallStates] /\ writer' = None
         /\ call'[c].pc = pc /\ call'[c].by = call[c].by
         /\ call'[c].kind = call[c].kind /\ call'[c].using = i
         /\ \A o \in Calls : o # c => call'[o] = call[o]
<1> DEFINE new == [call[c] EXCEPT !.pc = pc, !.using = i]
<1>1. call[c] \in CallStates /\ call \in [Calls -> CallStates]
  BY DEF GateTypeOK
<1>2. call' = [call EXCEPT ![c] = new] /\ writer' = None
  BY DEF Finish
<1>3. new \in CallStates
  BY <1>1 DEF CallStates
<1>4. new.pc = pc /\ new.by = call[c].by /\ new.kind = call[c].kind /\ new.using = i
  BY <1>1 DEF CallStates
<1> HIDE DEF new
<1> QED BY <1>1, <1>2, <1>3, <1>4

LEMMA SweepCommitFacts ==
  ASSUME GateInv, SweepCommit
  PROVE  /\ row' \in [Ids -> Rows \cup {None}]
         /\ \A i \in Ids : i \notin sweep => row'[i] = row[i]
         /\ \A i \in sweep : /\ row[i] \in Rows /\ row'[i] \in Rows /\ row'[i].state = "expired"
                             /\ row'[i].by = row[i].by /\ row'[i].kind = row[i].kind
                             /\ row'[i].policy = row[i].policy
<1>1. row \in [Ids -> Rows \cup {None}] /\ sweep \subseteq Ids /\ \A i \in sweep : row[i] \in Rows
  BY DEF GateInv, GateTypeOK, SweptExist, Exists
<1>2. row' = [i \in Ids |-> IF i \in sweep THEN [row[i] EXCEPT !.state = "expired"] ELSE row[i]]
  BY DEF SweepCommit
<1>3. ASSUME NEW r \in Rows
      PROVE  LET e == [r EXCEPT !.state = "expired"]
             IN  /\ e \in Rows /\ e.state = "expired" /\ e.by = r.by /\ e.kind = r.kind
                 /\ e.policy = r.policy
  BY DEF Rows, Closed
<1>4. \A i \in Ids : row'[i] = IF i \in sweep THEN [row[i] EXCEPT !.state = "expired"] ELSE row[i]
  BY <1>2, Zenon
<1>5. \A i \in sweep : row'[i] \in Rows
  BY <1>1, <1>3, <1>4
<1>6. \A i \in Ids : row'[i] \in Rows \cup {None}
  BY <1>1, <1>4, <1>5
<1>7. row' \in [Ids -> Rows \cup {None}]
  BY <1>2, <1>4, <1>6, Zenon
<1> QED BY ZenonT(30), <1>1, <1>3, <1>4, <1>5, <1>7

LEMMA GateTypeStep ==
  ASSUME GateInv, [GateNext]_gateVars
  PROVE  GateTypeOK'
<1> USE GateAssumption DEF GateInv
<1>1. ASSUME NEW i \in Ids, NEW u \in Users, NEW k \in Kinds, NEW policy \in Policies,
             Request(i, u, k, policy)
      PROVE  GateTypeOK'
  <2>1. NewRow(u, k, policy, "pending") \in Rows
    BY NewRowType DEF Open
  <2> QED BY <1>1, <2>1 DEF GateTypeOK, Request
<1>2. ASSUME NEW i \in Ids, TimeOut(i) PROVE GateTypeOK'
  BY <1>2 DEF GateTypeOK, TimeOut
<1>3. ASSUME NEW s \in Deciders, NEW i \in Ids, NEW u \in Users, NEW approve \in BOOLEAN,
             NEW proof \in BOOLEAN, DecideRead(s, i, u, approve, proof)
      PROVE  GateTypeOK'
  <2>1. Decision(i, u, approve, proof) \in Updates
    BY <1>3, DecisionType DEF DecideRead
  <2> QED BY <1>3, <2>1 DEF GateTypeOK, DecideRead
<1>4. ASSUME NEW s \in Deciders, DecideCommit(s) PROVE GateTypeOK'
  <2>1. row' \in [Ids -> Rows \cup {None}] /\ votes' \in [Ids -> SUBSET (Users \X BOOLEAN)]
    BY <1>4, DecideCommitFacts DEF GateTypeOK
  <2> QED BY <1>4, <2>1 DEF GateTypeOK, DecideCommit
<1>5. CASE SweepRead
  BY <1>5 DEF GateTypeOK, SweepRead
<1>6. CASE SweepCommit
  BY <1>6, SweepCommitFacts DEF GateTypeOK, SweepCommit
<1>7. ASSUME NEW c \in Calls, NEW u \in Users, NEW k \in Kinds, GateBegin(c, u, k) PROVE GateTypeOK'
  BY <1>7 DEF GateTypeOK, GateBegin, CallStates
<1>8. ASSUME NEW c \in Calls, GateOpen(c) PROVE GateTypeOK'
  BY <1>8, FinishFacts DEF GateTypeOK, GateOpen, Granting
<1>9. ASSUME NEW c \in Calls, NEW i \in Ids, GateSelfApprove(c, i) PROVE GateTypeOK'
  <2>1. NewRow(call[c].by, call[c].kind, "single", "approved") \in Rows
    BY <1>9, NewRowType DEF GateSelfApprove, SentJustified, Policies, Closed
  <2> QED BY <1>9, <2>1, FinishFacts DEF GateTypeOK, GateSelfApprove
<1>10. ASSUME NEW c \in Calls, GateAsk(c) PROVE GateTypeOK'
  BY <1>10 DEF GateTypeOK, GateAsk, CallStates
<1>11. ASSUME NEW c \in Calls, NEW i \in Ids, GateRequest(c, i) PROVE GateTypeOK'
  <2>1. NewRow(call[c].by, call[c].kind, "single_second_factor", "pending") \in Rows
    BY <1>11, NewRowType DEF GateRequest, SentJustified, Policies, Open
  <2> QED BY <1>11, <2>1, FinishFacts DEF GateTypeOK, GateRequest
<1>12. ASSUME NEW c \in Calls, GateLocked(c) PROVE GateTypeOK'
  BY <1>12, FinishFacts DEF GateTypeOK, GateLocked
<1>13. CASE UNCHANGED gateVars
  BY <1>13 DEF GateTypeOK, gateVars
<1> QED
  BY <1>1, <1>2, <1>3, <1>4, <1>5, <1>6, <1>7, <1>8, <1>9, <1>10, <1>11, <1>12, <1>13
  DEF GateNext, GateStep

\* Rows and votes change in five actions only; none takes back what it found.
LEMMA StepKeeps ==
  ASSUME GateInv, [GateNext]_gateVars
  PROVE  Keeps
<1> USE GateAssumption DEF GateInv
<1>1. ASSUME NEW i \in Ids, NEW r \in Rows, ~Exists(i), row' = [row EXCEPT ![i] = r],
             UNCHANGED votes
      PROVE  Keeps
  BY <1>1 DEF GateTypeOK, Keeps, Exists
<1>2. ASSUME NEW s \in Deciders, DecideCommit(s) PROVE Keeps
  <2> DEFINE d == update[s]
  <2>1. /\ d.id \in Ids /\ row'[d.id] \in Rows
        /\ row'[d.id].by = row[d.id].by /\ row'[d.id].kind = row[d.id].kind
        /\ row'[d.id].policy = row[d.id].policy
        /\ votes[d.id] \subseteq votes'[d.id]
        /\ \A j \in Ids : j # d.id => row'[j] = row[j] /\ votes'[j] = votes[j]
    BY <1>2, DecideCommitFacts
  <2> HIDE DEF d
  <2> QED BY <2>1 DEF Keeps, Exists
<1>3. CASE SweepCommit
  <2>1. UNCHANGED votes
    BY <1>3 DEF SweepCommit
  <2> QED BY <1>3, <2>1, SweepCommitFacts DEF Keeps, Exists
<1>4. ASSUME UNCHANGED <<row, votes>> PROVE Keeps
  BY <1>4 DEF Keeps, Exists
<1>5. ASSUME NEW i \in Ids, NEW u \in Users, NEW k \in Kinds, NEW policy \in Policies,
             Request(i, u, k, policy)
      PROVE  Keeps
  <2>1. NewRow(u, k, policy, "pending") \in Rows
    BY NewRowType DEF Open
  <2> QED BY <1>1, <1>5, <2>1 DEF Request
<1>6. ASSUME NEW c \in Calls, NEW i \in Ids, GateSelfApprove(c, i) PROVE Keeps
  <2>1. NewRow(call[c].by, call[c].kind, "single", "approved") \in Rows
    BY <1>6, NewRowType DEF GateSelfApprove, SentJustified, Policies, Closed
  <2> QED BY <1>1, <1>6, <2>1 DEF GateSelfApprove
<1>7. ASSUME NEW c \in Calls, NEW i \in Ids, GateRequest(c, i) PROVE Keeps
  <2>1. NewRow(call[c].by, call[c].kind, "single_second_factor", "pending") \in Rows
    BY <1>7, NewRowType DEF GateRequest, SentJustified, Policies, Open
  <2> QED BY <1>1, <1>7, <2>1 DEF GateRequest
<1>8. ASSUME NEW i \in Ids, TimeOut(i) PROVE Keeps
  BY <1>4, <1>8 DEF TimeOut
<1>9. ASSUME NEW s \in Deciders, NEW i \in Ids, NEW u \in Users, NEW approve \in BOOLEAN,
             NEW proof \in BOOLEAN, DecideRead(s, i, u, approve, proof)
      PROVE  Keeps
  BY <1>4, <1>9 DEF DecideRead
<1>10. CASE SweepRead
  BY <1>4, <1>10 DEF SweepRead
<1>11. ASSUME NEW c \in Calls,
              GateOpen(c) \/ GateAsk(c) \/ GateLocked(c)
                \/ \E u \in Users, k \in Kinds : GateBegin(c, u, k)
       PROVE  Keeps
  BY <1>4, <1>11 DEF GateOpen, GateAsk, GateLocked, GateBegin
<1>12. CASE UNCHANGED gateVars
  BY <1>4, <1>12 DEF gateVars
<1> QED
  BY <1>2, <1>3, <1>5, <1>6, <1>7, <1>8, <1>9, <1>10, <1>11, <1>12 DEF GateNext, GateStep

\* So a vote that counts keeps counting, and a stale decide() stays justified.
LEMMA VotesStay ==
  ASSUME Keeps, NEW i \in Ids, NEW p, Exists(i), VotedBy(i, p)
  PROVE  VotedBy(i, p)'
  BY DEF Keeps, VotedBy

LEMMA JustifiedStays ==
  ASSUME Keeps, NEW i \in Ids, Exists(i), Justified(i)
  PROVE  Justified(i)'
<1>1. \A p : VotedBy(i, p) => VotedBy(i, p)'
  BY VotesStay
<1> QED BY <1>1 DEF Keeps, Justified

LEMMA UpdateStaysJustified ==
  ASSUME Keeps, NEW d \in Updates, UpdateJustified(d)
  PROVE  UpdateJustified(d)'
<1>1. d.id \in Ids /\ Exists(d.id)
  BY DEF Updates, UpdateJustified
<1>2. VotedBy(d.id, d.first) => VotedBy(d.id, d.first)'
  BY <1>1, VotesStay
<1> QED BY <1>1, <1>2 DEF Keeps, UpdateJustified

\* decide() computes a justified update from the row it reads.
LEMMA DecisionJustified ==
  ASSUME GateInv, NEW i \in Ids, NEW u \in Users, NEW approve \in BOOLEAN, NEW proof \in BOOLEAN,
         Exists(i), Decision(i, u, approve, proof) # None
  PROVE  UpdateJustified(Decision(i, u, approve, proof))
<1> DEFINE d == Decision(i, u, approve, proof)
           a == row[i]
<1> SUFFICES UpdateJustified(d)
  OBVIOUS
<1>1. a \in Rows
  BY DEF GateInv, GateTypeOK, Exists
<1>2. <<u, proof>> \in Users \X BOOLEAN /\ <<u, proof>>[1] = u /\ <<u, proof>>[2] = proof
  OBVIOUS
<1>3. d \in Updates /\ d.id = i
  BY DecisionType DEF GateInv
<1>4. CASE d.state = "pending_second"
  <2>1. a.policy = "two_person" /\ u # a.by /\ d.vote = <<u, proof>> /\ d.first = u
    BY <1>1, <1>4 DEF Decision, Rows, Open, Closed
  <2> QED BY <1>2, <1>3, <1>4, <2>1 DEF UpdateJustified
<1>5. CASE d.state = "approved"
  <2>1. /\ u # a.by /\ d.vote = <<u, proof>> /\ d.first = a.first
        /\ a.policy = "two_person" => a.state = "pending_second" /\ u # a.first
        /\ a.policy = "single_second_factor" => proof = TRUE
    BY <1>1, <1>5 DEF Decision, Rows, Open, Closed
  <2>2. a.policy = "two_person" => a.first \in Users /\ VotedBy(i, a.first)
    BY <2>1 DEF GateInv, RowsJustified
  <2> HIDE DEF d
  <2> QED BY <1>2, <1>3, <1>5, <2>1, <2>2 DEF UpdateJustified
<1>6. CASE d.state \notin {"pending_second", "approved"}
  <2> HIDE DEF d
  <2> QED BY <1>3, <1>6 DEF UpdateJustified
<1> QED BY <1>4, <1>5, <1>6

LEMMA VotesFiniteStep ==
  ASSUME GateInv, [GateNext]_gateVars
  PROVE  VotesFinite'
<1>1. ASSUME NEW s \in Deciders, DecideCommit(s) PROVE VotesFinite'
  <2>2. \A j \in Ids : votes'[j] = votes[j] \/ \E x : votes'[j] = votes[j] \cup {x}
    BY <1>1, DecideCommitFacts
  <2>3. \A j \in Ids : IsFiniteSet(votes[j])
    BY DEF GateInv, VotesFinite
  <2>4. ASSUME NEW j \in Ids PROVE IsFiniteSet(votes'[j])
    <3>1. CASE votes'[j] = votes[j]
      BY <2>3, <3>1
    <3>2. ASSUME NEW x, votes'[j] = votes[j] \cup {x} PROVE IsFiniteSet(votes'[j])
      BY <2>3, <3>2, FS_AddElement, Zenon
    <3> QED BY <2>2, <3>1, <3>2
  <2> QED BY <2>4 DEF VotesFinite
<1>2. ASSUME UNCHANGED votes PROVE VotesFinite'
  BY <1>2 DEF GateInv, VotesFinite
<1> QED
  BY <1>1, <1>2 DEF GateNext, GateStep, gateVars, Request, TimeOut, DecideRead, SweepRead, SweepCommit,
     GateBegin, GateOpen, GateSelfApprove, GateAsk, GateRequest, GateLocked

LEMMA SweptExistStep ==
  ASSUME GateInv, [GateNext]_gateVars
  PROVE  SweptExist'
<1>1. Keeps /\ overdue \subseteq Ids /\ sweep \subseteq Ids
  BY StepKeeps DEF GateInv, GateTypeOK
<1>2. ASSUME overdue' \cup sweep' \subseteq overdue \cup sweep PROVE SweptExist'
  BY <1>1, <1>2 DEF GateInv, SweptExist, Keeps
<1>3. ASSUME NEW i \in Ids, TimeOut(i) PROVE SweptExist'
  BY <1>1, <1>3 DEF GateInv, SweptExist, Keeps, TimeOut
<1>4. CASE SweepRead
  BY <1>2, <1>4 DEF SweepRead
<1>5. CASE SweepCommit
  BY <1>2, <1>5 DEF SweepCommit
<1>6. ASSUME UNCHANGED <<overdue, sweep>> PROVE SweptExist'
  BY <1>2, <1>6
<1> QED
  BY <1>3, <1>4, <1>5, <1>6 DEF GateNext, GateStep, gateVars, Request, DecideRead, DecideCommit,
     GateBegin, GateOpen, GateSelfApprove, GateAsk, GateRequest, GateLocked

LEMMA RowsJustifiedStep ==
  ASSUME GateInv, [GateNext]_gateVars
  PROVE  RowsJustified'
<1> DEFINE Good(i) == /\ row[i].state = "approved" => Justified(i)
                      /\ row[i].state = "pending_second" =>
                            /\ row[i].policy = "two_person" /\ row[i].first \in Users
                            /\ VotedBy(i, row[i].first)
<1>1. Keeps /\ RowsJustified
  BY StepKeeps DEF GateInv
<1>2. ASSUME NEW i \in Ids, Exists(i), row'[i] = row[i] PROVE Good(i)'
  <2>1. Good(i)
    BY <1>1, <1>2 DEF RowsJustified
  <2>2. Justified(i) => Justified(i)'
    BY <1>1, <1>2, JustifiedStays
  <2>3. VotedBy(i, row[i].first) => VotedBy(i, row[i].first)'
    BY <1>1, <1>2, VotesStay
  <2> QED BY <1>2, <2>1, <2>2, <2>3 DEF VotedBy
<1>3. ASSUME UNCHANGED row PROVE RowsJustified'
  BY <1>2, <1>3 DEF RowsJustified, Exists
<1>4. ASSUME NEW i \in Ids, NEW u \in Users, NEW k \in Kinds, NEW policy \in Policies,
             NEW state \in {"pending", "approved"},
             row' = [row EXCEPT ![i] = NewRow(u, k, policy, state)],
             state = "approved" => policy = "single" /\ u \in Approvers
      PROVE  RowsJustified'
  <2>1. row \in [Ids -> Rows \cup {None}]
    BY DEF GateInv, GateTypeOK
  <2>2. row'[i] = NewRow(u, k, policy, state) /\ \A j \in Ids : j # i => row'[j] = row[j]
    BY <1>4, <2>1
  <2>3. Good(i)'
    BY <1>4, <2>2 DEF NewRow, Justified
  <2>4. \A j \in Ids : j # i /\ Exists(j)' => Good(j)'
    BY <1>2, <2>2 DEF Exists
  <2> QED BY <2>3, <2>4 DEF RowsJustified
<1>5. ASSUME NEW i \in Ids, NEW u \in Users, NEW k \in Kinds, NEW policy \in Policies,
             Request(i, u, k, policy)
      PROVE  RowsJustified'
  BY <1>4, <1>5 DEF Request
<1>6. ASSUME NEW c \in Calls, NEW i \in Ids, GateSelfApprove(c, i) PROVE RowsJustified'
  <2>1. call[c].by \in Users /\ call[c].kind \in Kinds
    BY <1>6 DEF GateInv, SentJustified, GateSelfApprove
  <2> QED BY <1>4, <1>6, <2>1 DEF GateSelfApprove, Policies
<1>7. ASSUME NEW c \in Calls, NEW i \in Ids, GateRequest(c, i) PROVE RowsJustified'
  <2>1. call[c].by \in Users /\ call[c].kind \in Kinds
    BY <1>7 DEF GateInv, SentJustified, GateRequest
  <2> QED BY <1>4, <1>7, <2>1 DEF GateRequest, Policies
<1>8. CASE SweepCommit
  <2>1. \A i \in Ids : i \in sweep => Good(i)'
    BY <1>8, SweepCommitFacts
  <2>2. \A i \in Ids : i \notin sweep /\ Exists(i)' => Good(i)'
    BY <1>2, <1>8, SweepCommitFacts DEF Exists
  <2> QED BY <2>1, <2>2 DEF RowsJustified
<1>9. ASSUME NEW s \in Deciders, DecideCommit(s) PROVE RowsJustified'
  <2>0. PICK d : d = update[s]
    OBVIOUS
  <2> DEFINE i == d.id
  <2>1. /\ d \in Updates /\ i \in Ids /\ UpdateJustified(d)
        /\ row'[i].by = row[i].by /\ row'[i].policy = row[i].policy /\ row'[i].state = d.state
        /\ row'[i].first = IF d.state = "pending_second" THEN d.first ELSE row[i].first
        /\ \A j \in Ids : j # i => row'[j] = row[j]
        /\ votes'[i] = IF d.vote = None THEN votes[i] ELSE votes[i] \cup {d.vote}
        /\ row[i] \in Rows
    BY <1>9, <2>0, DecideCommitFacts
  <2>2. Exists(i) /\ (d.state \in {"pending_second", "approved"} =>
                         /\ d.vote \in votes'[i] /\ d.vote[1] \in Users
                         /\ VotedBy(i, d.vote[1])')
    BY <2>1, GateAssumption DEF UpdateJustified, VotedBy
  <2>3. VotedBy(i, d.first) => VotedBy(i, d.first)'
    BY <1>1, <2>1, <2>2, VotesStay
  <2>4. d.state = "approved" => Justified(i)'
    <3>1. ASSUME d.state = "approved", row[i].policy = "two_person"
          PROVE  \E p \in Users, q \in Users : p # q /\ VotedBy(i, p)' /\ VotedBy(i, q)'
      BY <2>1, <2>2, <2>3, <3>1 DEF UpdateJustified
    <3>2. ASSUME d.state = "approved", row[i].policy = "single_second_factor"
          PROVE  \E v \in votes'[i] : v[1] # row'[i].by /\ v[2] = TRUE
      BY <2>1, <2>2, <3>2 DEF UpdateJustified
    <3>3. ASSUME d.state = "approved", row[i].policy = "single"
          PROVE  \E p \in Users : VotedBy(i, p)'
      BY <2>2, <3>3
    <3> QED BY <2>1, <3>1, <3>2, <3>3 DEF Justified
  <2>5. d.state = "pending_second" => /\ row'[i].policy = "two_person" /\ row'[i].first \in Users
                                      /\ VotedBy(i, d.first)' /\ row'[i].first = d.first
    BY <2>1, <2>2 DEF UpdateJustified
  <2>6. Good(i)'
    BY <2>1, <2>4, <2>5 DEF VotedBy
  <2>7. \A j \in Ids : j # i /\ Exists(j)' => Good(j)'
    BY <1>2, <2>1 DEF Exists
  <2> QED BY <2>6, <2>7 DEF RowsJustified
<1> HIDE DEF Good
<1> QED
  BY <1>3, <1>5, <1>6, <1>7, <1>8, <1>9 DEF GateNext, GateStep, gateVars, TimeOut, DecideRead, SweepRead,
     GateBegin, GateOpen, GateAsk, GateLocked

LEMMA UpdatesJustifiedStep ==
  ASSUME GateInv, [GateNext]_gateVars
  PROVE  UpdatesJustified'
<1>1. Keeps /\ GateTypeOK /\ UpdatesJustified
  BY StepKeeps DEF GateInv
<1>2. ASSUME NEW s \in Deciders, update'[s] = update[s] \/ update'[s] = None,
             update'[s] # None
      PROVE  UpdateJustified(update[s])'
  <2>1. PICK d : d = update[s]
    OBVIOUS
  <2>2. d \in Updates /\ UpdateJustified(d)
    BY <1>1, <1>2, <2>1 DEF GateTypeOK, UpdatesJustified
  <2>3. UpdateJustified(d)'
    BY <1>1, <2>2, UpdateStaysJustified
  <2> QED BY <1>2, <2>1, <2>3
<1>3. ASSUME UNCHANGED update PROVE UpdatesJustified'
  BY <1>2, <1>3 DEF UpdatesJustified
<1>4. ASSUME NEW s \in Deciders, DecideCommit(s) PROVE UpdatesJustified'
  <2>1. \A t \in Deciders : update'[t] = update[t] \/ update'[t] = None
    BY <1>1, <1>4 DEF GateTypeOK, DecideCommit
  <2> QED BY <1>2, <2>1 DEF UpdatesJustified
<1>5. ASSUME NEW s \in Deciders, NEW i \in Ids, NEW u \in Users, NEW approve \in BOOLEAN,
             NEW proof \in BOOLEAN, DecideRead(s, i, u, approve, proof)
      PROVE  UpdatesJustified'
  <2>1. PICK d : d = Decision(i, u, approve, proof)
    OBVIOUS
  <2>2. d \in Updates /\ UpdateJustified(d)
    BY <1>1, <1>5, <2>1, DecisionType, DecisionJustified DEF DecideRead
  <2>3. UpdateJustified(d)'
    BY <1>1, <2>2, UpdateStaysJustified
  <2>4. update'[s] = d /\ \A t \in Deciders : t # s => update'[t] = update[t]
    BY <1>1, <1>5, <2>1 DEF DecideRead, GateTypeOK
  <2> QED BY <1>2, <2>3, <2>4 DEF UpdatesJustified
<1> QED
  BY <1>3, <1>4, <1>5 DEF GateNext, GateStep, gateVars, Request, TimeOut, SweepRead, SweepCommit,
     GateBegin, GateOpen, GateSelfApprove, GateAsk, GateRequest, GateLocked

LEMMA SentJustifiedStep ==
  ASSUME GateInv, [GateNext]_gateVars
  PROVE  SentJustified'
<1> DEFINE On(c, i) == /\ i \in Ids /\ Exists(i)
                       /\ row[i].by = call[c].by /\ row[i].kind = call[c].kind
                       /\ \E p \in Users : VotedBy(i, p)
           Good(c) == /\ call[c].pc # "idle" => call[c].by \in Users /\ call[c].kind \in Kinds
                      /\ (call[c].pc = "sent" /\ call[c].by \notin Approvers) => On(c, call[c].using)
<1>1. Keeps /\ GateTypeOK /\ RowsJustified /\ \A c \in Calls : Good(c)
  BY StepKeeps DEF GateInv, SentJustified
<1>2. ASSUME NEW c \in Calls, NEW i, On(c, i), call'[c].by = call[c].by,
             call'[c].kind = call[c].kind
      PROVE  On(c, i)'
  <2>1. \A p : VotedBy(i, p) => VotedBy(i, p)'
    BY <1>1, <1>2, VotesStay
  <2> QED BY <1>1, <1>2, <2>1 DEF Keeps
<1>3. ASSUME NEW c \in Calls, call'[c] = call[c] PROVE Good(c)'
  <2>1. PICK i : i = call[c].using
    OBVIOUS
  <2>2. On(c, i) => On(c, i)'
    BY <1>2, <1>3
  <2> QED BY <1>1, <1>3, <2>1, <2>2
<1>4. ASSUME UNCHANGED call PROVE SentJustified'
  BY <1>3, <1>4 DEF SentJustified
<1>5. ASSUME NEW c \in Calls, Good(c)', \A o \in Calls : o # c => call'[o] = call[o]
      PROVE  SentJustified'
  BY <1>3, <1>5 DEF SentJustified
<1>6. ASSUME NEW c \in Calls, NEW u \in Users, NEW k \in Kinds, GateBegin(c, u, k)
      PROVE  SentJustified'
  BY <1>1, <1>5, <1>6 DEF GateBegin, GateTypeOK
<1>7. ASSUME NEW c \in Calls, GateOpen(c) PROVE SentJustified'
  <2>1. PICK i \in Granting(c) : Finish(c, "sent", i)
    BY <1>7 DEF GateOpen
  <2>2. i \in Ids /\ Exists(i) /\ Justified(i) /\ row[i] \in Rows
    BY <1>1, <2>1 DEF Granting, RowsJustified, GateTypeOK, Exists
  <2>3. row[i].by \notin Approvers => \E p \in Users : VotedBy(i, p)
    <3>1. row[i].policy = "single_second_factor" => \E p \in Users : VotedBy(i, p)
      BY <1>1, <2>2 DEF Justified, VotedBy, GateTypeOK
    <3> QED BY <2>2, <3>1 DEF Justified, Rows, Policies
  <2>4. row[i].by \notin Approvers => On(c, i)
    BY <2>1, <2>2, <2>3 DEF Granting
  <2>5. /\ call'[c].pc = "sent" /\ call'[c].by = call[c].by /\ call'[c].kind = call[c].kind
        /\ call'[c].using = i /\ \A o \in Calls : o # c => call'[o] = call[o]
    BY <1>1, <2>1, <2>2, FinishFacts
  <2>6. call[c].by = row[i].by /\ call[c].by \in Users /\ call[c].kind \in Kinds
    BY <1>1, <1>7, <2>1 DEF Granting, GateOpen
  <2>7. On(c, i) => On(c, i)'
    BY <1>2, <2>5
  <2>8. Good(c)'
    BY <2>4, <2>5, <2>6, <2>7
  <2> QED BY <1>5, <2>5, <2>8
<1>8. ASSUME NEW c \in Calls, NEW i \in Ids \cup {None}, NEW pc \in {"sent", "pending", "failed"},
             call[c].pc # "idle", Finish(c, pc, i), pc # "sent" \/ call[c].by \in Approvers
      PROVE  SentJustified'
  <2>1. /\ call'[c].pc = pc /\ call'[c].by = call[c].by /\ call'[c].kind = call[c].kind
        /\ \A o \in Calls : o # c => call'[o] = call[o]
    BY <1>1, <1>8, FinishFacts
  <2>2. Good(c)'
    BY <1>1, <1>8, <2>1
  <2> QED BY <1>5, <2>1, <2>2
<1>9. ASSUME NEW c \in Calls, NEW i \in Ids, GateSelfApprove(c, i) PROVE SentJustified'
  BY <1>8, <1>9 DEF GateSelfApprove
<1>10. ASSUME NEW c \in Calls, NEW i \in Ids, GateRequest(c, i) PROVE SentJustified'
  BY <1>8, <1>10 DEF GateRequest
<1>11. ASSUME NEW c \in Calls, GateLocked(c) PROVE SentJustified'
  BY <1>8, <1>11 DEF GateLocked
<1>12. ASSUME NEW c \in Calls, GateAsk(c) PROVE SentJustified'
  <2>1. call[c] \in CallStates /\ call' = [call EXCEPT ![c] = [call[c] EXCEPT !.pc = "asking"]]
    BY <1>1, <1>12 DEF GateTypeOK, GateAsk
  <2>2. /\ call'[c].pc = "asking" /\ call'[c].by = call[c].by /\ call'[c].kind = call[c].kind
        /\ \A o \in Calls : o # c => call'[o] = call[o]
    BY <1>1, <2>1 DEF GateTypeOK, CallStates
  <2>3. Good(c)'
    BY <1>1, <1>12, <2>2 DEF GateAsk
  <2> QED BY <1>5, <2>2, <2>3
<1> HIDE DEF Good, On
<1> QED
  BY <1>4, <1>6, <1>7, <1>9, <1>10, <1>11, <1>12 DEF GateNext, GateStep, gateVars, Request, TimeOut,
     DecideRead, DecideCommit, SweepRead, SweepCommit

LEMMA GateInvInit == GateInit => GateInv
<1> SUFFICES ASSUME GateInit PROVE GateInv
  OBVIOUS
<1>1. GateTypeOK
  BY GateTypeInit
<1>2. VotesFinite
  BY FS_EmptySet DEF GateInit, VotesFinite
<1>3. SweptExist /\ RowsJustified /\ UpdatesJustified /\ SentJustified
  BY DEF GateInit, SweptExist, RowsJustified, UpdatesJustified, SentJustified, Exists
<1> QED BY <1>1, <1>2, <1>3 DEF GateInv

LEMMA GateInvStep == GateInv /\ [GateNext]_gateVars => GateInv'
  BY GateTypeStep, VotesFiniteStep, SweptExistStep, RowsJustifiedStep, UpdatesJustifiedStep,
     SentJustifiedStep DEF GateInv

LEMMA GateInvHolds == GateSpec => []GateInv
  BY GateInvInit, GateInvStep, PTL DEF GateSpec

(***************************************************************************)
(* The theorems.                                                             *)
(***************************************************************************)
\* Every row, pending update and dispatch call keeps the shape of the columns and
\* local variables it stands for (approvals table, decide(), Dispatcher.dispatch).
THEOREM GateTypeCorrect == GateSpec => []GateTypeOK
<1>1. GateInv => GateTypeOK
  BY DEF GateInv
<1> QED BY <1>1, GateInvHolds, PTL

\* Two different members make a finite set have at least two.
LEMMA TwoMembers ==
  ASSUME NEW S, IsFiniteSet(S), NEW p \in S, NEW q \in S, p # q
  PROVE  Cardinality(S) >= 2
<1>1. IsFiniteSet({p}) /\ Cardinality({p}) = 1
  BY FS_Singleton
<1>2. Cardinality({p} \cup {q}) = 2
  BY <1>1, FS_AddElement
<1>3. ({p} \cup {q}) \in SUBSET S
  OBVIOUS
<1>4. Cardinality({p} \cup {q}) <= Cardinality(S)
  BY <1>3, FS_Subset
<1>5. Cardinality(S) \in Nat
  BY FS_CardinalityType
<1> QED BY <1>2, <1>4, <1>5

LEMMA OthersFinite ==
  ASSUME NEW V, NEW b, IsFiniteSet(V)
  PROVE  IsFiniteSet({v[1] : v \in V} \ {b})
<1> DEFINE f == [v \in V |-> v[1]]
           W == {v[1] : v \in V}
<1>1. f \in Surjection(V, W)
  BY DEF Surjection
<1>2. IsFiniteSet(W)
  BY <1>1, FS_Surjection
<1> QED BY <1>2, FS_Difference

\* Whatever decide() calls, sweeps and dispatches overlap, an approved row has the
\* decisions that ApprovalEngine.decide asks for under its policy.
THEOREM ApprovedMeetsPolicy == GateSpec => []ApprovalMeetsPolicy
<1>1. ASSUME GateInv, NEW i \in Ids, Exists(i), row[i].state = "approved"
      PROVE  /\ row[i].policy = "two_person" => Cardinality(Others(i)) >= 2
             /\ row[i].policy = "single_second_factor" =>
                   \E v \in votes[i] : v[1] # row[i].by /\ v[2]
             /\ row[i].policy = "single" => Others(i) # {} \/ row[i].by \in Approvers
             /\ row[i].policy \in Policies
  <2>1. Justified(i) /\ IsFiniteSet(votes[i]) /\ row[i] \in Rows
    BY <1>1 DEF GateInv, RowsJustified, VotesFinite, GateTypeOK, Exists
  <2>2. \A p : VotedBy(i, p) <=> p \in Others(i)
    BY DEF VotedBy, Others
  <2>3. IsFiniteSet(Others(i))
    BY <2>1, OthersFinite DEF Others
  <2>4. row[i].policy = "two_person" => Cardinality(Others(i)) >= 2
    BY <2>1, <2>2, <2>3, TwoMembers DEF Justified
  <2>5. row[i].policy = "single" => Others(i) # {} \/ row[i].by \in Approvers
    BY <2>1, <2>2 DEF Justified
  <2>6. row[i].policy = "single_second_factor" =>
           \E v \in votes[i] : v[1] # row[i].by /\ v[2]
    BY <2>1 DEF Justified
  <2> QED BY <2>1, <2>4, <2>5, <2>6 DEF Rows
<1>2. GateInv => ApprovalMeetsPolicy
  BY <1>1 DEF ApprovalMeetsPolicy, Policies
<1> QED BY <1>2, GateInvHolds, PTL

\* Dispatcher.dispatch lets a high-risk command of a principal without
\* task:approve through only on somebody else's decision.
THEOREM SentOnAnothersDecision == GateSpec => []GatedByAnother
<1>1. GateInv => GatedByAnother
  <2>1. \A i, p : VotedBy(i, p) => p \in Others(i)
    BY DEF VotedBy, Others
  <2> QED BY <2>1 DEF GateInv, SentJustified, GatedByAnother
<1> QED BY <1>1, GateInvHolds, PTL

--------------------------------------------------------------------------------
(***************************************************************************)
(* The delivery of commands.                                               *)
(***************************************************************************)
(***************************************************************************)
(* What the sequence operators do to the set of a sequence's elements.       *)
(***************************************************************************)
LEMMA ElemsEmpty == Elems(<<>>) = {}
  BY DEF Elems

LEMMA ElemsSubset ==
  ASSUME NEW S, NEW s \in Seq(S)
  PROVE  Elems(s) \subseteq S
  BY DEF Elems

LEMMA ElemsAppend ==
  ASSUME NEW S, NEW s \in Seq(S), NEW c \in S
  PROVE  /\ Append(s, c) \in Seq(S)
         /\ Len(Append(s, c)) = Len(s) + 1
         /\ Elems(Append(s, c)) = Elems(s) \cup {c}
<1>1. /\ Append(s, c) \in Seq(S)
      /\ Len(Append(s, c)) = Len(s) + 1
      /\ \A i \in 1..Len(s) : Append(s, c)[i] = s[i]
      /\ Append(s, c)[Len(s) + 1] = c
  BY AppendProperties
<1>2. DOMAIN s = 1..Len(s) /\ DOMAIN Append(s, c) = 1..(Len(s) + 1) /\ Len(s) \in Nat
  BY <1>1, LenProperties
<1> QED
  BY <1>1, <1>2 DEF Elems

LEMMA ElemsTail ==
  ASSUME NEW S, NEW s \in Seq(S), s # <<>>
  PROVE  /\ Head(s) \in S /\ Tail(s) \in Seq(S)
         /\ Len(Tail(s)) = Len(s) - 1
         /\ Elems(s) = {Head(s)} \cup Elems(Tail(s))
<1>1. /\ Head(s) \in S /\ Tail(s) \in Seq(S)
      /\ Len(Tail(s)) = Len(s) - 1
      /\ \A i \in 1..Len(Tail(s)) : Tail(s)[i] = s[i + 1]
      /\ Head(s) = s[1]
  BY HeadTailProperties
<1>2. DOMAIN s = 1..Len(s) /\ DOMAIN Tail(s) = 1..Len(Tail(s)) /\ Len(s) \in Nat /\ Len(s) > 0
  BY <1>1, LenProperties, EmptySeq
<1>3. Elems(s) \subseteq {Head(s)} \cup Elems(Tail(s))
  <2>1. ASSUME NEW i \in 1..Len(s) PROVE s[i] \in {Head(s)} \cup Elems(Tail(s))
    <3>1. CASE i = 1
      BY <3>1, <1>1
    <3>2. CASE i # 1
      <4>1. i - 1 \in 1..Len(Tail(s)) /\ Tail(s)[i - 1] = s[i]
        BY <3>2, <1>1, <1>2
      <4> QED BY <4>1, <1>2 DEF Elems
    <3> QED BY <3>1, <3>2
  <2> QED BY <2>1, <1>2 DEF Elems
<1>4. {Head(s)} \cup Elems(Tail(s)) \subseteq Elems(s)
  <2>1. \A i \in 1..Len(Tail(s)) : i + 1 \in 1..Len(s)
    BY <1>1, <1>2
  <2>2. 1 \in 1..Len(s)
    BY <1>2
  <2> QED BY <2>1, <2>2, <1>1, <1>2 DEF Elems
<1> QED
  BY <1>1, <1>3, <1>4

LEMMA ElemsConcat ==
  ASSUME NEW S, NEW s \in Seq(S), NEW t \in Seq(S)
  PROVE  /\ s \o t \in Seq(S)
         /\ Elems(s \o t) = Elems(s) \cup Elems(t)
<1>1. /\ s \o t \in Seq(S)
      /\ Len(s \o t) = Len(s) + Len(t)
      /\ \A i \in 1..(Len(s) + Len(t)) :
            (s \o t)[i] = IF i <= Len(s) THEN s[i] ELSE t[i - Len(s)]
  BY ConcatProperties
<1>2. /\ DOMAIN s = 1..Len(s) /\ DOMAIN t = 1..Len(t)
      /\ DOMAIN (s \o t) = 1..(Len(s) + Len(t))
      /\ Len(s) \in Nat /\ Len(t) \in Nat
  BY <1>1, LenProperties
<1>3. Elems(s) \cup Elems(t) \subseteq Elems(s \o t)
  <2>1. ASSUME NEW i \in 1..Len(s) PROVE s[i] \in Elems(s \o t)
    <3>1. i \in 1..(Len(s) + Len(t)) /\ (s \o t)[i] = s[i]
      BY <1>1, <1>2
    <3> QED BY <3>1, <1>2 DEF Elems
  <2>2. ASSUME NEW i \in 1..Len(t) PROVE t[i] \in Elems(s \o t)
    <3>1. i + Len(s) \in 1..(Len(s) + Len(t)) /\ (s \o t)[i + Len(s)] = t[i]
      BY <1>1, <1>2
    <3> QED BY <3>1, <1>2 DEF Elems
  <2> QED BY <2>1, <2>2, <1>2 DEF Elems
<1>4. Elems(s \o t) \subseteq Elems(s) \cup Elems(t)
  <2>1. ASSUME NEW i \in 1..(Len(s) + Len(t)) PROVE (s \o t)[i] \in Elems(s) \cup Elems(t)
    <3>1. CASE i <= Len(s)
      BY <3>1, <1>1, <1>2 DEF Elems
    <3>2. CASE i > Len(s)
      <4>1. i - Len(s) \in 1..Len(t) /\ (s \o t)[i] = t[i - Len(s)]
        BY <3>2, <1>1, <1>2
      <4> QED BY <4>1, <1>2 DEF Elems
    <3> QED BY <3>1, <3>2, <1>2
  <2> QED BY <2>1, <1>2 DEF Elems
<1> QED BY <1>1, <1>3, <1>4

\* Cutting a sequence in two loses no element.
LEMMA ElemsCut ==
  ASSUME NEW S, NEW s \in Seq(S), NEW n \in 0..Len(s)
  PROVE  /\ SubSeq(s, 1, n) \in Seq(S) /\ Drop(s, n) \in Seq(S)
         /\ Elems(s) = Elems(SubSeq(s, 1, n)) \cup Elems(Drop(s, n))
         /\ n = Len(s) => Drop(s, n) = <<>>
<1>1. Len(s) \in Nat /\ n \in Nat
  BY LenProperties
<1>2. s \in Seq(S) /\ SubSeq(s, 1, n) \in Seq(S) /\ Drop(s, n) \in Seq(S)
  BY <1>1 DEF Drop
<1>3. SubSeq(s, 1, n) \o SubSeq(s, n + 1, Len(s)) = SubSeq(s, 1, Len(s))
  <2>1. 1 \in 1..(Len(s) + 1) /\ n \in (1 - 1)..Len(s) /\ Len(s) \in n..Len(s)
    BY <1>1
  <2> QED BY <2>1, ConcatAdjacentSubSeq
<1>4. SubSeq(s, 1, Len(s)) = s
  BY SubSeqFull
<1>5. n = Len(s) => Drop(s, n) = <<>>
  BY <1>1, SubSeqEmpty, n + 1 \in Int, Len(s) \in Int DEF Drop
<1>6. Elems(SubSeq(s, 1, n) \o Drop(s, n)) = Elems(SubSeq(s, 1, n)) \cup Elems(Drop(s, n))
  BY ZenonT(30), <1>2, ElemsConcat
<1> QED BY <1>2, <1>3, <1>4, <1>5, <1>6 DEF Drop

\* Popping a key removes at most that key.
LEMMA ElemsWithout ==
  ASSUME NEW S, NEW s \in Seq(S), NEW c
  PROVE  /\ Without(s, c) \in Seq(S)
         /\ Elems(Without(s, c)) \subseteq Elems(s)
         /\ Elems(s) \subseteq Elems(Without(s, c)) \cup {c}
<1>1. CASE c \notin Elems(s)
  BY <1>1 DEF Without
<1>2. CASE c \in Elems(s)
  <2> DEFINE i == CHOOSE i \in DOMAIN s : s[i] = c
  <2>1. i \in DOMAIN s /\ s[i] = c
    BY <1>2 DEF Elems
  <2>2. Len(s) \in Nat /\ DOMAIN s = 1..Len(s) /\ i \in 1..Len(s)
    BY <2>1, LenProperties
  <2> DEFINE a == SubSeq(s, 1, i - 1)
             b == SubSeq(s, i + 1, Len(s))
  <2>3. Without(s, c) = a \o b
    BY <1>2 DEF Without
  <2> HIDE DEF i
  <2>4. a \in Seq(S) /\ b \in Seq(S)
    BY <2>2
  <2>5. /\ Len(a) = i - 1 /\ Len(b) = Len(s) - i
        /\ \A k \in 1..(i - 1) : a[k] = s[k]
        /\ \A k \in 1..(Len(s) - i) : b[k] = s[i + k]
    <3>1. /\ Len(a) = i - 1
          /\ \A k \in 1..(i - 1) : a[k] = s[k]
      BY <2>2
    <3>2. /\ Len(b) = Len(s) - i
          /\ \A k \in 1..(Len(s) - i) : b[k] = s[i + k]
      <4>1. \A k \in (i + 1)..Len(s) : s[k] \in S
        BY <2>2
      <4>2. /\ Len(b) = IF i + 1 <= Len(s) THEN Len(s) - (i + 1) + 1 ELSE 0
            /\ \A k \in 1..(Len(s) - (i + 1) + 1) : b[k] = s[(i + 1) + k - 1]
        <5>1. i + 1 \in Int /\ Len(s) \in Int
          BY <2>2
        <5> QED BY <4>1, <5>1, SubSeqProperties
      <4> HIDE DEF a, b
      <4>3. Len(b) = Len(s) - i
        <5>1. Len(b) = IF i + 1 <= Len(s) THEN Len(s) - (i + 1) + 1 ELSE 0
          BY <4>2
        <5>2. CASE i + 1 <= Len(s)
          BY <5>1, <5>2, <2>2
        <5>3. CASE ~(i + 1 <= Len(s))
          <6>1. i \in Nat /\ Len(s) \in Nat /\ i <= Len(s)
            BY <2>2
          <6>2. Len(s) = i
            BY <5>3, <6>1
          <6>3. Len(b) = 0
            BY <5>1, <5>3
          <6> QED BY <6>1, <6>2, <6>3
        <5> QED BY <5>2, <5>3
      <4>4. ASSUME NEW k \in 1..(Len(s) - i) PROVE b[k] = s[i + k]
        <5>1. k \in 1..(Len(s) - (i + 1) + 1) /\ (i + 1) + k - 1 = i + k
          BY <2>2
        <5> QED BY <4>2, <5>1
      <4> QED BY <4>3, <4>4
    <3> QED BY <3>1, <3>2
  <2> HIDE DEF a, b
  <2>6. DOMAIN a = 1..(i - 1) /\ DOMAIN b = 1..(Len(s) - i)
    BY <2>4, <2>5, LenProperties
  <2>7. Elems(a) \subseteq Elems(s) /\ Elems(b) \subseteq Elems(s)
    <3>1. \A k \in 1..(i - 1) : k \in 1..Len(s)
      BY <2>2
    <3>2. \A k \in 1..(Len(s) - i) : i + k \in 1..Len(s)
      BY <2>2
    <3>3. \A k \in DOMAIN a : a[k] = s[k] /\ k \in DOMAIN s
      BY <3>1, <2>2, <2>5, <2>6
    <3>4. \A k \in DOMAIN b : b[k] = s[i + k] /\ i + k \in DOMAIN s
      BY <3>2, <2>2, <2>5, <2>6
    <3>5. Elems(a) \subseteq Elems(s)
      BY Zenon, <3>3 DEF Elems
    <3>6. Elems(b) \subseteq Elems(s)
      BY Zenon, <3>4 DEF Elems
    <3> QED BY <3>5, <3>6
  <2>8. Elems(s) \subseteq Elems(a) \cup Elems(b) \cup {c}
    <3>1. ASSUME NEW k \in 1..Len(s) PROVE s[k] \in Elems(a) \cup Elems(b) \cup {c}
      <4>1. CASE k < i
        <5>1. k \in 1..(i - 1) /\ a[k] = s[k] BY <4>1, <2>2, <2>5
        <5> QED BY <5>1, <2>6 DEF Elems
      <4>2. CASE k = i
        BY <4>2, <2>1
      <4>3. CASE k > i
        <5>1. k - i \in 1..(Len(s) - i) /\ b[k - i] = s[k] BY <4>3, <2>2, <2>5
        <5> QED BY <5>1, <2>6 DEF Elems
      <4> QED BY <4>1, <4>2, <4>3, <2>2
    <3> QED BY <3>1, <2>2 DEF Elems
  <2> QED BY <2>3, <2>4, <2>7, <2>8, ElemsConcat
<1> QED BY <1>1, <1>2

\* The facts about Register that its type correctness and the invariants use.
LEMMA RegisterFacts ==
  ASSUME TypeOK
  PROVE  LET items == unacked \o queue
             taken == Least(orphans, Len(items))
         IN  /\ Drop(items, taken) \in Seq(Commands)
             /\ SubSeq(items, 1, taken) \in Seq(Commands)
             /\ taken \in Nat /\ orphans - taken \in Nat
             /\ Elems(unacked) \cup Elems(queue)
                  = Elems(SubSeq(items, 1, taken)) \cup Elems(Drop(items, taken))
             /\ orphans - taken > 0 => Drop(items, taken) = <<>>
<1> DEFINE items == unacked \o queue
           taken == Least(orphans, Len(items))
<1>1. items \in Seq(Commands) /\ Elems(items) = Elems(unacked) \cup Elems(queue)
  BY ElemsConcat DEF TypeOK, HostOK
<1>2. Len(items) \in Nat
  BY <1>1, LenProperties
<1>3. /\ taken \in 0..Len(items) /\ taken \in Nat /\ orphans - taken \in Nat
      /\ orphans - taken > 0 => taken = Len(items)
  BY <1>2 DEF TypeOK, HostOK, Least
<1> HIDE DEF items, taken
<1>4. /\ SubSeq(items, 1, taken) \in Seq(Commands) /\ Drop(items, taken) \in Seq(Commands)
      /\ Elems(items) = Elems(SubSeq(items, 1, taken)) \cup Elems(Drop(items, taken))
      /\ taken = Len(items) => Drop(items, taken) = <<>>
  BY <1>1, <1>3, ElemsCut
<1>5. QED
  BY <1>1, <1>3, <1>4 DEF items, taken

\* enqueue: the command is queued, or an orphan getter takes it.
LEMMA EnqueueFacts ==
  ASSUME TypeOK, NEW c \in Commands, Enqueue(c)
  PROVE  /\ HostOK'
         /\ unacked' = unacked
         /\ Elems(queue') \cup swallowed' = Elems(queue) \cup swallowed \cup {c}
         /\ Elems(queue) \subseteq Elems(queue') /\ swallowed \subseteq swallowed'
         /\ orphans' > 0 => orphans > 0 /\ queue' = queue
         /\ orphans = 0 => orphans' = 0
<1>1. CASE orphans > 0
  BY <1>1 DEF Enqueue, TypeOK, HostOK
<1>2. CASE ~(orphans > 0)
  <2>1. queue' = Append(queue, c) /\ UNCHANGED <<unacked, orphans, swallowed>>
    BY <1>2 DEF Enqueue
  <2>2. queue' \in Seq(Commands) /\ Elems(queue') = Elems(queue) \cup {c}
    BY <2>1, ElemsAppend DEF TypeOK, HostOK
  <2> QED BY <1>2, <2>1, <2>2 DEF TypeOK, HostOK
<1> QED BY <1>1, <1>2

\* The first run of the three tasks: the head of the queue moves to pull.
LEMMA StartTasksFacts ==
  ASSUME TypeOK, NEW cq, StartTasks(cq)
  PROVE  /\ queue' \in Seq(Commands) /\ pull' \in Commands \cup {NoCmd}
         /\ Elems(queue) \subseteq Elems(queue') \cup {pull'}
         /\ Elems(queue') \cup {pull'} \subseteq Elems(queue) \cup {NoCmd}
         /\ pull' # NoCmd => queue # <<>>
         /\ queue = <<>> => queue' = <<>>
         /\ phase' = "wait"
<1>1. CASE queue = <<>>
  BY <1>1 DEF StartTasks, TypeOK, HostOK
<1>2. CASE queue # <<>>
  <2>1. pull' = Head(queue) /\ queue' = Tail(queue) /\ phase' = "wait"
    BY <1>2 DEF StartTasks
  <2> QED BY <1>2, <2>1, ElemsTail DEF TypeOK, HostOK
<1> QED BY <1>1, <1>2

(***************************************************************************)
(* Type correctness.                                                         *)
(***************************************************************************)
LEMMA TypeStep == TypeOK /\ [Next]_vars => TypeOK'
<1> SUFFICES ASSUME TypeOK, [Next]_vars PROVE TypeOK'
  OBVIOUS
<1> USE ConstantsAssumption
<1>1. ASSUME NEW c \in Commands, Issue(c) PROVE TypeOK'
  <2>1. BridgeOK'
    BY <1>1, ElemsAppend, ElemsTail, EmptySeq DEF TypeOK, BridgeOK, Issue, bridgeVars
  <2>2. HostOK' /\ StreamOK' /\ AgentOK'
    BY <1>1 DEF TypeOK, HostOK, StreamOK, AgentOK, Issue, hostVars, taskVars, recvVars, linkVars, agentVars
  <2>3. FlagsOK' /\ CountersOK'
    BY <1>1 DEF TypeOK, FlagsOK, CountersOK, Issue, hostVars, taskVars, linkVars, countVars
  <2> QED BY <2>1, <2>2, <2>3 DEF TypeOK
<1>2. ASSUME NEW c \in Commands, CloseRow(c) PROVE TypeOK'
  <2>1. BridgeOK'
    BY <1>2 DEF TypeOK, BridgeOK, CloseRow, Fault, bridgeVars
  <2>2. HostOK' /\ StreamOK' /\ AgentOK'
    BY <1>2 DEF TypeOK, HostOK, StreamOK, AgentOK, CloseRow, Fault, hostVars, taskVars, recvVars, linkVars, agentVars
  <2>3. FlagsOK'
    BY <1>2 DEF TypeOK, FlagsOK, CloseRow, hostVars, taskVars, linkVars
  <2>4. CountersOK'
    BY <1>2 DEF TypeOK, CountersOK, CloseRow, Fault, countVars
  <2> QED BY <2>1, <2>2, <2>3, <2>4 DEF TypeOK
<1>3. ASSUME NEW c \in Commands, BridgeReplay(c) PROVE TypeOK'
  <2>1. BridgeOK'
    BY <1>3 DEF TypeOK, BridgeOK, BridgeReplay, Enqueue, bridgeVars
  <2>2. HostOK'
    BY <1>3, EnqueueFacts DEF BridgeReplay
  <2>3. StreamOK' /\ AgentOK'
    BY <1>3 DEF TypeOK, StreamOK, AgentOK, BridgeReplay, Enqueue, taskVars, recvVars, linkVars, agentVars
  <2>4. FlagsOK' /\ CountersOK'
    BY <1>3 DEF TypeOK, FlagsOK, CountersOK, BridgeReplay, Enqueue, hostVars, taskVars, linkVars, countVars
  <2> QED BY <2>1, <2>2, <2>3, <2>4 DEF TypeOK
<1>4. CASE BridgeSelect
  <2>1. BridgeOK'
    BY <1>4 DEF TypeOK, BridgeOK, BridgeSelect, bridgeVars
  <2>2. HostOK' /\ StreamOK' /\ AgentOK'
    BY <1>4 DEF TypeOK, HostOK, StreamOK, AgentOK, BridgeSelect, hostVars, taskVars, recvVars, linkVars, agentVars
  <2>3. FlagsOK' /\ CountersOK'
    BY <1>4 DEF TypeOK, FlagsOK, CountersOK, BridgeSelect, hostVars, taskVars, linkVars, countVars
  <2> QED BY <2>1, <2>2, <2>3 DEF TypeOK
<1>5. CASE BridgeReplayEnd
  <2>1. BridgeOK'
    BY <1>5 DEF TypeOK, BridgeOK, BridgeReplayEnd, bridgeVars
  <2>2. HostOK' /\ StreamOK' /\ AgentOK'
    BY <1>5 DEF TypeOK, HostOK, StreamOK, AgentOK, BridgeReplayEnd, hostVars, taskVars, recvVars, linkVars, agentVars
  <2>3. FlagsOK' /\ CountersOK'
    BY <1>5 DEF TypeOK, FlagsOK, CountersOK, BridgeReplayEnd, hostVars, taskVars, linkVars, countVars
  <2> QED BY <2>1, <2>2, <2>3 DEF TypeOK
<1>6. CASE BridgeReplayFails
  <2>1. BridgeOK'
    BY <1>6 DEF TypeOK, BridgeOK, BridgeReplayFails, Fault, bridgeVars
  <2>2. HostOK' /\ StreamOK' /\ AgentOK'
    BY <1>6 DEF TypeOK, HostOK, StreamOK, AgentOK, BridgeReplayFails, Fault, hostVars, taskVars, recvVars, linkVars, agentVars
  <2>3. FlagsOK'
    BY <1>6 DEF TypeOK, FlagsOK, BridgeReplayFails, hostVars, taskVars, linkVars
  <2>4. CountersOK'
    BY <1>6 DEF TypeOK, CountersOK, BridgeReplayFails, Fault, countVars
  <2> QED BY <2>1, <2>2, <2>3, <2>4 DEF TypeOK
<1>7. CASE BridgeForward
  <2>1. BridgeOK'
    BY <1>7, ElemsTail DEF TypeOK, BridgeOK, BridgeForward, Enqueue, bridgeVars
  <2>2. HostOK'
    <3>1. Head(bus) \in Commands /\ Enqueue(Head(bus))
      BY <1>7, ElemsTail DEF BridgeForward, TypeOK, BridgeOK
    <3> QED BY <3>1, EnqueueFacts
  <2>3. StreamOK' /\ AgentOK'
    BY <1>7 DEF TypeOK, StreamOK, AgentOK, BridgeForward, Enqueue, taskVars, recvVars, linkVars, agentVars
  <2>4. FlagsOK' /\ CountersOK'
    BY <1>7 DEF TypeOK, FlagsOK, CountersOK, BridgeForward, Enqueue, hostVars, taskVars, linkVars, countVars
  <2> QED BY <2>1, <2>2, <2>3, <2>4 DEF TypeOK
<1>8. CASE BridgeForwardFails
  <2>1. BridgeOK'
    BY <1>8, ElemsTail DEF TypeOK, BridgeOK, BridgeForwardFails, Fault, bridgeVars
  <2>2. HostOK' /\ StreamOK' /\ AgentOK'
    BY <1>8 DEF TypeOK, HostOK, StreamOK, AgentOK, BridgeForwardFails, Fault, hostVars, taskVars, recvVars, linkVars, agentVars
  <2>3. FlagsOK'
    BY <1>8 DEF TypeOK, FlagsOK, BridgeForwardFails, hostVars, taskVars, linkVars
  <2>4. CountersOK'
    BY <1>8 DEF TypeOK, CountersOK, BridgeForwardFails, Fault, countVars
  <2> QED BY <2>1, <2>2, <2>3, <2>4 DEF TypeOK
<1>9. CASE Connect
  <2>1. HostOK'
    BY <1>9, RegisterFacts, ElemsSubset DEF TypeOK, HostOK, Connect, Register, hostVars
  <2>2. StreamOK'
    BY <1>9 DEF TypeOK, StreamOK, Connect, Register, taskVars, recvVars
  <2>3. BridgeOK' /\ AgentOK'
    BY <1>9 DEF TypeOK, BridgeOK, AgentOK, Connect, Register, bridgeVars, linkVars, agentVars
  <2>4. FlagsOK' /\ CountersOK'
    BY <1>9 DEF TypeOK, FlagsOK, CountersOK, Connect, Register, hostVars, taskVars, linkVars, countVars
  <2> QED BY <2>1, <2>2, <2>3, <2>4 DEF TypeOK
<1>10. ASSUME NEW hb \in {0, 1}, LoadDone(hb) PROVE TypeOK'
  <2>1. HostOK'
    BY <1>10, StartTasksFacts DEF TypeOK, HostOK, LoadDone
  <2>2. StreamOK'
    BY <1>10, ElemsTail DEF TypeOK, StreamOK, HostOK, LoadDone, StartTasks, taskVars, recvVars
  <2>3. BridgeOK' /\ AgentOK'
    BY <1>10 DEF TypeOK, BridgeOK, AgentOK, LoadDone, StartTasks, bridgeVars, linkVars, agentVars
  <2>4. FlagsOK' /\ CountersOK'
    BY <1>10 DEF TypeOK, FlagsOK, CountersOK, LoadDone, StartTasks, hostVars, taskVars, linkVars, countVars
  <2> QED BY <2>1, <2>2, <2>3, <2>4 DEF TypeOK
<1>11. CASE LoadAborted
  <2>1. StreamOK'
    BY <1>11 DEF TypeOK, StreamOK, LoadAborted, taskVars, recvVars
  <2>2. BridgeOK' /\ HostOK' /\ AgentOK'
    BY <1>11 DEF TypeOK, BridgeOK, HostOK, AgentOK, LoadAborted, bridgeVars, hostVars, linkVars, agentVars
  <2>3. FlagsOK' /\ CountersOK'
    BY <1>11 DEF TypeOK, FlagsOK, CountersOK, LoadAborted, hostVars, taskVars, linkVars, countVars
  <2> QED BY <2>1, <2>2, <2>3 DEF TypeOK
<1>12. CASE LatePull
  <2>1. HostOK'
    BY <1>12, ElemsTail DEF TypeOK, HostOK, LatePull, hostVars
  <2>2. StreamOK'
    BY <1>12, ElemsTail DEF TypeOK, StreamOK, HostOK, LatePull, taskVars, recvVars
  <2>3. BridgeOK' /\ AgentOK'
    BY <1>12 DEF TypeOK, BridgeOK, AgentOK, LatePull, bridgeVars, linkVars, agentVars
  <2>4. FlagsOK' /\ CountersOK'
    BY <1>12 DEF TypeOK, FlagsOK, CountersOK, LatePull, hostVars, taskVars, linkVars, countVars
  <2> QED BY <2>1, <2>2, <2>3, <2>4 DEF TypeOK
<1>13. CASE LateControl
  <2>1. StreamOK'
    BY <1>13 DEF TypeOK, StreamOK, LateControl, taskVars, recvVars
  <2>2. BridgeOK' /\ HostOK' /\ AgentOK'
    BY <1>13 DEF TypeOK, BridgeOK, HostOK, AgentOK, LateControl, bridgeVars, hostVars, linkVars, agentVars
  <2>3. FlagsOK' /\ CountersOK'
    BY <1>13 DEF TypeOK, FlagsOK, CountersOK, LateControl, hostVars, taskVars, linkVars, countVars
  <2> QED BY <2>1, <2>2, <2>3 DEF TypeOK
<1>14. CASE LateTerm
  <2>1. BridgeOK' /\ HostOK' /\ StreamOK' /\ AgentOK'
    BY <1>14 DEF TypeOK, BridgeOK, HostOK, StreamOK, AgentOK, LateTerm, bridgeVars, hostVars, taskVars, recvVars, linkVars, agentVars
  <2>2. FlagsOK' /\ CountersOK'
    BY <1>14 DEF TypeOK, FlagsOK, CountersOK, LateTerm, hostVars, taskVars, linkVars, countVars
  <2> QED BY <2>1, <2>2 DEF TypeOK
<1>15. CASE ResumeTerm
  <2>1. HostOK'
    BY <1>15, ElemsAppend DEF TypeOK, HostOK, StreamOK, ResumeTerm, PutBack, Teardown, hostVars
  <2>2. StreamOK'
    BY <1>15 DEF TypeOK, StreamOK, ResumeTerm, PutBack, Teardown, taskVars, recvVars
  <2>3. BridgeOK' /\ AgentOK'
    BY <1>15 DEF TypeOK, BridgeOK, AgentOK, ResumeTerm, PutBack, Teardown, bridgeVars, linkVars, agentVars
  <2>4. FlagsOK' /\ CountersOK'
    BY <1>15 DEF TypeOK, FlagsOK, CountersOK, ResumeTerm, PutBack, Teardown, hostVars, taskVars, linkVars, countVars
  <2> QED BY <2>1, <2>2, <2>3, <2>4 DEF TypeOK
<1>16. CASE ResumeRecvDone
  <2>1. HostOK'
    BY <1>16, ElemsAppend DEF TypeOK, HostOK, StreamOK, ResumeRecvDone, PutBack, Teardown, hostVars
  <2>2. StreamOK'
    BY <1>16 DEF TypeOK, StreamOK, ResumeRecvDone, PutBack, Teardown, taskVars, recvVars
  <2>3. BridgeOK' /\ AgentOK'
    BY <1>16 DEF TypeOK, BridgeOK, AgentOK, ResumeRecvDone, PutBack, Teardown, bridgeVars, linkVars, agentVars
  <2>4. FlagsOK' /\ CountersOK'
    BY <1>16 DEF TypeOK, FlagsOK, CountersOK, ResumeRecvDone, PutBack, Teardown, hostVars, taskVars, linkVars, countVars
  <2> QED BY <2>1, <2>2, <2>3, <2>4 DEF TypeOK
<1>17. CASE ResumeControl
  <2>1. HostOK'
    BY <1>17, ElemsAppend DEF TypeOK, HostOK, StreamOK, ResumeControl, PutBack, hostVars
  <2>2. StreamOK'
    BY <1>17 DEF TypeOK, StreamOK, ResumeControl, PutBack, taskVars, recvVars
  <2>3. BridgeOK' /\ AgentOK'
    BY <1>17 DEF TypeOK, BridgeOK, AgentOK, ResumeControl, PutBack, bridgeVars, linkVars, agentVars
  <2>4. FlagsOK' /\ CountersOK'
    BY <1>17 DEF TypeOK, FlagsOK, CountersOK, ResumeControl, PutBack, hostVars, taskVars, linkVars, countVars
  <2> QED BY <2>1, <2>2, <2>3, <2>4 DEF TypeOK
<1>18. CASE ResumeCommand
  <2>1. HostOK'
    BY <1>18, ElemsAppend DEF TypeOK, HostOK, StreamOK, ResumeCommand, MarkInFlight, hostVars
  <2>2. StreamOK'
    BY <1>18 DEF TypeOK, StreamOK, ResumeCommand, MarkInFlight, taskVars, recvVars
  <2>3. AgentOK'
    BY <1>18, ElemsAppend DEF TypeOK, AgentOK, StreamOK, ResumeCommand, MarkInFlight, linkVars, agentVars
  <2>4. BridgeOK'
    BY <1>18 DEF TypeOK, BridgeOK, ResumeCommand, MarkInFlight, bridgeVars
  <2>5. FlagsOK' /\ CountersOK'
    BY <1>18 DEF TypeOK, FlagsOK, CountersOK, ResumeCommand, MarkInFlight, hostVars, taskVars, linkVars, countVars
  <2> QED BY <2>1, <2>2, <2>3, <2>4, <2>5 DEF TypeOK
<1>19. CASE NextIteration
  <2>1. HostOK'
    BY <1>19, StartTasksFacts DEF TypeOK, HostOK, NextIteration
  <2>2. StreamOK'
    BY <1>19, ElemsTail DEF TypeOK, StreamOK, HostOK, NextIteration, StartTasks, taskVars, recvVars
  <2>3. BridgeOK' /\ AgentOK'
    BY <1>19 DEF TypeOK, BridgeOK, AgentOK, NextIteration, StartTasks, bridgeVars, linkVars, agentVars
  <2>4. FlagsOK' /\ CountersOK'
    BY <1>19 DEF TypeOK, FlagsOK, CountersOK, NextIteration, StartTasks, hostVars, taskVars, linkVars, countVars
  <2> QED BY <2>1, <2>2, <2>3, <2>4 DEF TypeOK
<1>20. CASE CancelledAtYield
  <2>1. StreamOK'
    BY <1>20 DEF TypeOK, StreamOK, CancelledAtYield, Teardown, taskVars, recvVars
  <2>2. BridgeOK' /\ HostOK' /\ AgentOK'
    BY <1>20 DEF TypeOK, BridgeOK, HostOK, AgentOK, CancelledAtYield, Teardown, bridgeVars, hostVars, linkVars, agentVars
  <2>3. FlagsOK' /\ CountersOK'
    BY <1>20 DEF TypeOK, FlagsOK, CountersOK, CancelledAtYield, Teardown, hostVars, taskVars, linkVars, countVars
  <2> QED BY <2>1, <2>2, <2>3 DEF TypeOK
<1>21. CASE CancelledAtWait
  <2>1. HostOK'
    <3>1. CASE pull # NoCmd
      BY <1>21, <3>1 DEF TypeOK, HostOK, StreamOK, CancelledAtWait
    <3>2. CASE pull = NoCmd /\ queue # <<>>
      BY <1>21, <3>2, ElemsTail DEF TypeOK, HostOK, CancelledAtWait
    <3>3. CASE pull = NoCmd /\ queue = <<>>
      BY <1>21, <3>3 DEF TypeOK, HostOK, CancelledAtWait
    <3> QED BY <3>1, <3>2, <3>3
  <2>2. StreamOK'
    BY <1>21 DEF TypeOK, StreamOK, CancelledAtWait, Teardown, taskVars, recvVars
  <2>3. BridgeOK' /\ AgentOK'
    BY <1>21 DEF TypeOK, BridgeOK, AgentOK, CancelledAtWait, Teardown, bridgeVars, linkVars, agentVars
  <2>4. FlagsOK' /\ CountersOK'
    BY <1>21 DEF TypeOK, FlagsOK, CountersOK, CancelledAtWait, Teardown, hostVars, taskVars, linkVars, countVars
  <2> QED BY <2>1, <2>2, <2>3, <2>4 DEF TypeOK
<1>22. CASE RecvResult
  <2>1. StreamOK'
    BY <1>22, ElemsTail DEF TypeOK, StreamOK, AgentOK, RecvResult, taskVars, recvVars
  <2>2. AgentOK'
    BY <1>22, ElemsTail DEF TypeOK, AgentOK, RecvResult, linkVars, agentVars
  <2>3. BridgeOK' /\ HostOK'
    BY <1>22 DEF TypeOK, BridgeOK, HostOK, RecvResult, bridgeVars, hostVars
  <2>4. FlagsOK' /\ CountersOK'
    BY <1>22 DEF TypeOK, FlagsOK, CountersOK, RecvResult, hostVars, taskVars, linkVars, countVars
  <2> QED BY <2>1, <2>2, <2>3, <2>4 DEF TypeOK
<1>23. CASE RecvAck
  <2>1. HostOK'
    BY <1>23, ElemsWithout DEF TypeOK, HostOK, RecvAck, Ack, hostVars
  <2>2. StreamOK'
    BY <1>23, ElemsSubset DEF TypeOK, StreamOK, HostOK, RecvAck, Ack, taskVars, recvVars
  <2>3. BridgeOK' /\ AgentOK'
    BY <1>23 DEF TypeOK, BridgeOK, AgentOK, RecvAck, Ack, bridgeVars, linkVars, agentVars
  <2>4. FlagsOK' /\ CountersOK'
    BY <1>23 DEF TypeOK, FlagsOK, CountersOK, RecvAck, Ack, hostVars, taskVars, linkVars, countVars
  <2> QED BY <2>1, <2>2, <2>3, <2>4 DEF TypeOK
<1>24. CASE RecvFails
  <2>1. StreamOK'
    BY <1>24 DEF TypeOK, StreamOK, RecvFails, Fault, taskVars, recvVars
  <2>2. BridgeOK' /\ HostOK' /\ AgentOK'
    BY <1>24 DEF TypeOK, BridgeOK, HostOK, AgentOK, RecvFails, Fault, bridgeVars, hostVars, linkVars, agentVars
  <2>3. FlagsOK'
    BY <1>24 DEF TypeOK, FlagsOK, RecvFails, hostVars, taskVars, linkVars
  <2>4. CountersOK'
    BY <1>24 DEF TypeOK, CountersOK, RecvFails, Fault, countVars
  <2> QED BY <2>1, <2>2, <2>3, <2>4 DEF TypeOK
<1>25. CASE RecvEnds
  <2>1. StreamOK'
    BY <1>25 DEF TypeOK, StreamOK, RecvEnds, taskVars, recvVars
  <2>2. BridgeOK' /\ HostOK' /\ AgentOK'
    BY <1>25 DEF TypeOK, BridgeOK, HostOK, AgentOK, RecvEnds, bridgeVars, hostVars, linkVars, agentVars
  <2>3. FlagsOK' /\ CountersOK'
    BY <1>25 DEF TypeOK, FlagsOK, CountersOK, RecvEnds, hostVars, taskVars, linkVars, countVars
  <2> QED BY <2>1, <2>2, <2>3 DEF TypeOK
<1>26. CASE PushControl
  <2>1. StreamOK'
    BY <1>26 DEF TypeOK, StreamOK, PushControl, taskVars, recvVars
  <2>2. BridgeOK' /\ HostOK' /\ AgentOK'
    BY <1>26 DEF TypeOK, BridgeOK, HostOK, AgentOK, PushControl, bridgeVars, hostVars, linkVars, agentVars
  <2>3. FlagsOK' /\ CountersOK'
    BY <1>26 DEF TypeOK, FlagsOK, CountersOK, PushControl, hostVars, taskVars, linkVars, countVars
  <2> QED BY <2>1, <2>2, <2>3 DEF TypeOK
<1>27. CASE Revoke
  <2>1. BridgeOK' /\ HostOK' /\ StreamOK' /\ AgentOK'
    BY <1>27 DEF TypeOK, BridgeOK, HostOK, StreamOK, AgentOK, Revoke, Fault, bridgeVars, hostVars, taskVars, recvVars, linkVars, agentVars
  <2>2. FlagsOK'
    BY <1>27 DEF TypeOK, FlagsOK, Revoke, hostVars, taskVars, linkVars
  <2>3. CountersOK'
    BY <1>27 DEF TypeOK, CountersOK, Revoke, Fault, countVars
  <2> QED BY <2>1, <2>2, <2>3 DEF TypeOK
<1>28. CASE ReEnroll
  <2>1. BridgeOK' /\ HostOK' /\ StreamOK' /\ AgentOK'
    BY <1>28 DEF TypeOK, BridgeOK, HostOK, StreamOK, AgentOK, ReEnroll, bridgeVars, hostVars, taskVars, recvVars, linkVars, agentVars
  <2>2. FlagsOK' /\ CountersOK'
    BY <1>28 DEF TypeOK, FlagsOK, CountersOK, ReEnroll, hostVars, taskVars, linkVars, countVars
  <2> QED BY <2>1, <2>2 DEF TypeOK
<1>29. CASE LinkBreak
  <2>1. AgentOK'
    BY <1>29, EmptySeq DEF TypeOK, AgentOK, LinkBreak, LoseLink, Fault, linkVars, agentVars
  <2>2. BridgeOK' /\ HostOK' /\ StreamOK'
    BY <1>29 DEF TypeOK, BridgeOK, HostOK, StreamOK, LinkBreak, LoseLink, Fault, bridgeVars, hostVars, taskVars, recvVars
  <2>3. FlagsOK'
    BY <1>29 DEF TypeOK, FlagsOK, LinkBreak, LoseLink, hostVars, taskVars, linkVars
  <2>4. CountersOK'
    BY <1>29 DEF TypeOK, CountersOK, LinkBreak, Fault, countVars
  <2> QED BY <2>1, <2>2, <2>3, <2>4 DEF TypeOK
<1>30. CASE AgentSeesClose
  <2>1. AgentOK'
    BY <1>30, EmptySeq DEF TypeOK, AgentOK, AgentSeesClose, LoseLink, linkVars, agentVars
  <2>2. BridgeOK' /\ HostOK' /\ StreamOK'
    BY <1>30 DEF TypeOK, BridgeOK, HostOK, StreamOK, AgentSeesClose, LoseLink, bridgeVars, hostVars, taskVars, recvVars
  <2>3. FlagsOK' /\ CountersOK'
    BY <1>30 DEF TypeOK, FlagsOK, CountersOK, AgentSeesClose, LoseLink, hostVars, taskVars, linkVars, countVars
  <2> QED BY <2>1, <2>2, <2>3 DEF TypeOK
<1>31. CASE AgentCrash
  <2>1. AgentOK'
    BY <1>31, EmptySeq DEF TypeOK, AgentOK, AgentCrash, LoseLink, Fault, linkVars, agentVars
  <2>2. BridgeOK' /\ HostOK' /\ StreamOK'
    BY <1>31 DEF TypeOK, BridgeOK, HostOK, StreamOK, AgentCrash, LoseLink, Fault, bridgeVars, hostVars, taskVars, recvVars
  <2>3. FlagsOK'
    BY <1>31 DEF TypeOK, FlagsOK, AgentCrash, LoseLink, hostVars, taskVars, linkVars
  <2>4. CountersOK'
    BY <1>31 DEF TypeOK, CountersOK, AgentCrash, Fault, countVars
  <2> QED BY <2>1, <2>2, <2>3, <2>4 DEF TypeOK
<1>32. CASE ServerRestart
  <2>1. BridgeOK'
    BY <1>32, EmptySeq DEF TypeOK, BridgeOK, ServerRestart, LoseLink, Fault, Teardown, bridgeVars
  <2>2. HostOK'
    BY <1>32, EmptySeq DEF TypeOK, HostOK, ServerRestart, LoseLink, Fault, Teardown, hostVars
  <2>3. StreamOK'
    BY <1>32 DEF TypeOK, StreamOK, ServerRestart, LoseLink, Fault, Teardown, taskVars, recvVars
  <2>4. AgentOK'
    BY <1>32, EmptySeq DEF TypeOK, AgentOK, ServerRestart, LoseLink, Fault, Teardown, linkVars, agentVars
  <2>5. FlagsOK'
    BY <1>32 DEF TypeOK, FlagsOK, ServerRestart, LoseLink, Teardown, hostVars, taskVars, linkVars
  <2>6. CountersOK'
    BY <1>32 DEF TypeOK, CountersOK, ServerRestart, Fault, countVars
  <2> QED BY <2>1, <2>2, <2>3, <2>4, <2>5, <2>6 DEF TypeOK
<1>33. CASE AgentReceive
  <2>1. AgentOK'
    BY SMTT(30), <1>33, ElemsTail DEF TypeOK, AgentOK, AgentReceive, linkVars, agentVars
  <2>2. BridgeOK' /\ HostOK' /\ StreamOK'
    BY <1>33 DEF TypeOK, BridgeOK, HostOK, StreamOK, AgentReceive, bridgeVars, hostVars, taskVars, recvVars
  <2>3. FlagsOK' /\ CountersOK'
    BY <1>33 DEF TypeOK, FlagsOK, CountersOK, AgentReceive, hostVars, taskVars, linkVars, countVars
  <2> QED BY <2>1, <2>2, <2>3 DEF TypeOK
<1>34. ASSUME NEW c \in Commands, AgentFinish(c) PROVE TypeOK'
  <2>1. AgentOK'
    BY <1>34, ElemsAppend DEF TypeOK, AgentOK, AgentFinish, linkVars, agentVars
  <2>2. BridgeOK' /\ HostOK' /\ StreamOK'
    BY <1>34 DEF TypeOK, BridgeOK, HostOK, StreamOK, AgentFinish, bridgeVars, hostVars, taskVars, recvVars
  <2>3. FlagsOK' /\ CountersOK'
    BY <1>34 DEF TypeOK, FlagsOK, CountersOK, AgentFinish, hostVars, taskVars, linkVars, countVars
  <2> QED BY <2>1, <2>2, <2>3 DEF TypeOK
<1>35. CASE AgentSend
  <2>1. AgentOK'
    BY <1>35, ElemsAppend, ElemsTail DEF TypeOK, AgentOK, AgentSend, linkVars, agentVars
  <2>2. BridgeOK' /\ HostOK' /\ StreamOK'
    BY <1>35 DEF TypeOK, BridgeOK, HostOK, StreamOK, AgentSend, bridgeVars, hostVars, taskVars, recvVars
  <2>3. FlagsOK' /\ CountersOK'
    BY <1>35 DEF TypeOK, FlagsOK, CountersOK, AgentSend, hostVars, taskVars, linkVars, countVars
  <2> QED BY <2>1, <2>2, <2>3 DEF TypeOK
<1>37. ASSUME NEW c \in Commands, AgentFinishFails(c) PROVE TypeOK'
  <2>1. AgentOK'
    BY <1>37 DEF TypeOK, AgentOK, AgentFinishFails, linkVars, agentVars
  <2>2. BridgeOK' /\ HostOK' /\ StreamOK'
    BY <1>37 DEF TypeOK, BridgeOK, HostOK, StreamOK, AgentFinishFails, bridgeVars, hostVars, taskVars, recvVars
  <2>3. FlagsOK' /\ CountersOK'
    BY <1>37 DEF TypeOK, FlagsOK, CountersOK, AgentFinishFails, Fault, hostVars, taskVars, linkVars
  <2> QED BY <2>1, <2>2, <2>3 DEF TypeOK
<1>36. CASE UNCHANGED vars
  BY <1>36 DEF TypeOK, BridgeOK, HostOK, StreamOK, AgentOK, FlagsOK, CountersOK, vars,
     bridgeVars, hostVars, taskVars, recvVars, linkVars, agentVars, countVars
<1> QED
  BY <1>1, <1>2, <1>3, <1>4, <1>5, <1>6, <1>7, <1>8, <1>9, <1>10, <1>11, <1>12, <1>13, <1>14, <1>15, <1>16, <1>17, <1>18, <1>19, <1>20, <1>21, <1>22, <1>23, <1>24, <1>25, <1>26, <1>27, <1>28, <1>29, <1>30, <1>31, <1>32, <1>33, <1>34, <1>35, <1>36, <1>37 DEF Next, BridgeNext, StreamNext, EnvNext, AgentNext

\* Every queue, sequence and counter of the delivery path keeps its type, and the
\* two bounded queues stay within their bounds, for every set of commands.
THEOREM TypeCorrect == Spec => []TypeOK
<1>1. Init => TypeOK
  <2> SUFFICES ASSUME Init PROVE TypeOK
    OBVIOUS
  <2>1. BridgeOK /\ HostOK
    BY ConstantsAssumption DEF Init, BridgeOK, HostOK
  <2>2. StreamOK /\ AgentOK
    BY ConstantsAssumption DEF Init, StreamOK, AgentOK
  <2>3. FlagsOK /\ CountersOK
    BY DEF Init, FlagsOK, CountersOK
  <2> QED BY <2>1, <2>2, <2>3 DEF TypeOK
<1>2. QED
  BY <1>1, TypeStep, PTL DEF Spec

(***************************************************************************)
(* The inductive invariant.  NothingVanishes and ResumeCoversUnacked look at  *)
(* pull, so they need to know that a command sits there only while Stream     *)
(* waits; OrphansStarveQueue needs that a put-back never meets an orphan.     *)
(***************************************************************************)
PullState ==
    /\ phase # "wait" => pull = NoCmd
    /\ pull # NoCmd => orphans = 0

IInv == PullState /\ NothingVanishes /\ ResumeCoversUnacked /\ OrphansStarveQueue

\* The variables the invariant reads.
LEMMA QuietStep ==
  ASSUME IInv,
         UNCHANGED <<issued, closed, bus, bridge, scan, stranded, queue, unacked, orphans,
                     swallowed, phase, pull, acked, sentHere>>
  PROVE  IInv'
  BY DEF IInv, PullState, NothingVanishes, ResumeCoversUnacked, OrphansStarveQueue,
         InCustody, Elems

LEMMA InvStep == TypeOK /\ IInv /\ [Next]_vars => IInv'
<1> SUFFICES ASSUME TypeOK, IInv, [Next]_vars PROVE IInv'
  OBVIOUS
<1> USE ConstantsAssumption
<1>1. ASSUME NEW c \in Commands, Issue(c) PROVE IInv'
  <2>1. Elems(bus) \subseteq Elems(bus') \cup stranded' /\ c \in Elems(bus') /\ stranded \subseteq stranded'
    <3>1. CASE Len(bus) < BusCap
      <4>1. bus' = Append(bus, c) /\ stranded' = stranded
        BY <1>1, <3>1 DEF Issue
      <4>2. Elems(Append(bus, c)) = Elems(bus) \cup {c}
        BY ElemsAppend DEF TypeOK, BridgeOK
      <4> QED BY <4>1, <4>2
    <3>2. CASE ~(Len(bus) < BusCap)
      <4>1. bus # <<>>
        BY <3>2, EmptySeq DEF TypeOK, BridgeOK
      <4>2. /\ bus' = Append(Tail(bus), c) /\ stranded' = stranded \cup {Head(bus)}
        BY <1>1, <3>2 DEF Issue
      <4>3. Tail(bus) \in Seq(Commands) /\ Elems(bus) = {Head(bus)} \cup Elems(Tail(bus))
        BY <4>1, ElemsTail DEF TypeOK, BridgeOK
      <4>4. Elems(Append(Tail(bus), c)) = Elems(Tail(bus)) \cup {c}
        <5> DEFINE t == Tail(bus)
        <5>1. t \in Seq(Commands)
          BY <4>3
        <5> HIDE DEF t
        <5>2. Elems(Append(t, c)) = Elems(t) \cup {c}
          BY <5>1, ElemsAppend
        <5> QED BY <5>2 DEF t
      <4> QED BY <4>2, <4>3, <4>4
    <3> QED BY <3>1, <3>2
  <2>2. PullState'
    BY <1>1, <2>1 DEF IInv, PullState, OrphansStarveQueue, Issue, TypeOK, BridgeOK, HostOK, StreamOK, bridgeVars, hostVars, taskVars
  <2>3. NothingVanishes'
    BY <1>1, <2>1 DEF IInv, PullState, NothingVanishes, InCustody, Issue, TypeOK, BridgeOK, HostOK, StreamOK, bridgeVars, hostVars, taskVars
  <2>4. ResumeCoversUnacked'
    BY <1>1, <2>1 DEF IInv, PullState, ResumeCoversUnacked, Issue, TypeOK, BridgeOK, HostOK, StreamOK, bridgeVars, hostVars, taskVars
  <2>5. OrphansStarveQueue'
    BY <1>1, <2>1 DEF IInv, PullState, OrphansStarveQueue, Issue, TypeOK, BridgeOK, HostOK, StreamOK, bridgeVars, hostVars, taskVars
  <2> QED BY <2>2, <2>3, <2>4, <2>5 DEF IInv
<1>2. ASSUME NEW c \in Commands, CloseRow(c) PROVE IInv'
  <2>1. PullState'
    BY <1>2 DEF IInv, PullState, OrphansStarveQueue, CloseRow, TypeOK, BridgeOK, HostOK, StreamOK, bridgeVars, hostVars, taskVars
  <2>2. NothingVanishes'
    BY <1>2 DEF IInv, PullState, NothingVanishes, InCustody, CloseRow, TypeOK, BridgeOK, HostOK, StreamOK, bridgeVars, hostVars, taskVars
  <2>3. ResumeCoversUnacked'
    BY <1>2 DEF IInv, PullState, ResumeCoversUnacked, CloseRow, TypeOK, BridgeOK, HostOK, StreamOK, bridgeVars, hostVars, taskVars
  <2>4. OrphansStarveQueue'
    BY <1>2 DEF IInv, PullState, OrphansStarveQueue, CloseRow, TypeOK, BridgeOK, HostOK, StreamOK, bridgeVars, hostVars, taskVars
  <2> QED BY <2>1, <2>2, <2>3, <2>4 DEF IInv
<1>3. ASSUME NEW c \in Commands, BridgeReplay(c) PROVE IInv'
  <2>1. Enqueue(c)
    BY <1>3 DEF BridgeReplay
  <2>2. PullState'
    BY <1>3, <2>1, EnqueueFacts DEF IInv, PullState, OrphansStarveQueue, BridgeReplay, TypeOK, BridgeOK, HostOK, StreamOK, bridgeVars, hostVars, taskVars
  <2>3. NothingVanishes'
    BY <1>3, <2>1, EnqueueFacts DEF IInv, PullState, NothingVanishes, InCustody, BridgeReplay, TypeOK, BridgeOK, HostOK, StreamOK, bridgeVars, hostVars, taskVars
  <2>4. ResumeCoversUnacked'
    BY <1>3, <2>1, EnqueueFacts DEF IInv, PullState, ResumeCoversUnacked, BridgeReplay, TypeOK, BridgeOK, HostOK, StreamOK, bridgeVars, hostVars, taskVars
  <2>5. OrphansStarveQueue'
    BY <1>3, <2>1, EnqueueFacts DEF IInv, PullState, OrphansStarveQueue, BridgeReplay, TypeOK, BridgeOK, HostOK, StreamOK, bridgeVars, hostVars, taskVars
  <2> QED BY <2>2, <2>3, <2>4, <2>5 DEF IInv
<1>4. CASE BridgeSelect
  <2>1. PullState'
    BY <1>4 DEF IInv, PullState, OrphansStarveQueue, BridgeSelect, TypeOK, BridgeOK, HostOK, StreamOK, bridgeVars, hostVars, taskVars
  <2>2. NothingVanishes'
    BY <1>4 DEF IInv, PullState, NothingVanishes, InCustody, BridgeSelect, TypeOK, BridgeOK, HostOK, StreamOK, bridgeVars, hostVars, taskVars
  <2>3. ResumeCoversUnacked'
    BY <1>4 DEF IInv, PullState, ResumeCoversUnacked, BridgeSelect, TypeOK, BridgeOK, HostOK, StreamOK, bridgeVars, hostVars, taskVars
  <2>4. OrphansStarveQueue'
    BY <1>4 DEF IInv, PullState, OrphansStarveQueue, BridgeSelect, TypeOK, BridgeOK, HostOK, StreamOK, bridgeVars, hostVars, taskVars
  <2> QED BY <2>1, <2>2, <2>3, <2>4 DEF IInv
<1>5. CASE BridgeReplayEnd
  <2>1. PullState'
    BY <1>5 DEF IInv, PullState, OrphansStarveQueue, BridgeReplayEnd, TypeOK, BridgeOK, HostOK, StreamOK, bridgeVars, hostVars, taskVars
  <2>2. NothingVanishes'
    BY <1>5 DEF IInv, PullState, NothingVanishes, InCustody, BridgeReplayEnd, TypeOK, BridgeOK, HostOK, StreamOK, bridgeVars, hostVars, taskVars
  <2>3. ResumeCoversUnacked'
    BY <1>5 DEF IInv, PullState, ResumeCoversUnacked, BridgeReplayEnd, TypeOK, BridgeOK, HostOK, StreamOK, bridgeVars, hostVars, taskVars
  <2>4. OrphansStarveQueue'
    BY <1>5 DEF IInv, PullState, OrphansStarveQueue, BridgeReplayEnd, TypeOK, BridgeOK, HostOK, StreamOK, bridgeVars, hostVars, taskVars
  <2> QED BY <2>1, <2>2, <2>3, <2>4 DEF IInv
<1>6. CASE BridgeReplayFails
  <2>1. PullState'
    BY <1>6 DEF IInv, PullState, OrphansStarveQueue, BridgeReplayFails, TypeOK, BridgeOK, HostOK, StreamOK, bridgeVars, hostVars, taskVars
  <2>2. NothingVanishes'
    BY <1>6 DEF IInv, PullState, NothingVanishes, InCustody, BridgeReplayFails, TypeOK, BridgeOK, HostOK, StreamOK, bridgeVars, hostVars, taskVars
  <2>3. ResumeCoversUnacked'
    BY <1>6 DEF IInv, PullState, ResumeCoversUnacked, BridgeReplayFails, TypeOK, BridgeOK, HostOK, StreamOK, bridgeVars, hostVars, taskVars
  <2>4. OrphansStarveQueue'
    BY <1>6 DEF IInv, PullState, OrphansStarveQueue, BridgeReplayFails, TypeOK, BridgeOK, HostOK, StreamOK, bridgeVars, hostVars, taskVars
  <2> QED BY <2>1, <2>2, <2>3, <2>4 DEF IInv
<1>7. CASE BridgeForward
  <2>1. Head(bus) \in Commands /\ Enqueue(Head(bus)) /\ Elems(bus) = {Head(bus)} \cup Elems(bus')
    BY <1>7, ElemsTail DEF BridgeForward, TypeOK, BridgeOK
  <2>2. PullState'
    BY <1>7, <2>1, EnqueueFacts DEF IInv, PullState, OrphansStarveQueue, BridgeForward, TypeOK, BridgeOK, HostOK, StreamOK, bridgeVars, hostVars, taskVars
  <2>3. NothingVanishes'
    BY <1>7, <2>1, EnqueueFacts DEF IInv, PullState, NothingVanishes, InCustody, BridgeForward, TypeOK, BridgeOK, HostOK, StreamOK, bridgeVars, hostVars, taskVars
  <2>4. ResumeCoversUnacked'
    BY <1>7, <2>1, EnqueueFacts DEF IInv, PullState, ResumeCoversUnacked, BridgeForward, TypeOK, BridgeOK, HostOK, StreamOK, bridgeVars, hostVars, taskVars
  <2>5. OrphansStarveQueue'
    BY <1>7, <2>1, EnqueueFacts DEF IInv, PullState, OrphansStarveQueue, BridgeForward, TypeOK, BridgeOK, HostOK, StreamOK, bridgeVars, hostVars, taskVars
  <2> QED BY <2>2, <2>3, <2>4, <2>5 DEF IInv
<1>8. CASE BridgeForwardFails
  <2>1. Elems(bus) = {Head(bus)} \cup Elems(bus')
    BY <1>8, ElemsTail DEF BridgeForwardFails, TypeOK, BridgeOK
  <2>2. PullState'
    BY <1>8, <2>1 DEF IInv, PullState, OrphansStarveQueue, BridgeForwardFails, TypeOK, BridgeOK, HostOK, StreamOK, bridgeVars, hostVars, taskVars
  <2>3. NothingVanishes'
    BY <1>8, <2>1 DEF IInv, PullState, NothingVanishes, InCustody, BridgeForwardFails, TypeOK, BridgeOK, HostOK, StreamOK, bridgeVars, hostVars, taskVars
  <2>4. ResumeCoversUnacked'
    BY <1>8, <2>1 DEF IInv, PullState, ResumeCoversUnacked, BridgeForwardFails, TypeOK, BridgeOK, HostOK, StreamOK, bridgeVars, hostVars, taskVars
  <2>5. OrphansStarveQueue'
    BY <1>8, <2>1 DEF IInv, PullState, OrphansStarveQueue, BridgeForwardFails, TypeOK, BridgeOK, HostOK, StreamOK, bridgeVars, hostVars, taskVars
  <2> QED BY <2>2, <2>3, <2>4, <2>5 DEF IInv
<1>9. CASE Connect
  <2>1. /\ Elems(unacked) \cup Elems(queue) \subseteq Elems(queue') \cup swallowed'
        /\ swallowed \subseteq swallowed'
        /\ orphans' > 0 => queue' = <<>>
        /\ unacked' = unacked
    BY <1>9, RegisterFacts DEF Connect, Register
  <2>2. PullState'
    BY <1>9, <2>1 DEF IInv, PullState, OrphansStarveQueue, Connect, TypeOK, BridgeOK, HostOK, StreamOK, bridgeVars, hostVars, taskVars
  <2>3. NothingVanishes'
    BY <1>9, <2>1 DEF IInv, PullState, NothingVanishes, InCustody, Connect, TypeOK, BridgeOK, HostOK, StreamOK, bridgeVars, hostVars, taskVars
  <2>4. ResumeCoversUnacked'
    BY <1>9, <2>1 DEF IInv, PullState, ResumeCoversUnacked, Connect, TypeOK, BridgeOK, HostOK, StreamOK, bridgeVars, hostVars, taskVars
  <2>5. OrphansStarveQueue'
    BY <1>9, <2>1 DEF IInv, PullState, OrphansStarveQueue, Connect, TypeOK, BridgeOK, HostOK, StreamOK, bridgeVars, hostVars, taskVars
  <2> QED BY <2>2, <2>3, <2>4, <2>5 DEF IInv
<1>10. ASSUME NEW hb \in {0, 1}, LoadDone(hb) PROVE IInv'
  <2>1. StartTasks(ctrl + hb)
    BY <1>10 DEF LoadDone
  <2>2. PullState'
    BY <1>10, <2>1, StartTasksFacts DEF IInv, PullState, OrphansStarveQueue, LoadDone, TypeOK, BridgeOK, HostOK, StreamOK, bridgeVars, hostVars, taskVars
  <2>3. NothingVanishes'
    BY <1>10, <2>1, StartTasksFacts DEF IInv, PullState, NothingVanishes, InCustody, LoadDone, TypeOK, BridgeOK, HostOK, StreamOK, bridgeVars, hostVars, taskVars
  <2>4. NoCmd \notin Elems(unacked)
    BY ElemsSubset DEF TypeOK, HostOK
  <2>5. ResumeCoversUnacked'
    BY <1>10, <2>1, StartTasksFacts, <2>4 DEF IInv, PullState, ResumeCoversUnacked, LoadDone, TypeOK, BridgeOK, HostOK, StreamOK, bridgeVars, hostVars, taskVars
  <2>6. OrphansStarveQueue'
    BY <1>10, <2>1, StartTasksFacts, <2>4 DEF IInv, PullState, OrphansStarveQueue, LoadDone, TypeOK, BridgeOK, HostOK, StreamOK, bridgeVars, hostVars, taskVars
  <2> QED BY <2>2, <2>3, <2>5, <2>6 DEF IInv
<1>11. CASE LoadAborted
  <2>1. PullState'
    BY <1>11 DEF IInv, PullState, OrphansStarveQueue, LoadAborted, TypeOK, BridgeOK, HostOK, StreamOK, bridgeVars, hostVars, taskVars
  <2>2. NothingVanishes'
    BY <1>11 DEF IInv, PullState, NothingVanishes, InCustody, LoadAborted, TypeOK, BridgeOK, HostOK, StreamOK, bridgeVars, hostVars, taskVars
  <2>3. ResumeCoversUnacked'
    BY <1>11 DEF IInv, PullState, ResumeCoversUnacked, LoadAborted, TypeOK, BridgeOK, HostOK, StreamOK, bridgeVars, hostVars, taskVars
  <2>4. OrphansStarveQueue'
    BY <1>11 DEF IInv, PullState, OrphansStarveQueue, LoadAborted, TypeOK, BridgeOK, HostOK, StreamOK, bridgeVars, hostVars, taskVars
  <2> QED BY <2>1, <2>2, <2>3, <2>4 DEF IInv
<1>12. CASE LatePull
  <2>1. Elems(queue) = {Head(queue)} \cup Elems(Tail(queue)) /\ Head(queue) \in Commands
    BY <1>12, ElemsTail DEF LatePull, TypeOK, HostOK
  <2>2. PullState'
    BY <1>12, <2>1 DEF IInv, PullState, OrphansStarveQueue, LatePull, TypeOK, BridgeOK, HostOK, StreamOK, bridgeVars, hostVars, taskVars
  <2>3. NothingVanishes'
    BY <1>12, <2>1 DEF IInv, PullState, NothingVanishes, InCustody, LatePull, TypeOK, BridgeOK, HostOK, StreamOK, bridgeVars, hostVars, taskVars
  <2>4. NoCmd \notin Elems(unacked)
    BY ElemsSubset DEF TypeOK, HostOK
  <2>5. ResumeCoversUnacked'
    BY <1>12, <2>1, <2>4 DEF IInv, PullState, ResumeCoversUnacked, LatePull, TypeOK, BridgeOK, HostOK, StreamOK, bridgeVars, hostVars, taskVars
  <2>6. OrphansStarveQueue'
    BY <1>12, <2>1, <2>4 DEF IInv, PullState, OrphansStarveQueue, LatePull, TypeOK, BridgeOK, HostOK, StreamOK, bridgeVars, hostVars, taskVars
  <2> QED BY <2>2, <2>3, <2>5, <2>6 DEF IInv
<1>13. CASE ResumeTerm
  <2>1. /\ Elems(queue) \cup ({pull} \ {NoCmd}) = Elems(queue')
        /\ orphans > 0 => queue' = queue
    BY <1>13, ElemsAppend DEF ResumeTerm, PutBack, TypeOK, HostOK, StreamOK, IInv, PullState
  <2>2. PullState'
    BY <1>13, <2>1 DEF IInv, PullState, OrphansStarveQueue, ResumeTerm, Teardown, TypeOK, BridgeOK, HostOK, StreamOK, bridgeVars, hostVars, taskVars
  <2>3. NothingVanishes'
    BY <1>13, <2>1 DEF IInv, PullState, NothingVanishes, InCustody, ResumeTerm, Teardown, TypeOK, BridgeOK, HostOK, StreamOK, bridgeVars, hostVars, taskVars
  <2>4. ResumeCoversUnacked'
    BY <1>13, <2>1 DEF IInv, PullState, ResumeCoversUnacked, ResumeTerm, Teardown, TypeOK, BridgeOK, HostOK, StreamOK, bridgeVars, hostVars, taskVars
  <2>5. OrphansStarveQueue'
    BY <1>13, <2>1 DEF IInv, PullState, OrphansStarveQueue, ResumeTerm, Teardown, TypeOK, BridgeOK, HostOK, StreamOK, bridgeVars, hostVars, taskVars
  <2> QED BY <2>2, <2>3, <2>4, <2>5 DEF IInv
<1>14. CASE ResumeRecvDone
  <2>1. /\ Elems(queue) \cup ({pull} \ {NoCmd}) = Elems(queue')
        /\ orphans > 0 => queue' = queue
    BY <1>14, ElemsAppend DEF ResumeRecvDone, PutBack, TypeOK, HostOK, StreamOK, IInv, PullState
  <2>2. PullState'
    BY <1>14, <2>1 DEF IInv, PullState, OrphansStarveQueue, ResumeRecvDone, Teardown, TypeOK, BridgeOK, HostOK, StreamOK, bridgeVars, hostVars, taskVars
  <2>3. NothingVanishes'
    BY <1>14, <2>1 DEF IInv, PullState, NothingVanishes, InCustody, ResumeRecvDone, Teardown, TypeOK, BridgeOK, HostOK, StreamOK, bridgeVars, hostVars, taskVars
  <2>4. ResumeCoversUnacked'
    BY <1>14, <2>1 DEF IInv, PullState, ResumeCoversUnacked, ResumeRecvDone, Teardown, TypeOK, BridgeOK, HostOK, StreamOK, bridgeVars, hostVars, taskVars
  <2>5. OrphansStarveQueue'
    BY <1>14, <2>1 DEF IInv, PullState, OrphansStarveQueue, ResumeRecvDone, Teardown, TypeOK, BridgeOK, HostOK, StreamOK, bridgeVars, hostVars, taskVars
  <2> QED BY <2>2, <2>3, <2>4, <2>5 DEF IInv
<1>15. CASE ResumeControl
  <2>1. /\ Elems(queue) \cup ({pull} \ {NoCmd}) = Elems(queue')
        /\ orphans > 0 => queue' = queue
    BY <1>15, ElemsAppend DEF ResumeControl, PutBack, TypeOK, HostOK, StreamOK, IInv, PullState
  <2>2. PullState'
    BY <1>15, <2>1 DEF IInv, PullState, OrphansStarveQueue, ResumeControl, TypeOK, BridgeOK, HostOK, StreamOK, bridgeVars, hostVars, taskVars
  <2>3. NothingVanishes'
    BY <1>15, <2>1 DEF IInv, PullState, NothingVanishes, InCustody, ResumeControl, TypeOK, BridgeOK, HostOK, StreamOK, bridgeVars, hostVars, taskVars
  <2>4. ResumeCoversUnacked'
    BY <1>15, <2>1 DEF IInv, PullState, ResumeCoversUnacked, ResumeControl, TypeOK, BridgeOK, HostOK, StreamOK, bridgeVars, hostVars, taskVars
  <2>5. OrphansStarveQueue'
    BY <1>15, <2>1 DEF IInv, PullState, OrphansStarveQueue, ResumeControl, TypeOK, BridgeOK, HostOK, StreamOK, bridgeVars, hostVars, taskVars
  <2> QED BY <2>2, <2>3, <2>4, <2>5 DEF IInv
<1>16. CASE ResumeCommand
  <2>1. Elems(unacked') = Elems(unacked) \cup {pull}
    BY <1>16, ElemsAppend DEF ResumeCommand, MarkInFlight, TypeOK, HostOK, StreamOK
  <2>2. PullState'
    BY <1>16, <2>1 DEF IInv, PullState, OrphansStarveQueue, ResumeCommand, TypeOK, BridgeOK, HostOK, StreamOK, bridgeVars, hostVars, taskVars
  <2>3. NothingVanishes'
    BY <1>16, <2>1 DEF IInv, PullState, NothingVanishes, InCustody, ResumeCommand, TypeOK, BridgeOK, HostOK, StreamOK, bridgeVars, hostVars, taskVars
  <2>4. ResumeCoversUnacked'
    BY <1>16, <2>1 DEF IInv, PullState, ResumeCoversUnacked, ResumeCommand, TypeOK, BridgeOK, HostOK, StreamOK, bridgeVars, hostVars, taskVars
  <2>5. OrphansStarveQueue'
    BY <1>16, <2>1 DEF IInv, PullState, OrphansStarveQueue, ResumeCommand, TypeOK, BridgeOK, HostOK, StreamOK, bridgeVars, hostVars, taskVars
  <2> QED BY <2>2, <2>3, <2>4, <2>5 DEF IInv
<1>17. CASE NextIteration
  <2>1. StartTasks(ctrl)
    BY <1>17 DEF NextIteration
  <2>2. PullState'
    BY <1>17, <2>1, StartTasksFacts DEF IInv, PullState, OrphansStarveQueue, NextIteration, TypeOK, BridgeOK, HostOK, StreamOK, bridgeVars, hostVars, taskVars
  <2>3. NothingVanishes'
    BY <1>17, <2>1, StartTasksFacts DEF IInv, PullState, NothingVanishes, InCustody, NextIteration, TypeOK, BridgeOK, HostOK, StreamOK, bridgeVars, hostVars, taskVars
  <2>4. NoCmd \notin Elems(unacked)
    BY ElemsSubset DEF TypeOK, HostOK
  <2>5. ResumeCoversUnacked'
    BY <1>17, <2>1, StartTasksFacts, <2>4 DEF IInv, PullState, ResumeCoversUnacked, NextIteration, TypeOK, BridgeOK, HostOK, StreamOK, bridgeVars, hostVars, taskVars
  <2>6. OrphansStarveQueue'
    BY <1>17, <2>1, StartTasksFacts, <2>4 DEF IInv, PullState, OrphansStarveQueue, NextIteration, TypeOK, BridgeOK, HostOK, StreamOK, bridgeVars, hostVars, taskVars
  <2> QED BY <2>2, <2>3, <2>5, <2>6 DEF IInv
<1>18. CASE CancelledAtYield
  <2>1. PullState'
    BY <1>18 DEF IInv, PullState, OrphansStarveQueue, CancelledAtYield, Teardown, TypeOK, BridgeOK, HostOK, StreamOK, bridgeVars, hostVars, taskVars
  <2>2. NothingVanishes'
    BY <1>18 DEF IInv, PullState, NothingVanishes, InCustody, CancelledAtYield, Teardown, TypeOK, BridgeOK, HostOK, StreamOK, bridgeVars, hostVars, taskVars
  <2>3. ResumeCoversUnacked'
    BY <1>18 DEF IInv, PullState, ResumeCoversUnacked, CancelledAtYield, Teardown, TypeOK, BridgeOK, HostOK, StreamOK, bridgeVars, hostVars, taskVars
  <2>4. OrphansStarveQueue'
    BY <1>18 DEF IInv, PullState, OrphansStarveQueue, CancelledAtYield, Teardown, TypeOK, BridgeOK, HostOK, StreamOK, bridgeVars, hostVars, taskVars
  <2> QED BY <2>1, <2>2, <2>3, <2>4 DEF IInv
<1>19. CASE CancelledAtWait
  <2>1. /\ Elems(queue) \cup ({pull} \ {NoCmd}) \subseteq Elems(queue') \cup swallowed'
        /\ swallowed \subseteq swallowed'
        /\ orphans' > 0 => queue' = <<>>
    <3>1. CASE pull # NoCmd
      BY <1>19, <3>1 DEF CancelledAtWait, IInv, OrphansStarveQueue
    <3>2. CASE pull = NoCmd /\ queue # <<>>
      <4>1. orphans = 0
        BY <3>2 DEF IInv, OrphansStarveQueue, TypeOK, HostOK
      <4>2. Elems(queue) = {Head(queue)} \cup Elems(Tail(queue))
        BY <3>2, ElemsTail DEF TypeOK, HostOK
      <4>3. /\ swallowed' = swallowed \cup {Head(queue)} /\ queue' = Tail(queue)
            /\ orphans' = orphans
        BY <1>19, <3>2 DEF CancelledAtWait
      <4> QED BY <3>2, <4>1, <4>2, <4>3
    <3>3. CASE pull = NoCmd /\ queue = <<>>
      BY <1>19, <3>3 DEF CancelledAtWait
    <3> QED BY <3>1, <3>2, <3>3
  <2>2. PullState'
    BY <1>19, <2>1 DEF IInv, PullState, OrphansStarveQueue, CancelledAtWait, Teardown, TypeOK, BridgeOK, HostOK, StreamOK, bridgeVars, hostVars, taskVars
  <2>3. NothingVanishes'
    BY <1>19, <2>1 DEF IInv, PullState, NothingVanishes, InCustody, CancelledAtWait, Teardown, TypeOK, BridgeOK, HostOK, StreamOK, bridgeVars, hostVars, taskVars
  <2>4. ResumeCoversUnacked'
    BY <1>19, <2>1 DEF IInv, PullState, ResumeCoversUnacked, CancelledAtWait, Teardown, TypeOK, BridgeOK, HostOK, StreamOK, bridgeVars, hostVars, taskVars
  <2>5. OrphansStarveQueue'
    BY <1>19, <2>1 DEF IInv, PullState, OrphansStarveQueue, CancelledAtWait, Teardown, TypeOK, BridgeOK, HostOK, StreamOK, bridgeVars, hostVars, taskVars
  <2> QED BY <2>2, <2>3, <2>4, <2>5 DEF IInv
<1>20. CASE RecvAck
  <2>1. /\ Elems(unacked') \subseteq Elems(unacked)
        /\ Elems(unacked) \subseteq Elems(unacked') \cup acked'
        /\ acked \subseteq acked'
    BY <1>20, ElemsWithout DEF RecvAck, Ack, TypeOK, HostOK
  <2>2. PullState'
    BY <1>20, <2>1 DEF IInv, PullState, OrphansStarveQueue, RecvAck, TypeOK, BridgeOK, HostOK, StreamOK, bridgeVars, hostVars, taskVars
  <2>3. NothingVanishes'
    BY <1>20, <2>1 DEF IInv, PullState, NothingVanishes, InCustody, RecvAck, TypeOK, BridgeOK, HostOK, StreamOK, bridgeVars, hostVars, taskVars
  <2>4. ResumeCoversUnacked'
    BY <1>20, <2>1 DEF IInv, PullState, ResumeCoversUnacked, RecvAck, TypeOK, BridgeOK, HostOK, StreamOK, bridgeVars, hostVars, taskVars
  <2>5. OrphansStarveQueue'
    BY <1>20, <2>1 DEF IInv, PullState, OrphansStarveQueue, RecvAck, TypeOK, BridgeOK, HostOK, StreamOK, bridgeVars, hostVars, taskVars
  <2> QED BY <2>2, <2>3, <2>4, <2>5 DEF IInv
<1>21. CASE ServerRestart
  <2>1. PullState'
    BY <1>21, ElemsEmpty DEF IInv, PullState, OrphansStarveQueue, ServerRestart, Teardown, TypeOK, BridgeOK, HostOK, StreamOK, bridgeVars, hostVars, taskVars
  <2>2. NothingVanishes'
    BY <1>21, ElemsEmpty DEF IInv, PullState, NothingVanishes, InCustody, ServerRestart, Teardown, TypeOK, BridgeOK, HostOK, StreamOK, bridgeVars, hostVars, taskVars
  <2>3. ResumeCoversUnacked'
    BY <1>21, ElemsEmpty DEF IInv, PullState, ResumeCoversUnacked, ServerRestart, Teardown, TypeOK, BridgeOK, HostOK, StreamOK, bridgeVars, hostVars, taskVars
  <2>4. OrphansStarveQueue'
    BY <1>21, ElemsEmpty DEF IInv, PullState, OrphansStarveQueue, ServerRestart, Teardown, TypeOK, BridgeOK, HostOK, StreamOK, bridgeVars, hostVars, taskVars
  <2> QED BY <2>1, <2>2, <2>3, <2>4 DEF IInv
<1>22. CASE LateControl
  BY <1>22, QuietStep DEF LateControl, bridgeVars, hostVars, taskVars
<1>23. CASE LateTerm
  BY <1>23, QuietStep DEF LateTerm, bridgeVars, hostVars, taskVars
<1>24. CASE RecvResult
  BY <1>24, QuietStep DEF RecvResult, bridgeVars, hostVars, taskVars
<1>25. CASE RecvFails
  BY <1>25, QuietStep DEF RecvFails, bridgeVars, hostVars, taskVars
<1>26. CASE RecvEnds
  BY <1>26, QuietStep DEF RecvEnds, bridgeVars, hostVars, taskVars
<1>27. CASE PushControl
  BY <1>27, QuietStep DEF PushControl, bridgeVars, hostVars, taskVars
<1>28. CASE Revoke
  BY <1>28, QuietStep DEF Revoke, bridgeVars, hostVars, taskVars
<1>29. CASE ReEnroll
  BY <1>29, QuietStep DEF ReEnroll, bridgeVars, hostVars, taskVars
<1>30. CASE LinkBreak
  BY <1>30, QuietStep DEF LinkBreak, bridgeVars, hostVars, taskVars
<1>31. CASE AgentSeesClose
  BY <1>31, QuietStep DEF AgentSeesClose, bridgeVars, hostVars, taskVars
<1>32. CASE AgentCrash
  BY <1>32, QuietStep DEF AgentCrash, bridgeVars, hostVars, taskVars
<1>33. CASE AgentReceive
  BY <1>33, QuietStep DEF AgentReceive, bridgeVars, hostVars, taskVars
<1>34. ASSUME NEW c \in Commands, AgentFinish(c) PROVE IInv'
  BY <1>34, QuietStep DEF AgentFinish, bridgeVars, hostVars, taskVars
<1>35. CASE AgentSend
  BY <1>35, QuietStep DEF AgentSend, bridgeVars, hostVars, taskVars
<1>37. ASSUME NEW c \in Commands, AgentFinishFails(c) PROVE IInv'
  BY <1>37, QuietStep DEF AgentFinishFails, bridgeVars, hostVars, taskVars
<1>36. CASE UNCHANGED vars
  BY <1>36, QuietStep DEF vars, bridgeVars, hostVars, taskVars
<1> QED
  BY <1>1, <1>2, <1>3, <1>4, <1>5, <1>6, <1>7, <1>8, <1>9, <1>10, <1>11, <1>12, <1>13, <1>14, <1>15, <1>16, <1>17, <1>18, <1>19, <1>20, <1>21, <1>22, <1>23, <1>24, <1>25, <1>26, <1>27, <1>28, <1>29, <1>30, <1>31, <1>32, <1>33, <1>34, <1>35, <1>36, <1>37 DEF Next, BridgeNext, StreamNext, EnvNext, AgentNext

LEMMA Invariance == Spec => [](TypeOK /\ IInv)
<1>1. Init => IInv
  BY ElemsEmpty DEF Init, IInv, PullState, NothingVanishes, ResumeCoversUnacked,
     OrphansStarveQueue
<1>2. TypeOK /\ IInv /\ [Next]_vars => IInv'
  BY InvStep
<1>3. QED
  BY <1>1, <1>2, TypeCorrect, PTL DEF Spec

\* Conservation: put-backs, register's refill, cancelled streams, overlapping
\* startup replay and acks never make an open command disappear except through
\* the two losses the model names.
THEOREM NoCommandVanishes == Spec => []NothingVanishes
  BY Invariance, PTL DEF IInv

\* Resume support holds for any number of commands, reconnects and failures.
THEOREM ResumeIsComplete == Spec => []ResumeCoversUnacked
  BY Invariance, PTL DEF IInv

\* A getter left behind by a cancelled stream waits only on an empty queue, so
\* the next command enqueued is the one it takes.
THEOREM OrphanTakesNext == Spec => []OrphansStarveQueue
  BY Invariance, PTL DEF IInv

--------------------------------------------------------------------------------
(***************************************************************************)
(* Duplicates.  A copy is made by the startup query, of a row that is also   *)
(* announced, and by a reconnect, of a command that is un-acked; all other   *)
(* steps move copies or lose them.                                           *)
(***************************************************************************)
\* How many copies the announcement, the startup query and the streams so far
\* can have made: the first stream finds nothing un-acked to replay.
Allowed == 1 + (IF bridge = "subscribed" THEN 0 ELSE 1) + (IF streams <= 1 THEN 0 ELSE streams - 1)

CopiesOK(c) ==
    /\ c \notin issued => Copies(c) = 0 /\ c \notin Elems(unacked)
    /\ Copies(c) <= Allowed

\* A command is un-acked once at most, so a reconnect makes one copy of it; the
\* startup query runs once in a lifetime, on an empty scan.
DupInv ==
    /\ streams = 0 => unacked = <<>> /\ phase = "none"
    /\ \A c \in Commands : CountIn(unacked, c) <= 1
    /\ restarts = 0 => /\ bridge = "subscribed" => scan = {}
                       /\ \A c \in Commands : CopiesOK(c)

\* The addends of Copies that are not counts in a sequence.
Is(c, d) == IF c = d THEN 1 ELSE 0
In(c, S) == IF c \in S THEN 1 ELSE 0

LEMMA IsIn ==
  /\ \A c, d : Is(c, d) \in Nat /\ Is(c, d) <= 1 /\ (c = d => Is(c, d) = 1) /\ (c # d => Is(c, d) = 0)
  /\ \A c, S : In(c, S) \in Nat /\ In(c, S) <= 1 /\ (c \in S => In(c, S) = 1) /\ (c \notin S => In(c, S) = 0)
BY DEF Is, In

LEMMA CountType ==
  ASSUME NEW S, NEW s \in Seq(S), NEW c
  PROVE  /\ IsFiniteSet({i \in DOMAIN s : s[i] = c}) /\ CountIn(s, c) \in Nat
         /\ c \notin Elems(s) => CountIn(s, c) = 0
         /\ CountIn(s, c) = 0 => c \notin Elems(s)
<1> DEFINE P == {i \in DOMAIN s : s[i] = c}
<1>1. Len(s) \in Nat /\ DOMAIN s = 1..Len(s)
  BY LenProperties
<1>2. IsFiniteSet(1..Len(s))
  BY <1>1, FS_Interval
<1>3. P \in SUBSET (1..Len(s))
  BY <1>1
<1>4. IsFiniteSet(P)
  BY <1>2, <1>3, FS_Subset
<1>5. Cardinality(P) \in Nat /\ (Cardinality(P) = 0 <=> P = {})
  BY <1>4, FS_CardinalityType, FS_EmptySet
<1>6. P = {} <=> c \notin Elems(s)
  BY DEF Elems
<1> QED BY <1>4, <1>5, <1>6 DEF CountIn

LEMMA CountConcat ==
  ASSUME NEW S, NEW s \in Seq(S), NEW t \in Seq(S), NEW c
  PROVE  CountIn(s \o t, c) = CountIn(s, c) + CountIn(t, c)
<1> DEFINE n == Len(s)
           A == {i \in DOMAIN s : s[i] = c}
           B == {i \in DOMAIN t : t[i] = c}
           C == {i \in DOMAIN (s \o t) : (s \o t)[i] = c}
           D == {i \in C : i > n}
<1>1. /\ DOMAIN s = 1..n /\ DOMAIN t = 1..Len(t) /\ n \in Nat /\ Len(t) \in Nat
      /\ DOMAIN (s \o t) = 1..(n + Len(t))
      /\ \A i \in 1..(n + Len(t)) : (s \o t)[i] = IF i <= n THEN s[i] ELSE t[i - n]
      /\ s \o t \in Seq(S)
  BY ConcatProperties, LenProperties
<1>2. IsFiniteSet(A) /\ IsFiniteSet(B) /\ IsFiniteSet(C)
  BY <1>1, CountType
<1>3. Cardinality(A) \in Nat /\ Cardinality(B) \in Nat
  BY <1>2, FS_CardinalityType
<1>4. ExistsBijection(B, D)
  <2> DEFINE f == [i \in B |-> i + n]
  <2>1. f \in [B -> D]
    <3>1. ASSUME NEW i \in B PROVE i + n \in D
      <4>1. i \in 1..Len(t) /\ i + n \in 1..(n + Len(t)) /\ i + n > n /\ (i + n) - n = i
        BY <1>1
      <4> QED BY <1>1, <4>1
    <3> QED BY <3>1
  <2>2. \A i, j \in B : f[i] = f[j] => i = j
    BY <1>1
  <2>3. \A j \in D : \E i \in B : f[i] = j
    <3> TAKE j \in D
    <3>1. j \in 1..(n + Len(t)) /\ j > n /\ j - n \in 1..Len(t) /\ (j - n) + n = j
      BY <1>1
    <3>2. j - n \in B
      BY <1>1, <3>1
    <3> WITNESS j - n \in B
    <3> QED BY <3>1, <3>2
  <2> HIDE DEF f, B, D
  <2>4. f \in Bijection(B, D)
    BY <2>1, <2>2, <2>3 DEF Bijection, Injection, Surjection, IsInjective
  <2> QED BY <2>4 DEF ExistsBijection
<1>5. IsFiniteSet(D) /\ Cardinality(D) = Cardinality(B)
  BY <1>2, <1>4, FS_Bijection
<1>6. C = A \cup D /\ A \cap D = {}
  <2>1. A \subseteq C
    BY <1>1
  <2>2. \A i \in C : i \in A \/ i \in D
    BY <1>1
  <2>3. \A i \in A : i <= n
    BY <1>1
  <2>4. A \cap D = {}
    BY <1>1, <2>3
  <2> QED BY <2>1, <2>2, <2>4
<1> HIDE DEF A, B, C, D
<1>7. Cardinality(C) = Cardinality(A) + Cardinality(D) - Cardinality({})
  BY <1>2, <1>5, <1>6, FS_Union
<1>8. Cardinality(C) = Cardinality(A) + Cardinality(B)
  BY <1>3, <1>5, <1>7, FS_EmptySet
<1> QED BY <1>8 DEF CountIn, A, B, C

LEMMA CountOne ==
  ASSUME NEW c, NEW d
  PROVE  CountIn(<<d>>, c) = Is(c, d)
<1> DEFINE P == {i \in DOMAIN <<d>> : <<d>>[i] = c}
<1>1. DOMAIN <<d>> = {1} /\ <<d>>[1] = d
  OBVIOUS
<1>2. P = IF c = d THEN {1} ELSE {}
  BY <1>1
<1> HIDE DEF P
<1>3. Cardinality(P) = Is(c, d)
  BY <1>2, FS_EmptySet, FS_Singleton DEF Is
<1> QED BY <1>3 DEF CountIn, P

LEMMA CountAppend ==
  ASSUME NEW S, NEW s \in Seq(S), NEW d \in S, NEW c
  PROVE  CountIn(Append(s, d), c) = CountIn(s, c) + Is(c, d)
<1>1. Append(s, d) = s \o <<d>> /\ <<d>> \in Seq(S)
  BY AppendIsConcat
<1>2. CountIn(s \o <<d>>, c) = CountIn(s, c) + CountIn(<<d>>, c)
  BY <1>1, CountConcat
<1> QED BY <1>1, <1>2, CountOne

LEMMA CountTail ==
  ASSUME NEW S, NEW s \in Seq(S), s # <<>>, NEW c
  PROVE  CountIn(s, c) = CountIn(Tail(s), c) + Is(c, Head(s))
<1>1. Head(s) \in S /\ Tail(s) \in Seq(S) /\ <<Head(s)>> \in Seq(S)
  BY HeadTailProperties
<1>2. s = <<Head(s)>> \o Tail(s)
  BY <1>1, ConcatProperties, LenProperties, HeadTailProperties
<1>3. CountIn(<<Head(s)>> \o Tail(s), c) = CountIn(<<Head(s)>>, c) + CountIn(Tail(s), c)
  BY <1>1, CountConcat
<1>4. CountIn(Tail(s), c) \in Nat
  BY <1>1, CountType
<1>5. CountIn(<<Head(s)>>, c) = Is(c, Head(s))
  BY CountOne
<1> DEFINE t == Tail(s)
           one == <<Head(s)>>
<1>6. CountIn(one \o t, c) = CountIn(s, c)
  BY <1>2
<1> HIDE DEF t, one
<1> QED BY <1>3, <1>4, <1>5, <1>6, IsIn DEF t, one

LEMMA CountCut ==
  ASSUME NEW S, NEW s \in Seq(S), NEW n \in 0..Len(s), NEW c
  PROVE  CountIn(Drop(s, n), c) <= CountIn(s, c)
<1>1. Len(s) \in Nat /\ n \in Nat
  BY LenProperties
<1>2. SubSeq(s, 1, n) \in Seq(S) /\ Drop(s, n) \in Seq(S)
  BY ElemsCut
<1>3. SubSeq(s, 1, n) \o Drop(s, n) = SubSeq(s, 1, Len(s))
  <2>1. 1 \in 1..(Len(s) + 1) /\ n \in (1 - 1)..Len(s) /\ Len(s) \in n..Len(s)
    BY <1>1
  <2> QED BY <2>1, ConcatAdjacentSubSeq DEF Drop
<1>4. SubSeq(s, 1, Len(s)) = s
  BY SubSeqFull
<1>5. CountIn(SubSeq(s, 1, n) \o Drop(s, n), c) = CountIn(SubSeq(s, 1, n), c) + CountIn(Drop(s, n), c)
  BY <1>2, CountConcat
<1>6. CountIn(SubSeq(s, 1, n), c) \in Nat /\ CountIn(Drop(s, n), c) \in Nat
  BY <1>2, CountType
<1>7. CountIn(SubSeq(s, 1, n) \o Drop(s, n), c) = CountIn(s, c)
  BY <1>3, <1>4
<1> QED BY <1>5, <1>6, <1>7

LEMMA CountWithout ==
  ASSUME NEW S, NEW s \in Seq(S), NEW c, NEW d
  PROVE  CountIn(Without(s, d), c) <= CountIn(s, c)
<1>0. CountIn(s, c) \in Nat
  BY CountType
<1>1. CASE d \notin Elems(s)
  BY <1>0, <1>1 DEF Without
<1>2. CASE d \in Elems(s)
  <2> DEFINE i == CHOOSE i \in DOMAIN s : s[i] = d
  <2>1. i \in DOMAIN s
    BY <1>2 DEF Elems
  <2>2. Len(s) \in Nat /\ i \in 1..Len(s) /\ i \in Nat /\ i - 1 \in Nat
    BY <2>1, LenProperties
  <2> DEFINE a == SubSeq(s, 1, i - 1)
             m == SubSeq(s, i, i)
             b == SubSeq(s, i + 1, Len(s))
  <2>3. Without(s, d) = a \o b
    BY <1>2 DEF Without
  <2> HIDE DEF i
  <2>4. a \in Seq(S) /\ b \in Seq(S) /\ m \in Seq(S) /\ m \o b \in Seq(S)
    BY <2>2
  <2>5. m \o b = SubSeq(s, i, Len(s))
    <3>1. i \in 1..(Len(s) + 1) /\ i \in (i - 1)..Len(s) /\ Len(s) \in i..Len(s)
      BY <2>2
    <3> QED BY <3>1, ConcatAdjacentSubSeq
  <2>6. a \o (m \o b) = s
    <3>1. 1 \in 1..(Len(s) + 1) /\ i - 1 \in (1 - 1)..Len(s) /\ Len(s) \in (i - 1)..Len(s)
      BY <2>2
    <3>2. SubSeq(s, 1, i - 1) \o SubSeq(s, (i - 1) + 1, Len(s)) = SubSeq(s, 1, Len(s))
      BY <3>1, ConcatAdjacentSubSeq
    <3>3. (i - 1) + 1 = i
      BY <2>2
    <3> QED BY <2>5, <3>2, <3>3, SubSeqFull
  <2> HIDE DEF a, b, m
  <2>7. /\ CountIn(a \o b, c) = CountIn(a, c) + CountIn(b, c)
        /\ CountIn(m \o b, c) = CountIn(m, c) + CountIn(b, c)
        /\ CountIn(a \o (m \o b), c) = CountIn(a, c) + CountIn(m \o b, c)
    BY ZenonT(30), <2>4, CountConcat
  <2>8. CountIn(a, c) \in Nat /\ CountIn(b, c) \in Nat /\ CountIn(m, c) \in Nat
    BY <2>4, CountType
  <2> QED BY <2>3, <2>6, <2>7, <2>8
<1> QED BY <1>1, <1>2

LEMMA CountEmpty == \A c : CountIn(<<>>, c) = 0
<1> TAKE c
<1>1. <<>> \in Seq(Commands)
  OBVIOUS
<1>2. c \notin Elems(<<>>)
  BY ElemsEmpty
<1> QED BY <1>1, <1>2, CountType

LEMMA CopiesType ==
  ASSUME TypeOK, NEW c \in Commands
  PROVE  /\ CountIn(bus, c) \in Nat /\ CountIn(queue, c) \in Nat /\ CountIn(down, c) \in Nat
         /\ execs[c] \in Nat /\ CountIn(unacked, c) \in Nat /\ Copies(c) \in Nat
         /\ In(c, scan) \in Nat /\ Is(c, pull) \in Nat
         /\ Copies(c) = CountIn(bus, c) + CountIn(queue, c) + CountIn(down, c) + execs[c]
                           + In(c, scan) + Is(c, pull)
<1>1. /\ CountIn(bus, c) \in Nat /\ CountIn(queue, c) \in Nat /\ CountIn(down, c) \in Nat
      /\ CountIn(unacked, c) \in Nat
  BY CountType DEF TypeOK, BridgeOK, HostOK, AgentOK
<1>2. execs[c] \in Nat
  BY DEF TypeOK, AgentOK
<1>3. In(c, scan) \in Nat /\ Is(c, pull) \in Nat
  BY DEF Is, In
<1>4. Copies(c) = CountIn(bus, c) + CountIn(queue, c) + CountIn(down, c) + execs[c]
                           + In(c, scan) + Is(c, pull)
  BY DEF Copies, Is, In
<1> QED BY <1>1, <1>2, <1>3, <1>4

LEMMA CopiesTypeNext ==
  ASSUME TypeOK', NEW c \in Commands
  PROVE  /\ CountIn(bus', c) \in Nat /\ CountIn(queue', c) \in Nat /\ CountIn(down', c) \in Nat
         /\ execs'[c] \in Nat /\ CountIn(unacked', c) \in Nat /\ Copies(c)' \in Nat
         /\ In(c, scan') \in Nat /\ Is(c, pull') \in Nat
         /\ Copies(c)' = CountIn(bus', c) + CountIn(queue', c) + CountIn(down', c) + execs'[c]
                           + In(c, scan') + Is(c, pull')
<1>1. bus' \in Seq(Commands) /\ queue' \in Seq(Commands) /\ down' \in Seq(Commands)
      /\ unacked' \in Seq(Commands) /\ execs' \in [Commands -> Nat]
  BY DEF TypeOK, BridgeOK, HostOK, AgentOK
<1>2. /\ CountIn(bus', c) \in Nat /\ CountIn(queue', c) \in Nat /\ CountIn(down', c) \in Nat
      /\ CountIn(unacked', c) \in Nat
  BY <1>1, CountType
<1>3. In(c, scan') \in Nat /\ Is(c, pull') \in Nat
  BY DEF Is, In
<1>4. Copies(c)' = CountIn(bus', c) + CountIn(queue', c) + CountIn(down', c) + execs'[c]
                           + In(c, scan') + Is(c, pull')
  BY DEF Copies, Is, In, CountIn
<1>5. Copies(c)' \in Nat
  BY ONLY <1>1, <1>2, <1>3, <1>4
<1>6. execs'[c] \in Nat
  BY <1>1
<1> QED BY <1>2, <1>3, <1>4, <1>5, <1>6

\* A step that makes no copy keeps the invariant.
LEMMA NoCopyMade ==
  ASSUME TypeOK, DupInv, TypeOK', UNCHANGED <<issued, restarts, streams>>,
         bridge' = bridge \/ bridge' # "subscribed", scan' \subseteq scan,
         streams = 0 => unacked' = <<>> /\ phase' = "none",
         \A c \in Commands : CountIn(unacked', c) <= 1,
         \A c \in Elems(unacked') : c \in Elems(unacked) \/ c = pull,
         \A c \in Commands : Copies(c)' <= Copies(c)
  PROVE  DupInv'
<1>1. ASSUME restarts = 0, NEW c \in Commands PROVE CopiesOK(c)'
  <2>1. CopiesOK(c) /\ Copies(c) \in Nat
    BY <1>1, CopiesType DEF DupInv
  <2>2. Allowed \in Nat /\ Allowed' \in Nat /\ Allowed <= Allowed'
    BY DEF Allowed, TypeOK, CountersOK
  <2>3. Copies(c)' \in Nat
    BY CopiesTypeNext
  <2>4. c \notin issued => c # pull
    <3>1. c = pull => Copies(c) # 0
      <4>1. c = pull => Is(c, pull) = 1
        BY DEF Is
      <4> QED BY SMTT(30), <4>1, CopiesType
    <3> QED BY <2>1, <3>1, IsIn DEF CopiesOK
  <2>5. c \notin issued' => c \notin Elems(unacked')
    BY <2>1, <2>4, IsIn DEF CopiesOK
  <2>6. c \notin issued' => Copies(c)' = 0
    BY <2>1, <2>3, IsIn DEF CopiesOK
  <2>7. Copies(c)' <= Allowed'
    BY <2>1, <2>2, <2>3, IsIn DEF CopiesOK
  <2>8. Elems(unacked)' = Elems(unacked')
    BY DEF Elems
  <2> QED BY <2>5, <2>6, <2>7, <2>8, IsIn DEF CopiesOK
<1>2. \A c \in Commands : CountIn(unacked, c)' = CountIn(unacked', c)
  BY DEF CountIn
<1> QED BY <1>1, <1>2 DEF DupInv

\* Steps on which the copies stay where they are, or are lost with the link.
LEMMA CopiesStay ==
  ASSUME TypeOK, DupInv, TypeOK', UNCHANGED <<issued, restarts, streams, unacked>>,
         bridge' = bridge \/ bridge' # "subscribed", scan' \subseteq scan,
         phase' \in {phase, "none"} \/ phase # "none",
         UNCHANGED <<bus, queue, execs>>, pull' \in {pull, NoCmd}, down' \in {down, <<>>}
  PROVE  DupInv'
<1>1. ASSUME NEW c \in Commands PROVE Copies(c)' <= Copies(c)
  <2>1. CountIn(down', c) <= CountIn(down, c)
    <3>1. CountIn(<<>>, c) = 0 /\ CountIn(down, c) \in Nat
      BY CountEmpty, CopiesType
    <3> QED BY <3>1
  <2>2. pull' = c => pull = c
    BY ConstantsAssumption
  <2>3. c \in scan' => c \in scan
    OBVIOUS
  <2>4. /\ CountIn(queue', c) = CountIn(queue, c) /\ CountIn(bus', c) = CountIn(bus, c)
        /\ execs'[c] = execs[c]
    OBVIOUS
  <2>5. In(c, scan') <= In(c, scan) /\ Is(c, pull') <= Is(c, pull)
    BY <2>2, <2>3, IsIn
  <2> DEFINE rest == CountIn(bus, c) + CountIn(queue, c) + execs[c]
  <2>6. Copies(c)' = rest + CountIn(down', c) + In(c, scan') + Is(c, pull')
    BY <2>4, CopiesTypeNext
  <2>7. Copies(c) = rest + CountIn(down, c) + In(c, scan) + Is(c, pull)
    BY CopiesType
  <2>8. /\ rest \in Nat /\ CountIn(down, c) \in Nat /\ In(c, scan) \in Nat /\ Is(c, pull) \in Nat
        /\ CountIn(down', c) \in Nat /\ In(c, scan') \in Nat /\ Is(c, pull') \in Nat
    BY SMTT(30), CopiesType, CopiesTypeNext
  <2> HIDE DEF rest
  <2> QED BY <2>1, <2>5, <2>6, <2>7, <2>8
<1>2. streams = 0 => unacked' = <<>> /\ phase' = "none"
  BY DEF DupInv
<1>3. \A c \in Commands : CountIn(unacked', c) <= 1
  BY DEF DupInv
<1> QED BY <1>1, <1>2, <1>3, NoCopyMade

LEMMA DupStep ==
  ASSUME TypeOK, IInv, DupInv, TypeOK', [Next]_vars
  PROVE  DupInv'
<1> USE ConstantsAssumption
<1>0. /\ bus \in Seq(Commands) /\ queue \in Seq(Commands) /\ down \in Seq(Commands)
      /\ unacked \in Seq(Commands) /\ execs \in [Commands -> Nat]
      /\ pull \in Commands \cup {NoCmd} /\ streams \in Nat
  BY DEF TypeOK, BridgeOK, HostOK, StreamOK, AgentOK, CountersOK
<1>1. ASSUME NEW d \in Commands, Issue(d) PROVE DupInv'
  <2>1. /\ d \notin issued /\ issued' = issued \cup {d}
        /\ UNCHANGED <<scan, queue, down, execs, pull, unacked, streams, restarts, bridge, phase>>
    BY <1>1 DEF Issue, hostVars, linkVars, agentVars, taskVars, countVars
  <2>2. ASSUME NEW c \in Commands
        PROVE  CountIn(bus', c) <= CountIn(bus, c) + Is(c, d)
    <3>1. CASE Len(bus) < BusCap
      <4>1. bus' = Append(bus, d)
        BY <1>1, <3>1 DEF Issue
      <4>2. CountIn(Append(bus, d), c) = CountIn(bus, c) + Is(c, d)
        BY <1>0, CountAppend
      <4> QED BY <4>1, <4>2, CopiesType, IsIn
    <3>2. CASE ~(Len(bus) < BusCap)
      <4>1. bus # <<>> /\ bus' = Append(Tail(bus), d)
        BY <1>1, <3>2, EmptySeq DEF Issue, TypeOK, BridgeOK
      <4>2. Tail(bus) \in Seq(Commands)
        BY <1>0, <4>1, ElemsTail
      <4>3. CountIn(bus', c) = CountIn(Tail(bus), c) + Is(c, d)
        <5> DEFINE t == Tail(bus)
        <5> HIDE DEF t
        <5>1. CountIn(Append(t, d), c) = CountIn(t, c) + Is(c, d)
          BY <4>2, CountAppend DEF t
        <5> QED BY <4>1, <5>1 DEF t
      <4>4. CountIn(bus, c) = CountIn(Tail(bus), c) + Is(c, Head(bus))
        BY <1>0, <4>1, CountTail
      <4>5. CountIn(Tail(bus), c) \in Nat
        BY <4>2, CountType
      <4> QED BY <4>3, <4>4, <4>5, IsIn
    <3> QED BY <3>1, <3>2
  <2>3. ASSUME NEW c \in Commands PROVE Copies(c)' <= Copies(c) + Is(c, d)
    BY <2>1, <2>2, CopiesType, CopiesTypeNext, IsIn
  <2>4. ASSUME restarts = 0, NEW c \in Commands PROVE CopiesOK(c)'
    <3>1. CopiesOK(c) /\ Copies(c) \in Nat /\ Allowed' = Allowed /\ Allowed \in Nat /\ Allowed >= 1
      <4>1. CopiesOK(c) /\ Copies(c) \in Nat
        BY <2>4, CopiesType DEF DupInv
      <4>2. Allowed' = Allowed /\ Allowed \in Nat /\ Allowed >= 1
        BY <1>0, <2>1 DEF Allowed
      <4> QED BY <4>1, <4>2
    <3>2. Copies(c)' \in Nat
      BY CopiesTypeNext
    <3>3. Elems(unacked)' = Elems(unacked)
      BY <2>1
    <3>4. CASE c = d
      BY <2>1, <2>3, <3>1, <3>2, <3>3, <3>4, IsIn DEF CopiesOK
    <3>5. CASE c # d
      BY <2>1, <2>3, <3>1, <3>2, <3>3, <3>5, IsIn DEF CopiesOK
    <3> QED BY <3>4, <3>5
  <2> QED BY <2>1, <2>4 DEF DupInv, CountIn
<1>2. CASE BridgeSelect
  <2>1. /\ bridge = "subscribed" /\ bridge' = "replaying" /\ scan' \subseteq issued
        /\ UNCHANGED <<issued, bus, queue, down, execs, pull, unacked, streams, restarts, phase>>
    BY <1>2 DEF BridgeSelect, hostVars, linkVars, agentVars, taskVars, countVars
  <2>2. ASSUME restarts = 0, NEW c \in Commands PROVE CopiesOK(c)'
    <3>1. CopiesOK(c) /\ Copies(c) \in Nat /\ c \notin scan
      BY <2>1, <2>2, CopiesType DEF DupInv
    <3>2. Allowed' = Allowed + 1 /\ Allowed \in Nat
      BY <2>1 DEF Allowed, TypeOK, CountersOK
    <3>3. Copies(c)' = Copies(c) + In(c, scan')
      BY <2>1, <3>1, CopiesType, CopiesTypeNext, IsIn
    <3>4. Elems(unacked)' = Elems(unacked)
      BY <2>1
    <3>5. c \notin issued' => Copies(c)' = 0 /\ c \notin Elems(unacked)'
      BY <2>1, <3>1, <3>3, <3>4, IsIn DEF CopiesOK
    <3>6. Copies(c)' <= Allowed'
      BY <3>1, <3>2, <3>3, IsIn DEF CopiesOK
    <3> QED BY <3>5, <3>6, IsIn DEF CopiesOK
  <2> QED BY <2>1, <2>2 DEF DupInv, CountIn
<1>3. ASSUME NEW c \in Commands, Enqueue(c) PROVE
        \A d \in Commands : CountIn(queue', d) <= CountIn(queue, d) + Is(d, c)
  <2> TAKE d \in Commands
  <2>1. CountIn(Append(queue, c), d) = CountIn(queue, d) + Is(d, c)
    BY <1>0, CountAppend
  <2>2. queue' \in {queue, Append(queue, c)}
    BY <1>3 DEF Enqueue
  <2>3. CountIn(queue, d) \in Nat /\ Is(d, c) \in Nat
    BY CopiesType, IsIn
  <2>4. CASE queue' = queue
    BY <2>3, <2>4
  <2>5. CASE queue' = Append(queue, c)
    BY <2>1, <2>3, <2>5
  <2> QED BY <2>2, <2>4, <2>5
<1>4. ASSUME NEW d \in Commands, BridgeReplay(d) PROVE DupInv'
  <2>1. /\ d \in scan /\ scan' = scan \ {d} /\ Enqueue(d)
        /\ UNCHANGED <<issued, bus, down, execs, pull, streams, restarts, phase, bridge>>
    BY <1>4 DEF BridgeReplay, linkVars, agentVars, taskVars, countVars
  <2>2. unacked' = unacked
    BY <2>1 DEF Enqueue
  <2>3. ASSUME NEW c \in Commands PROVE Copies(c)' <= Copies(c)
    <3>1. CountIn(queue', c) <= CountIn(queue, c) + Is(c, d)
      BY <1>3, <2>1
    <3> QED BY <2>1, <3>1, CopiesType, CopiesTypeNext, IsIn
  <2> QED BY <2>1, <2>2, <2>3, NoCopyMade DEF DupInv
<1>5. CASE BridgeForward
  <2> DEFINE d == Head(bus)
  <2>1. /\ bus # <<>> /\ bus' = Tail(bus) /\ Enqueue(d)
        /\ UNCHANGED <<issued, scan, down, execs, pull, streams, restarts, phase, bridge>>
    BY <1>5 DEF BridgeForward, linkVars, agentVars, taskVars, countVars
  <2>2. unacked' = unacked /\ d \in Commands
    BY <1>0, <2>1, ElemsTail DEF Enqueue
  <2>3. ASSUME NEW c \in Commands PROVE Copies(c)' <= Copies(c)
    <3>1. CountIn(queue', c) <= CountIn(queue, c) + Is(c, d)
      BY <1>3, <2>1, <2>2
    <3>2. CountIn(bus, c) = CountIn(bus', c) + Is(c, d)
      BY <1>0, <2>1, CountTail
    <3>3. /\ CountIn(down', c) = CountIn(down, c)
          /\ execs'[c] = execs[c] /\ In(c, scan') = In(c, scan) /\ Is(c, pull') = Is(c, pull)
      BY <2>1
    <3>4. Is(c, d) \in Nat
      BY IsIn
    <3>5. CountIn(queue', c) + CountIn(bus', c) <= CountIn(queue, c) + CountIn(bus, c)
      BY <3>1, <3>2, <3>4, CopiesType, CopiesTypeNext
    <3> QED BY <3>3, <3>5, CopiesType, CopiesTypeNext
  <2> QED BY <2>1, <2>2, <2>3, NoCopyMade DEF DupInv
<1>6. CASE BridgeForwardFails
  <2>1. /\ bus # <<>> /\ bus' = Tail(bus)
        /\ UNCHANGED <<issued, scan, queue, unacked, down, execs, pull, streams, restarts, phase, bridge>>
    BY <1>6 DEF BridgeForwardFails, hostVars, linkVars, agentVars, taskVars
  <2>2. ASSUME NEW c \in Commands PROVE Copies(c)' <= Copies(c)
    <3>1. CountIn(bus, c) = CountIn(bus', c) + Is(c, Head(bus))
      BY <1>0, <2>1, CountTail
    <3>2. /\ CountIn(queue', c) = CountIn(queue, c) /\ CountIn(down', c) = CountIn(down, c)
          /\ execs'[c] = execs[c] /\ In(c, scan') = In(c, scan) /\ Is(c, pull') = Is(c, pull)
      BY <2>1
    <3>3. Is(c, Head(bus)) \in Nat
      BY IsIn
    <3>4. CountIn(bus', c) <= CountIn(bus, c)
      BY <3>1, <3>3, CopiesType, CopiesTypeNext
    <3> QED BY <3>4, <3>2, CopiesType, CopiesTypeNext
  <2> QED BY <2>1, <2>2, NoCopyMade DEF DupInv
<1>7. CASE Connect
  <2> DEFINE items == unacked \o queue
             taken == Least(orphans, Len(items))
  <2>1. /\ queue' = Drop(items, taken) /\ phase = "none" /\ streams' = streams + 1
        /\ UNCHANGED <<issued, scan, bus, unacked, down, execs, pull, restarts, bridge>>
    BY <1>7 DEF Connect, Register, bridgeVars, agentVars
  <2>2. items \in Seq(Commands)
    BY <1>0, ElemsConcat
  <2>3. taken \in 0..Len(items)
    BY <2>2, LenProperties DEF Least, TypeOK, HostOK
  <2> HIDE DEF taken
  <2>4. ASSUME NEW c \in Commands PROVE CountIn(queue', c) <= CountIn(unacked, c) + CountIn(queue, c)
    <3>1. CountIn(items, c) = CountIn(unacked, c) + CountIn(queue, c)
      BY <1>0, CountConcat
    <3> HIDE DEF items
    <3>2. CountIn(Drop(items, taken), c) <= CountIn(items, c)
      BY <2>2, <2>3, CountCut
    <3> QED BY <2>1, <3>1, <3>2
  <2> HIDE DEF items
  <2>5. ASSUME NEW c \in Commands PROVE Copies(c)' <= Copies(c) + CountIn(unacked, c)
    BY <2>1, <2>4, CopiesType, CopiesTypeNext, IsIn
  <2>6. ASSUME restarts = 0, NEW c \in Commands PROVE CopiesOK(c)'
    <3>1. /\ CopiesOK(c) /\ Copies(c) \in Nat /\ CountIn(unacked, c) \in Nat /\ CountIn(unacked, c) <= 1
          /\ c \notin Elems(unacked) => CountIn(unacked, c) = 0
      BY <1>0, <2>6, CopiesType, CountType DEF DupInv
    <3>2. Copies(c)' \in Nat
      BY CopiesTypeNext
    <3>3. /\ Allowed \in Nat /\ (streams = 0 => Allowed' = Allowed)
          /\ (streams # 0 => Allowed' = Allowed + 1)
      BY <1>0, <2>1 DEF Allowed
    <3>4. streams = 0 => CountIn(unacked, c) = 0
      BY <3>1, ElemsEmpty DEF DupInv
    <3>5. Elems(unacked)' = Elems(unacked)
      BY <2>1
    <3>6. c \notin issued' => Copies(c)' = 0 /\ c \notin Elems(unacked)'
      BY <2>1, <2>5, <3>1, <3>2, <3>5, IsIn DEF CopiesOK
    <3>7. Copies(c)' <= Allowed'
      BY <2>5, <3>1, <3>2, <3>3, <3>4, IsIn DEF CopiesOK
    <3> QED BY <3>6, <3>7, IsIn DEF CopiesOK
  <2>7. streams' # 0
    BY <1>0, <2>1
  <2> QED BY <2>1, <2>6, <2>7 DEF DupInv, CountIn
<1>8. ASSUME queue # <<>>, pull = NoCmd, pull' = Head(queue), queue' = Tail(queue), NEW c \in Commands
      PROVE  CountIn(queue', c) + Is(c, pull') = CountIn(queue, c) + Is(c, pull)
  <2>1. CountIn(queue, c) = CountIn(queue', c) + Is(c, Head(queue))
    BY <1>0, <1>8, CountTail
  <2>2. c # pull /\ CountIn(queue, c) \in Nat /\ CountIn(queue', c) \in Nat
    BY <1>8, CopiesType, CopiesTypeNext, IsIn
  <2> QED BY <1>8, <2>1, <2>2, IsIn
<1>9. ASSUME NEW cq, StartTasks(cq), phase # "none", phase # "wait",
             UNCHANGED <<bridgeVars, unacked, linkVars, agentVars, countVars>>
      PROVE  DupInv'
  <2>1. UNCHANGED <<issued, scan, bus, down, execs, streams, restarts, bridge>>
    BY <1>9 DEF bridgeVars, linkVars, agentVars, countVars
  <2>2. pull = NoCmd /\ streams # 0
    BY <1>9 DEF IInv, PullState, DupInv
  <2>3. ASSUME NEW c \in Commands PROVE Copies(c)' <= Copies(c)
    <3>1. CASE queue = <<>>
      <4>1. pull' = pull /\ queue' = queue
        BY <1>9, <2>2, <3>1 DEF StartTasks
      <4> QED BY <2>1, <4>1, CopiesType, CopiesTypeNext, IsIn
    <3>2. CASE queue # <<>>
      <4>1. pull' = Head(queue) /\ queue' = Tail(queue)
        BY <1>9, <3>2 DEF StartTasks
      <4>2. CountIn(queue', c) + Is(c, pull') = CountIn(queue, c) + Is(c, pull)
        BY <1>8, <2>2, <3>2, <4>1
      <4> QED BY <2>1, <4>2, CopiesType, CopiesTypeNext, IsIn
    <3> QED BY <3>1, <3>2
  <2> QED BY <1>9, <2>1, <2>2, <2>3, NoCopyMade DEF DupInv
<1>10. CASE LatePull
  <2>1. /\ queue # <<>> /\ pull = NoCmd /\ pull' = Head(queue) /\ queue' = Tail(queue)
        /\ UNCHANGED <<issued, scan, bus, unacked, down, execs, streams, restarts, bridge, phase>>
    BY <1>10 DEF LatePull, bridgeVars, linkVars, agentVars, countVars
  <2>2. ASSUME NEW c \in Commands PROVE Copies(c)' <= Copies(c)
    <3>1. CountIn(queue', c) + Is(c, pull') = CountIn(queue, c) + Is(c, pull)
      BY <1>8, <2>1
    <3>2. /\ CountIn(bus', c) = CountIn(bus, c) /\ CountIn(down', c) = CountIn(down, c)
          /\ execs'[c] = execs[c] /\ In(c, scan') = In(c, scan)
      BY <2>1
    <3> QED BY <3>1, <3>2, CopiesType, CopiesTypeNext
  <2> QED BY <2>1, <2>2, NoCopyMade DEF DupInv
<1>11. ASSUME phase = "wait", PutBack, pull' = NoCmd,
              UNCHANGED <<bridgeVars, unacked, linkVars, agentVars, countVars>>
       PROVE  DupInv'
  <2>1. UNCHANGED <<issued, scan, bus, down, execs, streams, restarts, bridge>>
    BY <1>11 DEF bridgeVars, linkVars, agentVars, countVars
  <2>2. ASSUME NEW c \in Commands PROVE Copies(c)' <= Copies(c)
    <3>1. CountIn(queue', c) = CountIn(queue, c) + Is(c, pull)
      <4>1. CASE pull = NoCmd
        BY <1>11, <4>1, CopiesType, IsIn DEF PutBack
      <4>2. CASE pull \in Commands
        <5>1. CountIn(Append(queue, pull), c) = CountIn(queue, c) + Is(c, pull)
          BY <1>0, <4>2, CountAppend
        <5> QED BY <1>11, <4>2, <5>1 DEF PutBack
      <4> QED BY <1>0, <4>1, <4>2
    <3>2. c # pull'
      BY <1>11
    <3> QED BY <2>1, <3>1, <3>2, CopiesType, CopiesTypeNext, IsIn
  <2> QED BY <1>11, <2>1, <2>2, NoCopyMade DEF DupInv
<1>12. CASE ResumeCommand
  <2>1. /\ phase = "wait" /\ pull \in Commands /\ pull' = NoCmd /\ down' \in {down, Append(down, pull)}
        /\ unacked' = IF pull \in Elems(unacked) THEN unacked ELSE Append(unacked, pull)
        /\ UNCHANGED <<issued, scan, bus, queue, execs, streams, restarts, bridge>>
    BY <1>0, <1>12 DEF ResumeCommand, MarkInFlight, bridgeVars, agentVars, countVars
  <2>2. ASSUME NEW c \in Commands PROVE Copies(c)' <= Copies(c)
    <3>1. CountIn(down', c) <= CountIn(down, c) + Is(c, pull)
      <4>1. CountIn(Append(down, pull), c) = CountIn(down, c) + Is(c, pull)
        BY <1>0, <2>1, CountAppend
      <4>2. CountIn(down, c) \in Nat /\ Is(c, pull) \in Nat
        BY CopiesType, IsIn
      <4>3. CASE down' = down
        BY <4>2, <4>3
      <4>4. CASE down' = Append(down, pull)
        BY <4>1, <4>2, <4>4
      <4> QED BY <2>1, <4>3, <4>4
    <3>2. Is(c, pull') = 0
      BY <2>1, IsIn
    <3>3. /\ CountIn(bus', c) = CountIn(bus, c) /\ CountIn(queue', c) = CountIn(queue, c)
          /\ execs'[c] = execs[c] /\ In(c, scan') = In(c, scan)
      BY <2>1
    <3> QED BY <3>1, <3>2, <3>3, CopiesType, CopiesTypeNext
  <2>3. ASSUME NEW c \in Commands PROVE CountIn(unacked', c) <= 1
    <3>1. CASE pull \in Elems(unacked)
      BY <2>1, <3>1 DEF DupInv
    <3>2. CASE pull \notin Elems(unacked)
      <4>1. CountIn(unacked', c) = CountIn(unacked, c) + Is(c, pull)
        BY <1>0, <2>1, <3>2, CountAppend, IsIn
      <4>2. c = pull => CountIn(unacked, c) = 0
        BY <1>0, <3>2, CountType
      <4>3. CountIn(unacked, c) \in Nat /\ CountIn(unacked, c) <= 1
        BY CopiesType DEF DupInv
      <4> QED BY <4>1, <4>2, <4>3, IsIn
    <3> QED BY <3>1, <3>2
  <2>4. Elems(unacked') \subseteq Elems(unacked) \cup {pull}
    BY <1>0, <2>1, ElemsAppend
  <2>5. streams # 0
    BY <2>1 DEF DupInv
  <2> QED BY <2>1, <2>2, <2>3, <2>4, <2>5, NoCopyMade
<1>13. CASE CancelledAtWait
  <2>1. /\ phase = "wait" /\ pull' = NoCmd /\ phase' = "none"
        /\ UNCHANGED <<issued, scan, bus, unacked, down, execs, streams, restarts, bridge>>
        /\ queue' = queue \/ (queue # <<>> /\ queue' = Tail(queue))
    BY <1>13 DEF CancelledAtWait, Teardown, bridgeVars, linkVars, agentVars, countVars
  <2>2. ASSUME NEW c \in Commands PROVE Copies(c)' <= Copies(c)
    <3>1. CountIn(queue', c) <= CountIn(queue, c)
      <4>1. CASE queue' = queue
        BY <4>1, CopiesType
      <4>2. CASE queue # <<>> /\ queue' = Tail(queue)
        <5>1. CountIn(queue, c) = CountIn(queue', c) + Is(c, Head(queue))
          BY <1>0, <4>2, CountTail
        <5> QED BY <5>1, CopiesTypeNext, IsIn
      <4> QED BY <2>1, <4>1, <4>2
    <3>2. Is(c, pull') = 0
      BY <2>1, IsIn
    <3>3. /\ CountIn(bus', c) = CountIn(bus, c) /\ CountIn(down', c) = CountIn(down, c)
          /\ execs'[c] = execs[c] /\ In(c, scan') = In(c, scan)
      BY <2>1
    <3> QED BY <3>1, <3>2, <3>3, CopiesType, CopiesTypeNext
  <2> QED BY <2>1, <2>2, NoCopyMade DEF DupInv
<1>14. CASE RecvAck
  <2>1. /\ unacked' = Without(unacked, handling)
        /\ UNCHANGED <<issued, scan, bus, queue, down, execs, pull, streams, restarts, bridge, phase>>
        /\ phase # "none"
    BY <1>14 DEF RecvAck, RecvAlive, Ack, bridgeVars, linkVars, agentVars, taskVars, countVars
  <2>2. ASSUME NEW c \in Commands PROVE Copies(c)' <= Copies(c)
    BY <2>1, CopiesType, CopiesTypeNext, IsIn
  <2>3. ASSUME NEW c \in Commands PROVE CountIn(unacked', c) <= 1
    <3>1. CountIn(unacked', c) <= CountIn(unacked, c)
      BY <1>0, <2>1, CountWithout
    <3> QED BY <3>1, CopiesType, CopiesTypeNext DEF DupInv
  <2>4. Elems(unacked') \subseteq Elems(unacked)
    BY <1>0, <2>1, ElemsWithout
  <2>5. streams # 0
    BY <2>1 DEF DupInv
  <2> QED BY <2>1, <2>2, <2>3, <2>4, <2>5, NoCopyMade
<1>15. CASE AgentReceive
  <2>1. /\ down # <<>> /\ down' = Tail(down) /\ execs' = [execs EXCEPT ![Head(down)] = @ + 1]
        /\ UNCHANGED <<issued, scan, bus, queue, unacked, pull, streams, restarts, bridge, phase>>
    BY <1>15 DEF AgentReceive, bridgeVars, hostVars, taskVars, countVars
  <2>2. ASSUME NEW c \in Commands PROVE Copies(c)' <= Copies(c)
    <3>1. CountIn(down, c) = CountIn(down', c) + Is(c, Head(down))
      BY <1>0, <2>1, CountTail
    <3>2. execs'[c] = execs[c] + Is(c, Head(down))
      BY <1>0, <2>1 DEF Is
    <3>3. /\ CountIn(bus', c) = CountIn(bus, c) /\ CountIn(queue', c) = CountIn(queue, c)
          /\ In(c, scan') = In(c, scan) /\ Is(c, pull') = Is(c, pull)
      BY <2>1
    <3>4. Is(c, Head(down)) \in Nat
      BY IsIn
    <3>5. CountIn(down', c) + execs'[c] = CountIn(down, c) + execs[c]
      BY <3>1, <3>2, <3>4, CopiesType, CopiesTypeNext
    <3> QED BY <3>3, <3>5, CopiesType, CopiesTypeNext
  <2> QED BY <2>1, <2>2, NoCopyMade DEF DupInv
<1>16. CASE ServerRestart
  <2>1. restarts' # 0 /\ unacked' = <<>> /\ phase' = "none"
    BY <1>16 DEF ServerRestart, Teardown, TypeOK, CountersOK
  <2>2. \A c \in Commands : CountIn(<<>>, c) <= 1
    BY CountEmpty
  <2> QED BY <2>1, <2>2 DEF DupInv, CountIn
<1>17. CASE BridgeReplayEnd \/ BridgeReplayFails \/ \E c \in Commands : CloseRow(c)
  BY <1>17, CopiesStay DEF BridgeReplayEnd, BridgeReplayFails, CloseRow, bridgeVars, hostVars,
     linkVars, agentVars, taskVars, countVars
<1>18. CASE LoadAborted \/ LateControl \/ LateTerm \/ CancelledAtYield
  BY <1>18, CopiesStay DEF LoadAborted, LateControl, LateTerm, CancelledAtYield, Teardown, bridgeVars,
     hostVars, linkVars, agentVars, taskVars, countVars
<1>19. CASE RecvResult \/ RecvFails \/ RecvEnds \/ PushControl \/ Revoke \/ ReEnroll
  BY <1>19, CopiesStay DEF RecvResult, RecvFails, RecvEnds, PushControl, Revoke, ReEnroll, bridgeVars,
     hostVars, linkVars, agentVars, taskVars, countVars
<1>20. CASE LinkBreak \/ AgentSeesClose \/ AgentCrash
  BY <1>20, CopiesStay DEF LinkBreak, AgentSeesClose, AgentCrash, LoseLink, bridgeVars, hostVars,
     agentVars, taskVars, countVars
<1>21. CASE AgentSend \/ \E c \in Commands : AgentFinish(c) \/ AgentFinishFails(c)
  BY <1>21, CopiesStay DEF AgentSend, AgentFinish, AgentFinishFails, bridgeVars, hostVars, linkVars, taskVars, countVars
<1>22. CASE UNCHANGED vars
  BY <1>22, CopiesStay DEF vars, bridgeVars, hostVars, linkVars, agentVars, taskVars, countVars
<1>23. CASE NextIteration \/ \E hb \in {0, 1} : LoadDone(hb)
  BY <1>9, <1>23 DEF NextIteration, LoadDone
<1>24. CASE ResumeTerm \/ ResumeRecvDone \/ ResumeControl
  BY <1>11, <1>24 DEF ResumeTerm, ResumeRecvDone, ResumeControl, Teardown
<1> QED
  BY <1>1, <1>2, <1>4, <1>5, <1>6, <1>7, <1>10, <1>12, <1>13, <1>14, <1>15, <1>16, <1>17, <1>18, <1>19,
     <1>20, <1>21, <1>22, <1>23, <1>24 DEF Next, BridgeNext, StreamNext, EnvNext, AgentNext

\* For any commands, reconnects and failures, within one server lifetime a command
\* has at most one copy per accepted stream and one more (CommandDispatcher.register
\* and the startup replay of run_command_bridge are the only ones to make copies).
THEOREM CopiesNeedReconnect == Spec => []DuplicatesNeedReconnect
<1>1. Init => DupInv
  <2> SUFFICES ASSUME Init PROVE DupInv
    OBVIOUS
  <2>1. \A c \in Commands : CountIn(<<>>, c) = 0
    BY CountEmpty
  <2>2. ASSUME NEW c \in Commands PROVE Copies(c) = 0
    BY <2>1, ConstantsAssumption DEF Init, Copies
  <2>3. Allowed = 1
    BY DEF Init, Allowed
  <2> QED BY <2>1, <2>2, <2>3, ElemsEmpty DEF Init, DupInv, CopiesOK
<1>2. TypeOK /\ IInv /\ DupInv /\ TypeOK' /\ [Next]_vars => DupInv'
  BY DupStep
<1>3. TypeOK /\ DupInv => DuplicatesNeedReconnect
  <2> SUFFICES ASSUME TypeOK, DupInv, restarts = 0, NEW c \in Commands
               PROVE  Copies(c) <= IF streams <= 1 THEN 2 ELSE 1 + streams
    BY DEF DuplicatesNeedReconnect
  <2>1. Copies(c) <= Allowed /\ Copies(c) \in Nat
    BY CopiesType DEF DupInv, CopiesOK
  <2>2. Allowed \in Nat /\ Allowed <= IF streams <= 1 THEN 2 ELSE 1 + streams
    BY DEF Allowed, TypeOK, CountersOK
  <2>3. streams \in Nat
    BY DEF TypeOK, CountersOK
  <2>4. CASE streams <= 1
    BY <2>1, <2>2, <2>3, <2>4
  <2>5. CASE ~(streams <= 1)
    BY <2>1, <2>2, <2>3, <2>5
  <2> QED BY <2>4, <2>5
<1> QED BY <1>1, <1>2, <1>3, Invariance, PTL DEF Spec


================================================================================
