----------------------------- MODULE Access_proofs -----------------------------
(***************************************************************************)
(* Hosts within Access, for every set of hosts, tokens, requests and groups    *)
(* and every capacity: what an enrollment token admits, that a configured       *)
(* interval reaches the agent, that a running task awaits an answer, and that   *)
(* the groups form a forest.                                                     *)
(***************************************************************************)
EXTENDS Access, FiniteSetTheorems, SequenceTheorems, TLAPS

\* A token that can still be claimed has admitted nobody.
TokenInv ==
    /\ DOMAIN tokens = Token /\ DOMAIN admitted = Token
    /\ \A t \in Token :
          /\ tokens[t] \in {"unused", "open", "expired"} => admitted[t] = {}
          /\ admitted[t] = {} \/ \E h \in Host : admitted[t] = {h}

HostTypes ==
    /\ status \in [Host -> {"unused", "offline", "healthy", "deleted"}]
    /\ ival \in [Host -> Interval] /\ agent \in [Host -> Interval]
    /\ stream \in [Host -> {"down", "loading", "up"}]
    /\ loaded \in [Host -> Interval \cup {None}]
    /\ ctl \in [Host -> Seq(Interval \cup Kinds)]

\* An agent that uses interval a will use v once it has received the messages of q.
Drains(a, q, v) ==
    \/ a = v /\ \A i \in DOMAIN q : q[i] \in Kinds
    \/ \E i \in DOMAIN q : q[i] = v /\ \A j \in DOMAIN q : j > i => q[j] \in Kinds

StreamOK(h) ==
    /\ stream[h] = "down" => ctl[h] = <<>>
    /\ stream[h] # "down" => status[h] # "unused"
    /\ stream[h] # "loading" => loaded[h] = None

PushTypes ==
    /\ DOMAIN req = Req
    /\ \A r \in Req : At(r, "push") => req[r].host \in Host /\ req[r].ival \in Interval

\* A PATCH has committed the host's interval and not yet pushed it.
Pending(h) == \E r \in Req : At(r, "push") /\ req[r].host = h /\ req[r].ival = ival[h]

IntervalOK(h) ==
    h \in Rows \ outdated /\ stream[h] = "up" =>
        Drains(agent[h], ctl[h], ival[h]) \/ Pending(h)

IntervalInv == HostTypes /\ PushTypes /\ \A h \in Host : StreamOK(h) /\ IntervalOK(h)

\* Requests that have asked an agent and not yet committed their task.
Asking(h, k) == {r \in Req : At(r, "task") /\ req[r].host = h /\ req[r].kind = k}

TaskTypes ==
    /\ DOMAIN req = Req
    /\ ctl \in [Host -> Seq(Interval \cup Kinds)]
    /\ asked \in [Host -> [Kinds -> Nat]] /\ running \in [Host -> [Kinds -> Nat]]
    /\ missed \in [Host -> [Kinds -> Nat]]
    /\ \A h \in Host, k \in Kinds : IsFiniteSet(Asking(h, k))
    /\ \A r \in Req : At(r, "task") => req[r].host \in Host /\ req[r].kind \in Kinds

\* RunningTasksAwaitAnAnswer for one host, with the tasks that are about to be
\* committed.
SurveyOK(h) ==
    running[h]["survey"] + Cardinality(Asking(h, "survey"))
        <= Outstanding(h, "survey") + missed[h]["survey"]

ScanOK(h) ==
    \/ missed[h]["scan"] > 0 \/ (running[h]["scan"] = 0 /\ Asking(h, "scan") = {})
    \/ h \in matching \/ Outstanding(h, "scan") > 0

AnswerInv == TaskTypes /\ \A h \in Host : SurveyOK(h) /\ ScanOK(h)

--------------------------------------------------------------------------------
(***************************************************************************)
(* Enrollment tokens.                                                        *)
(***************************************************************************)
LEMMA TokenInvStep == TokenInv /\ [Next]_vars => TokenInv'
<1> SUFFICES ASSUME TokenInv, [Next]_vars PROVE TokenInv'
  OBVIOUS
<1> USE DEF TokenInv
<1>1. ASSUME UNCHANGED <<tokens, admitted>> PROVE TokenInv'
  BY <1>1
<1>2. ASSUME NEW t \in Token, IssueToken(t) PROVE TokenInv'
  BY <1>2 DEF IssueToken
<1>3. ASSUME NEW t \in Token, TokenExpires(t) PROVE TokenInv'
  BY <1>3 DEF TokenExpires
<1>4. ASSUME NEW r \in Req, RevokeTokenCommit(r) PROVE TokenInv'
  BY <1>4 DEF RevokeTokenCommit
<1>5. ASSUME NEW r \in Req, RedeemCommit(r) PROVE TokenInv'
  <2>1. PICK t : t = req[r].tok
    OBVIOUS
  <2>2. CASE UNCHANGED <<tokens, admitted>>
    BY <1>1, <2>2
  <2>3. CASE Claim(t)
    <3>1. PICK h \in Host : /\ tokens' = [tokens EXCEPT ![t] = "redeemed"]
                            /\ admitted' = [admitted EXCEPT ![t] = @ \cup {h}]
      BY <1>5, <2>1, <2>3 DEF RedeemCommit
    <3>2. t \in Token => admitted'[t] = {h} /\ tokens'[t] = "redeemed"
      BY <2>3, <3>1 DEF Claim
    <3>3. \A u \in Token : u # t => admitted'[u] = admitted[u] /\ tokens'[u] = tokens[u]
      BY <3>1
    <3> QED BY <3>1, <3>2, <3>3
  <2> QED BY <1>5, <2>1, <2>2, <2>3 DEF RedeemCommit, tokenVars
<1>6. CASE HostStep
  BY <1>1, <1>2, <1>3, <1>4, <1>5, <1>6 DEF HostStep, RevokeTokenRead, RedeemRead, TaskCommit,
     PruneRead, PruneCommit, DeleteHostRead, AskAgent, Connect, LoadInterval, PushInitial,
     ReceiveControl, Disconnect, HeartbeatRead, HeartbeatCommit, HeartbeatAges, SurveyArrives,
     InventoryArrives, MatchDone, PatchHost, PushInterval, OfflineSweepRead, OfflineSweepCommit,
     hostVars, tokenVars
<1>7. ASSUME NEW r \in Req, RemoveHost(r) PROVE TokenInv'
  BY <1>1, <1>7 DEF RemoveHost, DeleteHostCommit, tokenVars
<1>8. CASE UNCHANGED hostVars
  BY <1>1, <1>8 DEF hostVars
<1>9. CASE UNCHANGED vars
  BY <1>8, <1>9 DEF vars
<1> QED BY <1>6, <1>7, <1>8, <1>9 DEF Next

\* EnrollmentService.redeem claims a token for at most one host, however
\* redemptions, expiry and revocation of the token overlap.
THEOREM TokenIsSingleUse == Spec => []TokenAdmitsOneHost
<1>1. Init => TokenInv
  BY DEF Init, HostInit, TokenInv
<1>2. TokenInv => TokenAdmitsOneHost
  BY FS_EmptySet, FS_Singleton DEF TokenInv, TokenAdmitsOneHost
<1> QED BY <1>1, <1>2, TokenInvStep, PTL DEF Spec

--------------------------------------------------------------------------------
(***************************************************************************)
(* The requests that have told an agent something and not yet the database,  *)
(* or the database and not yet the agent.                                     *)
(***************************************************************************)
\* Those at pc are the same after the step.
SameAt(pc) ==
    /\ DOMAIN req' = Req
    /\ \A r \in Req : (At(r, pc) \/ At(r, pc)') => req'[r] = req[r]

SameAsking == SameAt("task")
SamePushing == SameAt("push")
Same == SameAsking /\ SamePushing

LEMMA WhoWaits ==
  ASSUME DOMAIN req = Req, [Next]_vars
  PROVE  \/ Same
         \/ \E r \in Req : TaskCommit(r) \/ PushInterval(r)
         \/ \E r \in Req, h \in Host, k \in Kinds : AskAgent(r, h, k)
         \/ \E r \in Req, h \in Host, i \in Interval : PatchHost(r, h, i)
<1> USE DEF Same, SameAsking, SamePushing, SameAt, Begin, Goto, Done, At, Idle, Call, Quiet
<1>1. CASE HostStep
  <2>1. ASSUME UNCHANGED req PROVE Same
    BY <2>1
  <2>2. ASSUME NEW r \in Req, NEW t \in Token, RevokeTokenRead(r, t) \/ RedeemRead(r, t)
        PROVE  Same
    BY <2>2 DEF RevokeTokenRead, RedeemRead
  <2>3. ASSUME NEW r \in Req, RevokeTokenCommit(r) \/ RedeemCommit(r) \/ PruneRead(r) \/ PruneCommit(r)
        PROVE  Same
    BY <2>3 DEF RevokeTokenCommit, RedeemCommit, PruneRead, PruneCommit
  <2>4. ASSUME NEW r \in Req, NEW h \in Host, DeleteHostRead(r, h) PROVE Same
    BY <2>4 DEF DeleteHostRead
  <2> HIDE DEF Same
  <2> QED BY <1>1, <2>1, <2>2, <2>3, <2>4 DEF HostStep, IssueToken, TokenExpires, Connect,
        LoadInterval, PushInitial, ReceiveControl, Disconnect, HeartbeatRead, HeartbeatCommit,
        HeartbeatAges, SurveyArrives, InventoryArrives, MatchDone, OfflineSweepRead,
        OfflineSweepCommit
<1>2. ASSUME NEW r \in Req, RemoveHost(r) PROVE Same
  BY <1>2 DEF RemoveHost, DeleteHostCommit
<1>3. CASE AccessStep
  <2>1. ASSUME UNCHANGED req PROVE Same
    BY <2>1
  <2>2. ASSUME NEW r \in Req, NEW rec, rec.pc \notin {"task", "push"}, Begin(r, rec) PROVE Same
    BY <2>2
  <2>3. ASSUME NEW r \in Req, NEW g, NEW p, UpdateGroupRead(r, g, p) \/ AddMemberRead(r, g, p)
        PROVE  Same
    BY <2>2, <2>3 DEF UpdateGroupRead, AddMemberRead
  <2>4. ASSUME NEW r \in Req, NEW x, DeleteRoleRead(r, x) PROVE Same
    BY <2>2, <2>4 DEF DeleteRoleRead
  <2>5. ASSUME NEW r \in Req, NEW u, NEW x, NEW s, CreateBindingRead(r, u, x, s) \/ DispatchResolve(r, u, s)
        PROVE  Same
    BY <2>2, <2>5 DEF CreateBindingRead, DispatchResolve
  <2>6. ASSUME NEW r \in Req, UpdateGroupCommit(r) \/ AddMemberCommit(r) \/ DeleteRoleCommit(r)
                 \/ CreateBindingCommit(r) \/ DispatchDone(r)
        PROVE  Same
    BY <2>6 DEF UpdateGroupCommit, AddMemberCommit, DeleteRoleCommit, CreateBindingCommit, DispatchDone
  <2>7. ASSUME NEW r \in Req, DispatchCheck(r) PROVE Same
    BY <2>7 DEF DispatchCheck
  <2> HIDE DEF Same, Begin
  <2> QED BY <1>3, <2>1, <2>3, <2>4, <2>5, <2>6, <2>7 DEF AccessStep, CreateGroup, DeleteGroup,
        RemoveMember, CreateRole, UpdateRole, DeleteBinding
<1>4. CASE UNCHANGED vars
  BY <1>4 DEF vars
<1> HIDE DEF Same
<1> QED BY <1>1, <1>2, <1>3, <1>4 DEF Next

\* What asks does not push, and what pushes does not ask.
LEMMA OthersWait ==
  ASSUME DOMAIN req = Req, NEW r \in Req
  PROVE  /\ TaskCommit(r) => SamePushing
         /\ PushInterval(r) => SameAsking
         /\ \A h \in Host, k \in Kinds : AskAgent(r, h, k) => SamePushing
         /\ \A h \in Host, i \in Interval : PatchHost(r, h, i) => SameAsking
BY DEF SameAsking, SamePushing, SameAt, TaskCommit, PushInterval, AskAgent, PatchHost, Begin, Done,
   Goto, At, Idle

--------------------------------------------------------------------------------
(***************************************************************************)
(* The configured interval.                                                  *)
(***************************************************************************)
LEMMA AppendFacts ==
  ASSUME NEW S, NEW q \in Seq(S), NEW m \in S
  PROVE  /\ Append(q, m) \in Seq(S) /\ Len(q) \in Nat
         /\ DOMAIN q = 1..Len(q) /\ DOMAIN Append(q, m) = 1..(Len(q) + 1)
         /\ Append(q, m)[Len(q) + 1] = m
         /\ \A i \in 1..Len(q) : Append(q, m)[i] = q[i]
<1>1. /\ Append(q, m) \in Seq(S) /\ Len(Append(q, m)) = Len(q) + 1
      /\ \A i \in 1..Len(q) : Append(q, m)[i] = q[i]
      /\ Append(q, m)[Len(q) + 1] = m
  BY AppendProperties
<1>2. /\ Len(q) \in Nat /\ DOMAIN q = 1..Len(q)
      /\ DOMAIN Append(q, m) = 1..Len(Append(q, m))
  BY <1>1, LenProperties
<1> QED BY <1>1, <1>2

LEMMA TailFacts ==
  ASSUME NEW S, NEW q \in Seq(S), q # <<>>
  PROVE  /\ Head(q) \in S /\ Tail(q) \in Seq(S) /\ Len(q) \in Nat /\ Len(q) > 0
         /\ DOMAIN q = 1..Len(q) /\ DOMAIN Tail(q) = 1..(Len(q) - 1)
         /\ Head(q) = q[1] /\ \A i \in 1..(Len(q) - 1) : Tail(q)[i] = q[i + 1]
<1>1. /\ Head(q) \in S /\ Tail(q) \in Seq(S) /\ Len(Tail(q)) = Len(q) - 1
      /\ \A i \in 1..Len(Tail(q)) : Tail(q)[i] = q[i + 1]
      /\ Head(q) = q[1]
  BY HeadTailProperties
<1>2. /\ DOMAIN q = 1..Len(q) /\ DOMAIN Tail(q) = 1..Len(Tail(q))
      /\ Len(q) \in Nat /\ Len(q) > 0
  BY <1>1, LenProperties, EmptySeq
<1> QED BY <1>1, <1>2

LEMMA DrainsAfterInterval ==
  ASSUME NEW a, NEW q \in Seq(Interval \cup Kinds), NEW v \in Interval
  PROVE  Drains(a, Append(q, v), v)
<1>1. /\ Len(q) \in Nat /\ DOMAIN Append(q, v) = 1..(Len(q) + 1)
      /\ Append(q, v)[Len(q) + 1] = v
  BY AppendFacts
<1>2. Len(q) + 1 \in DOMAIN Append(q, v)
      /\ \A j \in DOMAIN Append(q, v) : ~(j > Len(q) + 1)
  BY <1>1
<1> QED BY <1>1, <1>2 DEF Drains

LEMMA DrainsAfterKind ==
  ASSUME NEW a, NEW v, NEW q \in Seq(Interval \cup Kinds), NEW k \in Kinds, Drains(a, q, v)
  PROVE  Drains(a, Append(q, k), v)
<1> DEFINE t == Append(q, k)
<1>1. /\ Len(q) \in Nat /\ DOMAIN q = 1..Len(q) /\ DOMAIN t = 1..(Len(q) + 1)
      /\ t[Len(q) + 1] = k /\ \A i \in 1..Len(q) : t[i] = q[i]
  BY AppendFacts
<1> HIDE DEF t
<1>2. CASE a = v /\ \A i \in DOMAIN q : q[i] \in Kinds
  <2>1. \A i \in DOMAIN t : t[i] \in Kinds
    BY <1>1, <1>2
  <2> QED BY <1>2, <2>1 DEF Drains, t
<1>3. ASSUME NEW i \in DOMAIN q, q[i] = v, \A j \in DOMAIN q : j > i => q[j] \in Kinds
      PROVE  Drains(a, t, v)
  <2>1. i \in DOMAIN t /\ t[i] = v
    BY <1>1, <1>3
  <2>2. \A j \in DOMAIN t : j > i => t[j] \in Kinds
    BY <1>1, <1>3
  <2> QED BY <2>1, <2>2 DEF Drains
<1> QED BY <1>2, <1>3 DEF Drains, t

LEMMA DrainsTail ==
  ASSUME NEW a, NEW v \in Interval, NEW q \in Seq(Interval \cup Kinds), q # <<>>,
         Drains(a, q, v)
  PROVE  Drains(IF Head(q) \in Kinds THEN a ELSE Head(q), Tail(q), v)
<1> DEFINE t == Tail(q)
           b == IF Head(q) \in Kinds THEN a ELSE Head(q)
<1>1. /\ Len(q) \in Nat /\ Len(q) > 0 /\ DOMAIN q = 1..Len(q) /\ DOMAIN t = 1..(Len(q) - 1)
      /\ Head(q) = q[1] /\ \A i \in 1..(Len(q) - 1) : t[i] = q[i + 1]
  BY TailFacts
<1> HIDE DEF t
<1>2. CASE a = v /\ \A i \in DOMAIN q : q[i] \in Kinds
  <2>1. Head(q) \in Kinds
    BY <1>1, <1>2
  <2>2. \A i \in DOMAIN t : t[i] \in Kinds
    BY <1>1, <1>2
  <2> QED BY <1>2, <2>1, <2>2 DEF Drains, t
<1>3. ASSUME NEW i \in DOMAIN q, q[i] = v, \A j \in DOMAIN q : j > i => q[j] \in Kinds
      PROVE  Drains(b, t, v)
  <2>1. \A j \in DOMAIN t : t[j] = q[j + 1] /\ j + 1 \in DOMAIN q
    BY <1>1
  <2>2. CASE i = 1
    <3>1. \A j \in DOMAIN t : t[j] \in Kinds
      BY <1>1, <1>3, <2>1, <2>2
    <3>2. Head(q) = v
      BY <1>1, <1>3, <2>2
    <3>3. Head(q) \notin Kinds
      BY <3>2, HostsAssumption
    <3> QED BY <3>1, <3>2, <3>3 DEF Drains
  <2>3. CASE i # 1
    <3>1. i - 1 \in DOMAIN t /\ t[i - 1] = v
      BY <1>1, <1>3, <2>3
    <3>2. \A j \in DOMAIN t : j > i - 1 => t[j] \in Kinds
      BY <1>1, <1>3, <2>1
    <3> QED BY <3>1, <3>2 DEF Drains
  <2> QED BY <2>2, <2>3
<1> QED BY <1>2, <1>3 DEF Drains, t

LEMMA PendingKept ==
  ASSUME SamePushing
  PROVE  /\ PushTypes => PushTypes'
         /\ \A h \in Host : ival'[h] = ival[h] => (Pending(h)' <=> Pending(h))
BY DEF SamePushing, SameAt, PushTypes, Pending, At

\* Steps on the rows alone: none brings a host back that had a stream.
LEMMA RowsKeepInterval ==
  ASSUME IntervalInv, SamePushing, UNCHANGED <<ival, stream, loaded, ctl, agent, outdated>>,
         status' \in [Host -> {"unused", "offline", "healthy", "deleted"}],
         \A h \in Host : /\ status'[h] = "unused" => status[h] = "unused"
                         /\ h \in Rows' => h \in Rows \/ status[h] = "unused"
  PROVE  IntervalInv'
<1>1. HostTypes' /\ PushTypes'
  BY PendingKept DEF IntervalInv, HostTypes
<1>2. ASSUME NEW h \in Host PROVE StreamOK(h)' /\ IntervalOK(h)'
  BY PendingKept DEF IntervalInv, StreamOK, IntervalOK, HostTypes
<1> QED BY <1>1, <1>2 DEF IntervalInv

\* Steps on the stream of one host.
LEMMA StreamKeepsInterval ==
  ASSUME IntervalInv, NEW h \in Host, StreamOK(h)', IntervalOK(h)', HostTypes', PushTypes',
         \A g \in Host : g # h => /\ status'[g] = status[g] /\ ival'[g] = ival[g]
                                  /\ stream'[g] = stream[g] /\ loaded'[g] = loaded[g]
                                  /\ ctl'[g] = ctl[g] /\ agent'[g] = agent[g]
                                  /\ (g \in outdated <=> g \in outdated')
                                  /\ (Pending(g) => Pending(g)')
  PROVE  IntervalInv'
<1>1. ASSUME NEW g \in Host, g # h PROVE StreamOK(g)' /\ IntervalOK(g)'
  BY <1>1 DEF IntervalInv, StreamOK, IntervalOK, Rows
<1> QED BY <1>1 DEF IntervalInv

LEMMA DropKeepsInterval ==
  ASSUME IntervalInv, SamePushing, NEW h \in Host, Drop(h), UNCHANGED <<ival, agent, outdated>>,
         \/ UNCHANGED status
         \/ status' = [status EXCEPT ![h] = "deleted"]
  PROVE  IntervalInv'
<1>1. <<>> \in Seq(Interval \cup Kinds)
  OBVIOUS
<1>2. HostTypes' /\ PushTypes'
  BY <1>1, PendingKept DEF IntervalInv, HostTypes, Drop
<1>3. stream'[h] = "down" /\ loaded'[h] = None /\ ctl'[h] = <<>>
  BY DEF IntervalInv, HostTypes, Drop
<1>4. StreamOK(h)' /\ IntervalOK(h)'
  BY <1>3 DEF StreamOK, IntervalOK
<1>5. \A g \in Host : g # h => /\ status'[g] = status[g] /\ stream'[g] = stream[g]
                               /\ loaded'[g] = loaded[g] /\ ctl'[g] = ctl[g]
                               /\ (Pending(g) => Pending(g)')
  BY PendingKept DEF IntervalInv, HostTypes, Drop
<1> QED BY <1>2, <1>4, <1>5, StreamKeepsInterval

\* The interval is committed: its push is pending.
LEMMA PatchKeepsInterval ==
  ASSUME IntervalInv, NEW r \in Req, NEW h \in Host, NEW i \in Interval, PatchHost(r, h, i)
  PROVE  IntervalInv'
<1>1. HostTypes /\ PushTypes /\ \A g \in Host : StreamOK(g) /\ IntervalOK(g)
  BY DEF IntervalInv
<1>2. /\ ival' = [ival EXCEPT ![h] = i] /\ req[r] = Idle
      /\ req' = [req EXCEPT ![r] = [pc |-> "push", host |-> h, ival |-> i]]
      /\ UNCHANGED <<status, stream, loaded, ctl, agent, outdated>>
  BY DEF PatchHost, Begin, streamVars
<1>3. HostTypes'
  BY <1>1, <1>2 DEF HostTypes
<1>4. /\ req'[r] = [pc |-> "push", host |-> h, ival |-> i] /\ ~At(r, "push")
      /\ DOMAIN req' = Req /\ \A q \in Req : q # r => req'[q] = req[q]
      /\ ival'[h] = i /\ \A g \in Host : g # h => ival'[g] = ival[g]
  BY <1>1, <1>2 DEF PushTypes, HostTypes, At, Idle
<1>5. PushTypes'
  BY <1>1, <1>4 DEF PushTypes, At
<1>6. Pending(h)'
  BY <1>4 DEF Pending, At
<1>7. ASSUME NEW g \in Host, g # h, Pending(g) PROVE Pending(g)'
  BY <1>4, <1>7 DEF Pending, At
<1>8. StreamOK(h)' /\ IntervalOK(h)'
  BY <1>1, <1>2, <1>6 DEF StreamOK, IntervalOK
<1> QED BY <1>2, <1>3, <1>4, <1>5, <1>7, <1>8, StreamKeepsInterval

\* The push: a stream that is not marked outdated was sent the interval of the row.
LEMMA PushKeepsInterval ==
  ASSUME IntervalInv, NEW r \in Req, PushInterval(r)
  PROVE  IntervalInv'
<1>1. HostTypes /\ PushTypes /\ \A g \in Host : StreamOK(g) /\ IntervalOK(g)
  BY DEF IntervalInv
<1>2. PICK h \in Host, i \in Interval : h = req[r].host /\ i = req[r].ival
  BY <1>1 DEF PushTypes, PushInterval
<1>3. /\ At(r, "push") /\ req' = [req EXCEPT ![r] = Idle]
      /\ \/ /\ CanPush(h) /\ ctl' = [ctl EXCEPT ![h] = Append(ctl[h], i)]
            /\ outdated' = IF i = ival[h] THEN outdated \ {h} ELSE outdated \cup {h}
         \/ /\ outdated' = IF stream[h] = "down" THEN outdated ELSE outdated \cup {h}
            /\ UNCHANGED ctl
      /\ UNCHANGED <<status, ival, stream, loaded, agent>>
  BY <1>2 DEF PushInterval, Done, Goto, rowVars
<1>4. DOMAIN req' = Req /\ ~At(r, "push")' /\ \A q \in Req : q # r => req'[q] = req[q]
  BY <1>1, <1>3 DEF PushTypes, At, Idle
<1>5. PushTypes'
  BY <1>1, <1>4 DEF PushTypes, At
<1>6. ctl[h] \in Seq(Interval \cup Kinds) /\ Append(ctl[h], i) \in Seq(Interval \cup Kinds)
  BY <1>1, AppendFacts DEF HostTypes
<1>7. HostTypes'
  BY <1>1, <1>3, <1>6 DEF HostTypes
<1>8. StreamOK(h)'
  BY <1>1, <1>3 DEF HostTypes, StreamOK, CanPush
<1>9. IntervalOK(h)'
  <2>1. CASE CanPush(h) /\ ctl' = [ctl EXCEPT ![h] = Append(ctl[h], i)] /\ i = ival[h]
    <3>1. Drains(agent[h], Append(ctl[h], i), i)
      BY <1>6, DrainsAfterInterval
    <3>2. ctl'[h] = Append(ctl[h], i) /\ agent'[h] = agent[h] /\ ival'[h] = i
      BY <1>1, <1>3, <2>1 DEF HostTypes
    <3> QED BY <3>1, <3>2 DEF IntervalOK
  <2>2. CASE h \in outdated' \/ stream'[h] = "down"
    BY <2>2 DEF IntervalOK
  <2> QED BY <1>3, <2>1, <2>2
<1>10. ASSUME NEW g \in Host, g # h
       PROVE  ctl'[g] = ctl[g] /\ (g \in outdated <=> g \in outdated') /\ (Pending(g) => Pending(g)')
  <2>1. ctl'[g] = ctl[g] /\ (g \in outdated <=> g \in outdated')
    BY <1>1, <1>3, <1>10 DEF HostTypes
  <2>2. Pending(g) => Pending(g)'
    BY <1>2, <1>3, <1>4, <1>10 DEF Pending, At
  <2> QED BY <2>1, <2>2
<1> QED BY <1>3, <1>5, <1>7, <1>8, <1>9, <1>10, StreamKeepsInterval

LEMMA SamePushesKeepInterval ==
  ASSUME IntervalInv, [Next]_vars, SamePushing
  PROVE  IntervalInv'
<1> USE DEF rowVars, streamVars
<1>0. PushTypes' /\ \A h \in Host : ival'[h] = ival[h] => (Pending(h)' <=> Pending(h))
  BY PendingKept DEF IntervalInv
<1>1. HostTypes /\ \A h \in Host : StreamOK(h) /\ IntervalOK(h)
  BY DEF IntervalInv
<1>2. ASSUME UNCHANGED <<status, ival, stream, loaded, ctl, agent, outdated>> PROVE IntervalInv'
  BY <1>1, <1>2, RowsKeepInterval DEF HostTypes, Rows
<1>3. ASSUME NEW r \in Req, RedeemCommit(r) PROVE IntervalInv'
  <2>1. \/ UNCHANGED status
        \/ \E h \in Host : status[h] = "unused" /\ status' = [status EXCEPT ![h] = "offline"]
    BY <1>3 DEF RedeemCommit
  <2>2. UNCHANGED <<ival, stream, loaded, ctl, agent, outdated>>
    BY <1>3 DEF RedeemCommit
  <2> QED BY <1>1, <2>1, <2>2, RowsKeepInterval DEF HostTypes, Rows
<1>4. ASSUME NEW r \in Req, PruneCommit(r) PROVE IntervalInv'
  BY <1>1, <1>4, RowsKeepInterval DEF PruneCommit, HostTypes, Rows
<1>5. ASSUME NEW h \in Host, HeartbeatCommit(h) PROVE IntervalInv'
  BY <1>1, <1>5, RowsKeepInterval DEF HeartbeatCommit, HostTypes, Rows
<1>6. CASE OfflineSweepCommit
  BY <1>1, <1>6, RowsKeepInterval DEF OfflineSweepCommit, HostTypes, Rows
<1>7. ASSUME NEW h \in Host, Connect(h) PROVE IntervalInv'
  <2>1. /\ status[h] # "unused" /\ stream[h] = "down" /\ stream' = [stream EXCEPT ![h] = "loading"]
        /\ UNCHANGED <<status, ival, loaded, ctl, agent, outdated>>
    BY <1>7 DEF Connect
  <2>2. HostTypes'
    BY <1>1, <2>1 DEF HostTypes
  <2>3. stream'[h] = "loading" /\ loaded'[h] = None /\ status'[h] # "unused"
    BY <1>1, <2>1 DEF HostTypes, StreamOK
  <2>4. StreamOK(h)' /\ IntervalOK(h)'
    BY <2>3 DEF StreamOK, IntervalOK
  <2>5. \A g \in Host : g # h => stream'[g] = stream[g]
    BY <1>1, <2>1 DEF HostTypes
  <2> QED BY <1>0, <2>1, <2>2, <2>4, <2>5, StreamKeepsInterval
<1>8. ASSUME NEW h \in Host, LoadInterval(h) PROVE IntervalInv'
  <2>1. /\ stream[h] = "loading" /\ loaded[h] = None
        /\ \/ h \in Rows /\ loaded' = [loaded EXCEPT ![h] = ival[h]] /\ UNCHANGED <<stream, outdated>>
           \/ /\ stream' = [stream EXCEPT ![h] = "up"] /\ UNCHANGED loaded
              /\ outdated' = outdated \cup ({h} \cap Rows)
        /\ UNCHANGED <<status, ival, ctl, agent>>
    BY <1>8 DEF LoadInterval
  <2>2. HostTypes'
    BY <1>1, <2>1 DEF HostTypes
  <2>3. StreamOK(h)'
    BY <1>1, <2>1 DEF HostTypes, StreamOK
  <2>4. IntervalOK(h)'
    BY <1>1, <2>1 DEF HostTypes, IntervalOK, Rows
  <2>5. \A g \in Host : g # h => /\ stream'[g] = stream[g] /\ loaded'[g] = loaded[g]
                                 /\ (g \in outdated <=> g \in outdated')
    BY <1>1, <2>1 DEF HostTypes
  <2> QED BY <1>0, <2>1, <2>2, <2>3, <2>4, <2>5, StreamKeepsInterval
<1>9. ASSUME NEW h \in Host, PushInitial(h) PROVE IntervalInv'
  <2>1. /\ stream[h] = "loading" /\ loaded[h] \in Interval
        /\ ctl' = [ctl EXCEPT ![h] = Append(ctl[h], loaded[h])]
        /\ stream' = [stream EXCEPT ![h] = "up"]
        /\ loaded' = [loaded EXCEPT ![h] = None]
        /\ outdated' = IF loaded[h] = ival[h] THEN outdated \ {h} ELSE outdated \cup {h}
        /\ UNCHANGED <<status, ival, agent>>
    BY <1>1, <1>9 DEF PushInitial, HostTypes
  <2>2. ctl[h] \in Seq(Interval \cup Kinds) /\ Append(ctl[h], loaded[h]) \in Seq(Interval \cup Kinds)
    BY <1>1, <2>1, AppendFacts DEF HostTypes
  <2>3. HostTypes'
    BY <1>1, <2>1, <2>2 DEF HostTypes
  <2>4. StreamOK(h)'
    BY <1>1, <2>1 DEF HostTypes, StreamOK
  <2>5. Drains(agent[h], Append(ctl[h], loaded[h]), loaded[h])
    BY <2>1, <2>2, DrainsAfterInterval
  <2>6. /\ agent'[h] = agent[h] /\ ctl'[h] = Append(ctl[h], loaded[h]) /\ loaded'[h] = None
        /\ ival'[h] = ival[h]
    BY <1>1, <2>1 DEF HostTypes
  <2>7. h \notin outdated' => loaded[h] = ival[h]
    BY <2>1
  <2>8. IntervalOK(h)'
    BY <2>5, <2>6, <2>7 DEF IntervalOK
  <2>9. \A g \in Host : g # h => /\ stream'[g] = stream[g] /\ loaded'[g] = loaded[g]
                                 /\ ctl'[g] = ctl[g] /\ (g \in outdated <=> g \in outdated')
    BY <1>1, <2>1 DEF HostTypes
  <2> QED BY <1>0, <2>1, <2>3, <2>4, <2>8, <2>9, StreamKeepsInterval
<1>10. ASSUME NEW h \in Host, ReceiveControl(h) PROVE IntervalInv'
  <2> DEFINE q == ctl[h]
             b == IF Head(q) \in Kinds THEN agent[h] ELSE Head(q)
  <2>1. /\ stream[h] = "up" /\ q # <<>> /\ ctl' = [ctl EXCEPT ![h] = Tail(q)]
        /\ \/ Head(q) \in Kinds /\ UNCHANGED agent
           \/ Head(q) \notin Kinds /\ agent' = [agent EXCEPT ![h] = Head(q)]
        /\ UNCHANGED <<status, ival, stream, loaded, outdated>>
    BY <1>10 DEF ReceiveControl
  <2>2. q \in Seq(Interval \cup Kinds) /\ Tail(q) \in Seq(Interval \cup Kinds)
        /\ Head(q) \in Interval \cup Kinds
    BY <1>1, <2>1, TailFacts DEF HostTypes
  <2>3. HostTypes'
    BY <1>1, <2>1, <2>2 DEF HostTypes
  <2>4. agent'[h] = b /\ ctl'[h] = Tail(q) /\ stream'[h] = "up" /\ ival'[h] = ival[h]
        /\ ival[h] \in Interval
    BY <1>1, <2>1 DEF HostTypes
  <2>5. Drains(agent[h], q, ival[h]) => Drains(b, Tail(q), ival[h])
    BY <2>1, <2>2, <2>4, DrainsTail
  <2> HIDE DEF b, q
  <2>6. IntervalOK(h)'
    BY <1>0, <1>1, <2>1, <2>4, <2>5 DEF IntervalOK, Rows, q
  <2>7. StreamOK(h)'
    BY <1>1, <2>1, <2>4 DEF StreamOK
  <2>8. \A g \in Host : g # h => ctl'[g] = ctl[g] /\ agent'[g] = agent[g]
    BY <1>1, <2>1 DEF HostTypes
  <2> QED BY <1>0, <2>1, <2>3, <2>6, <2>7, <2>8, StreamKeepsInterval
<1>11. ASSUME NEW h \in Host, Disconnect(h) PROVE IntervalInv'
  BY <1>11, DropKeepsInterval DEF Disconnect
<1>12. ASSUME NEW r \in Req, RemoveHost(r) PROVE IntervalInv'
  <2>1. CASE req[r].host \in Rows
    BY <1>12, <2>1, DropKeepsInterval DEF RemoveHost, DeleteHostCommit, Rows
  <2>2. CASE req[r].host \notin Rows
    BY <1>2, <1>12, <2>2 DEF RemoveHost, DeleteHostCommit
  <2> QED BY <2>1, <2>2
<1>13. ASSUME NEW r \in Req,
              PushInterval(r) \/ \E h \in Host, i \in Interval : PatchHost(r, h, i)
       PROVE  IntervalInv'
  BY <1>13, PatchKeepsInterval, PushKeepsInterval
<1>14. ASSUME NEW r \in Req, NEW h \in Host, NEW k \in Kinds, AskAgent(r, h, k) PROVE IntervalInv'
  <2>1. /\ stream[h] # "down" /\ ctl' = [ctl EXCEPT ![h] = Append(ctl[h], k)]
        /\ UNCHANGED <<status, ival, stream, loaded, agent, outdated>>
    BY <1>14 DEF AskAgent, CanPush
  <2>2. ctl[h] \in Seq(Interval \cup Kinds) /\ Append(ctl[h], k) \in Seq(Interval \cup Kinds)
    BY <1>1, AppendFacts DEF HostTypes
  <2>3. HostTypes'
    BY <1>1, <2>1, <2>2 DEF HostTypes
  <2>4. StreamOK(h)'
    BY <1>1, <2>1 DEF HostTypes, StreamOK
  <2>5. Drains(agent[h], ctl[h], ival[h]) => Drains(agent[h], Append(ctl[h], k), ival[h])
    BY <2>2, DrainsAfterKind
  <2>6. ctl'[h] = Append(ctl[h], k)
    BY <1>1, <2>1 DEF HostTypes
  <2>7. IntervalOK(h)'
    BY <1>0, <1>1, <2>1, <2>5, <2>6 DEF IntervalOK, Rows
  <2>8. \A g \in Host : g # h => ctl'[g] = ctl[g]
    BY <1>1, <2>1 DEF HostTypes
  <2> QED BY <1>0, <2>1, <2>3, <2>4, <2>7, <2>8, StreamKeepsInterval
<1>15. CASE HostStep
  BY <1>2, <1>3, <1>4, <1>5, <1>6, <1>7, <1>8, <1>9, <1>10, <1>11, <1>13, <1>14, <1>15
  DEF HostStep, IssueToken, TokenExpires, RevokeTokenRead, RedeemRead, RevokeTokenCommit, TaskCommit,
      PruneRead, DeleteHostRead, HeartbeatRead, HeartbeatAges, SurveyArrives, InventoryArrives,
      MatchDone, OfflineSweepRead, hostVars
<1>16. CASE UNCHANGED hostVars
  BY <1>2, <1>16 DEF hostVars
<1>17. CASE UNCHANGED vars
  BY <1>16, <1>17 DEF vars
<1> QED BY <1>12, <1>15, <1>16, <1>17 DEF Next

LEMMA IntervalInvStep == IntervalInv /\ [Next]_vars => IntervalInv'
<1> SUFFICES ASSUME IntervalInv, [Next]_vars PROVE IntervalInv'
  OBVIOUS
<1>1. DOMAIN req = Req
  BY DEF IntervalInv, PushTypes
<1>2. CASE SamePushing
  BY <1>2, SamePushesKeepInterval
<1> QED BY <1>1, <1>2, WhoWaits, OthersWait, PatchKeepsInterval, PushKeepsInterval DEF Same

LEMMA IntervalInit == Init => IntervalInv
<1>1. Init => HostTypes
  BY HostsAssumption DEF Init, HostInit, HostTypes
<1>2. Init => \A h \in Host : StreamOK(h) /\ IntervalOK(h)
  BY DEF Init, HostInit, StreamOK, IntervalOK
<1>3. Init => PushTypes
  BY DEF Init, PushTypes, At, Idle
<1> QED BY <1>1, <1>2, <1>3 DEF IntervalInv

\* An agent that has received all control messages beats at the interval of its
\* row, unless patch_host has one to push yet, or the last push for the stream was
\* overtaken by another PATCH, refused, or left out by a failed read.
THEOREM AgentGetsInterval == Spec => []IntervalReachesAgent
<1>1. Init => IntervalInv
  BY IntervalInit
<1>2. IntervalInv => IntervalReachesAgent
  BY DEF IntervalInv, IntervalOK, Drains, Pending, IntervalReachesAgent, Rows
<1> QED BY <1>1, <1>2, IntervalInvStep, PTL DEF Spec

--------------------------------------------------------------------------------
(***************************************************************************)
(* Running resurvey and rescan tasks.                                        *)
(***************************************************************************)
Places(q, k) == {i \in DOMAIN q : q[i] = k}

LEMMA PlacesFinite ==
  ASSUME NEW S, NEW q \in Seq(S), NEW k
  PROVE  IsFiniteSet(Places(q, k)) /\ Cardinality(Places(q, k)) \in Nat
<1>1. Len(q) \in Nat /\ DOMAIN q = 1..Len(q)
  BY LenProperties
<1>2. IsFiniteSet(1..Len(q))
  BY <1>1, FS_Interval
<1>3. Places(q, k) \in SUBSET (1..Len(q))
  BY <1>1 DEF Places
<1>4. IsFiniteSet(Places(q, k))
  BY <1>2, <1>3, FS_Subset
<1> QED BY <1>4, FS_CardinalityType

LEMMA PlacesAppend ==
  ASSUME NEW S, NEW q \in Seq(S), NEW m \in S, NEW k
  PROVE  Cardinality(Places(Append(q, m), k))
           = Cardinality(Places(q, k)) + (IF m = k THEN 1 ELSE 0)
<1> DEFINE t == Append(q, m)  n == Len(q) + 1
<1>1. /\ Len(q) \in Nat /\ DOMAIN q = 1..Len(q) /\ DOMAIN t = 1..n /\ t[n] = m
      /\ \A i \in 1..Len(q) : t[i] = q[i]
  BY AppendFacts
<1>2. IsFiniteSet(Places(q, k)) /\ Cardinality(Places(q, k)) \in Nat
  BY PlacesFinite
<1> HIDE DEF t
<1>3. CASE m = k
  <2>1. Places(t, k) = Places(q, k) \cup {n}
    BY <1>1, <1>3 DEF Places
  <2>2. n \notin Places(q, k)
    BY <1>1 DEF Places
  <2>3. Cardinality(Places(q, k) \cup {n}) = Cardinality(Places(q, k)) + 1
    BY <1>2, <2>2, FS_AddElement
  <2> QED BY <1>3, <2>1, <2>3 DEF t
<1>4. CASE m # k
  <2>1. Places(t, k) = Places(q, k)
    BY <1>1, <1>4 DEF Places
  <2> QED BY <1>2, <1>4, <2>1 DEF t
<1> QED BY <1>3, <1>4

LEMMA PlacesTail ==
  ASSUME NEW S, NEW q \in Seq(S), q # <<>>, NEW k
  PROVE  Cardinality(Places(q, k))
           = Cardinality(Places(Tail(q), k)) + (IF Head(q) = k THEN 1 ELSE 0)
<1> DEFINE t == Tail(q)  P == Places(t, k)  Q == Places(q, k) \ {1}
<1>1. /\ Len(q) \in Nat /\ Len(q) > 0 /\ DOMAIN q = 1..Len(q) /\ DOMAIN t = 1..(Len(q) - 1)
      /\ t \in Seq(S) /\ Head(q) = q[1] /\ \A i \in 1..(Len(q) - 1) : t[i] = q[i + 1]
  BY TailFacts
<1> HIDE DEF t
<1>2. IsFiniteSet(P) /\ Cardinality(P) \in Nat
  BY <1>1, PlacesFinite
<1>3. IsFiniteSet(Places(q, k)) /\ Cardinality(Places(q, k)) \in Nat
  BY PlacesFinite
<1>4. ExistsBijection(P, Q)
  <2> DEFINE f == [i \in P |-> i + 1]
  <2>1. f \in [P -> Q]
    BY <1>1 DEF Places
  <2>2. \A i, j \in P : f[i] = f[j] => i = j
    BY <1>1 DEF Places
  <2>3. \A j \in Q : \E i \in P : f[i] = j
    <3> TAKE j \in Q
    <3>1. j - 1 \in P
      BY <1>1 DEF Places
    <3> WITNESS j - 1 \in P
    <3> QED BY <1>1, <3>1 DEF Places
  <2> HIDE DEF f, P, Q
  <2>4. f \in Bijection(P, Q)
    BY <2>1, <2>2, <2>3 DEF Bijection, Injection, Surjection, IsInjective
  <2> QED BY <2>4 DEF ExistsBijection
<1>5. Cardinality(Q) = Cardinality(P)
  BY <1>2, <1>4, FS_Bijection
<1>6. Cardinality(Q) = IF 1 \in Places(q, k) THEN Cardinality(Places(q, k)) - 1
                       ELSE Cardinality(Places(q, k))
  BY <1>3, FS_RemoveElement
<1>7. 1 \in Places(q, k) <=> Head(q) = k
  BY <1>1 DEF Places
<1> QED BY <1>2, <1>3, <1>5, <1>6, <1>7 DEF t

LEMMA OutstandingIs ==
  ASSUME TaskTypes, NEW h \in Host, NEW k \in Kinds
  PROVE  /\ Outstanding(h, k) = asked[h][k] + Cardinality(Places(ctl[h], k))
         /\ asked[h][k] \in Nat /\ running[h][k] \in Nat /\ missed[h][k] \in Nat
         /\ Cardinality(Places(ctl[h], k)) \in Nat
         /\ Cardinality(Asking(h, k)) \in Nat
<1>1. ctl[h] \in Seq(Interval \cup Kinds) /\ IsFiniteSet(Asking(h, k))
      /\ asked[h][k] \in Nat /\ running[h][k] \in Nat /\ missed[h][k] \in Nat
  BY DEF TaskTypes
<1>2. Cardinality(Places(ctl[h], k)) \in Nat
  BY <1>1, PlacesFinite
<1>3. Cardinality(Asking(h, k)) \in Nat
  BY <1>1, FS_CardinalityType
<1> QED BY <1>1, <1>2, <1>3 DEF Outstanding, Places

LEMMA OutstandingNext ==
  ASSUME TaskTypes', NEW h \in Host, NEW k \in Kinds
  PROVE  /\ Outstanding(h, k)' = asked'[h][k] + Cardinality(Places(ctl'[h], k))
         /\ asked'[h][k] \in Nat /\ running'[h][k] \in Nat
         /\ Cardinality(Places(ctl'[h], k)) \in Nat
<1>1. ctl'[h] \in Seq(Interval \cup Kinds) /\ asked'[h][k] \in Nat /\ running'[h][k] \in Nat
  BY DEF TaskTypes
<1>2. Cardinality(Places(ctl'[h], k)) \in Nat
  BY <1>1, PlacesFinite
<1> QED BY <1>1, <1>2 DEF Outstanding, Places

LEMMA AskingKept ==
  ASSUME SameAsking, NEW h, NEW k
  PROVE  Asking(h, k)' = Asking(h, k)
BY DEF SameAsking, SameAt, Asking, At

\* Steps that leave a host's queue, answers and tasks alone.
LEMMA AnswerFrame ==
  ASSUME AnswerInv, TaskTypes', NEW h \in Host,
         \A g \in Host \ {h} :
            /\ ctl'[g] = ctl[g] /\ asked'[g] = asked[g] /\ running'[g] = running[g]
            /\ missed'[g] = missed[g] /\ (g \in matching' <=> g \in matching)
            /\ \A k \in Kinds : Asking(g, k)' = Asking(g, k),
         SurveyOK(h)', ScanOK(h)'
  PROVE  AnswerInv'
<1>1. ASSUME NEW g \in Host \ {h} PROVE SurveyOK(g)' /\ ScanOK(g)'
  <2>1. \A k \in Kinds : Outstanding(g, k)' = Outstanding(g, k)
    BY DEF Outstanding
  <2>2. SurveyOK(g) /\ ScanOK(g)
    BY DEF AnswerInv
  <2>3. "survey" \in Kinds /\ "scan" \in Kinds
    BY DEF Kinds
  <2>4. SurveyOK(g)'
    BY <2>1, <2>2, <2>3 DEF SurveyOK
  <2>5. ScanOK(g)'
    BY <2>1, <2>2, <2>3 DEF ScanOK
  <2> QED BY <2>4, <2>5
<1> QED BY <1>1 DEF AnswerInv

LEMMA TaskTypesKept ==
  ASSUME TaskTypes, SameAsking, ctl' \in [Host -> Seq(Interval \cup Kinds)],
         asked' \in [Host -> [Kinds -> Nat]], running' \in [Host -> [Kinds -> Nat]],
         missed' \in [Host -> [Kinds -> Nat]]
  PROVE  TaskTypes'
<1>1. \A h \in Host, k \in Kinds : IsFiniteSet(Asking(h, k)')
  BY AskingKept DEF TaskTypes
<1>2. \A r \in Req : At(r, "task")' => req'[r].host \in Host /\ req'[r].kind \in Kinds
  BY DEF TaskTypes, SameAsking, SameAt, At
<1> QED BY <1>1, <1>2 DEF TaskTypes, SameAsking, SameAt

\* A stream that ends: what it still owed is missed.
LEMMA DropKeepsAnswers ==
  ASSUME AnswerInv, SameAsking, NEW h \in Host, Drop(h), UNCHANGED <<running, matching>>
  PROVE  AnswerInv'
<1>1. TaskTypes /\ SurveyOK(h) /\ ScanOK(h)
  BY DEF AnswerInv
<1>2. /\ <<>> \in Seq(Interval \cup Kinds) /\ [k \in Kinds |-> 0] \in [Kinds -> Nat]
      /\ [k \in Kinds |-> missed[h][k] + Outstanding(h, k)] \in [Kinds -> Nat]
  BY <1>1, OutstandingIs
<1>3. TaskTypes'
  <2>1. /\ ctl' \in [Host -> Seq(Interval \cup Kinds)]
        /\ asked' \in [Host -> [Kinds -> Nat]] /\ running' \in [Host -> [Kinds -> Nat]]
        /\ missed' \in [Host -> [Kinds -> Nat]]
    BY <1>1, <1>2 DEF TaskTypes, Drop
  <2> QED BY <1>1, <2>1, TaskTypesKept
<1>4. missed'[h] = [k \in Kinds |-> missed[h][k] + Outstanding(h, k)]
  BY <1>1 DEF TaskTypes, Drop
<1>5. ASSUME NEW k \in Kinds
      PROVE  /\ Outstanding(h, k) \in Nat /\ missed[h][k] \in Nat
             /\ running[h][k] \in Nat /\ Cardinality(Asking(h, k)) \in Nat
  BY <1>1, OutstandingIs
<1>6. ASSUME NEW k \in Kinds PROVE Outstanding(h, k)' \in Nat
  BY <1>3, OutstandingNext
<1>7. running'[h] = running[h] /\ \A k \in Kinds : Asking(h, k)' = Asking(h, k)
  BY AskingKept
<1>8. "survey" \in Kinds /\ "scan" \in Kinds
  BY DEF Kinds
<1>9. SurveyOK(h)'
  <2>1. missed'[h]["survey"] = missed[h]["survey"] + Outstanding(h, "survey")
    BY <1>4, <1>8
  <2> QED BY <1>1, <1>5, <1>6, <1>7, <1>8, <2>1 DEF SurveyOK
<1>10. ScanOK(h)'
  <2>1. missed'[h]["scan"] = missed[h]["scan"] + Outstanding(h, "scan")
    BY <1>4, <1>8
  <2> QED BY <1>1, <1>5, <1>7, <1>8, <2>1 DEF ScanOK
<1>11. \A g \in Host \ {h} :
          /\ ctl'[g] = ctl[g] /\ asked'[g] = asked[g] /\ running'[g] = running[g]
          /\ missed'[g] = missed[g] /\ (g \in matching' <=> g \in matching)
  BY <1>1 DEF TaskTypes, Drop
<1>12. \A g \in Host \ {h} : \A k \in Kinds : Asking(g, k)' = Asking(g, k)
  BY AskingKept
<1> QED BY <1>3, <1>9, <1>10, <1>11, <1>12, AnswerFrame

\* A queue that moves: a control message is put in, or received.
LEMMA QueueKeepsAnswers ==
  ASSUME AnswerInv, SameAsking, NEW h \in Host, UNCHANGED <<running, matching, missed>>,
         ctl' \in [Host -> Seq(Interval \cup Kinds)], asked' \in [Host -> [Kinds -> Nat]],
         \A g \in Host \ {h} : ctl'[g] = ctl[g] /\ asked'[g] = asked[g],
         \A k \in Kinds : asked'[h][k] + Cardinality(Places(ctl'[h], k))
                            = asked[h][k] + Cardinality(Places(ctl[h], k))
  PROVE  AnswerInv'
<1>1. TaskTypes /\ SurveyOK(h) /\ ScanOK(h)
  BY DEF AnswerInv
<1>2. TaskTypes'
  BY <1>1, TaskTypesKept DEF TaskTypes
<1>3. \A g \in Host : \A k \in Kinds : Asking(g, k)' = Asking(g, k)
  BY AskingKept
<1>4. \A k \in Kinds : Outstanding(h, k)' = Outstanding(h, k)
  BY <1>1, <1>2, OutstandingIs, OutstandingNext
<1>5. "survey" \in Kinds /\ "scan" \in Kinds
  BY DEF Kinds
<1>6. SurveyOK(h)'
  BY <1>1, <1>3, <1>4, <1>5 DEF SurveyOK
<1>7. ScanOK(h)'
  BY <1>1, <1>3, <1>4, <1>5 DEF ScanOK
<1> QED BY <1>2, <1>3, <1>6, <1>7, AnswerFrame

\* An interval is neither kind of request.
LEMMA IntervalPushed ==
  ASSUME AnswerInv, SameAsking, NEW h \in Host, NEW i \in Interval,
         UNCHANGED <<running, matching, missed, asked>>,
         ctl' = [ctl EXCEPT ![h] = Append(@, i)]
  PROVE  AnswerInv'
<1>1. TaskTypes
  BY DEF AnswerInv
<1>2. ctl[h] \in Seq(Interval \cup Kinds) /\ Append(ctl[h], i) \in Seq(Interval \cup Kinds)
  BY <1>1, AppendFacts DEF TaskTypes
<1>3. ctl' \in [Host -> Seq(Interval \cup Kinds)] /\ ctl'[h] = Append(ctl[h], i)
      /\ \A g \in Host \ {h} : ctl'[g] = ctl[g]
  BY <1>1, <1>2 DEF TaskTypes
<1>4. ASSUME NEW k \in Kinds
      PROVE  Cardinality(Places(ctl'[h], k)) = Cardinality(Places(ctl[h], k))
  <2>1. i # k /\ i \in Interval \cup Kinds
    BY HostsAssumption
  <2>2. Cardinality(Places(Append(ctl[h], i), k))
          = Cardinality(Places(ctl[h], k)) + (IF i = k THEN 1 ELSE 0)
    BY <1>2, <2>1, PlacesAppend
  <2>3. Cardinality(Places(ctl[h], k)) \in Nat
    BY <1>1, OutstandingIs
  <2> QED BY <1>3, <2>1, <2>2, <2>3
<1> QED BY <1>1, <1>3, <1>4, QueueKeepsAnswers DEF TaskTypes

LEMMA ReceiveKeepsAnswers ==
  ASSUME AnswerInv, SameAsking, NEW h \in Host, ReceiveControl(h)
  PROVE  AnswerInv'
<1> DEFINE q == ctl[h]  m == Head(ctl[h])
<1>1. TaskTypes
  BY DEF AnswerInv
<1>2. /\ q # <<>> /\ ctl' = [ctl EXCEPT ![h] = Tail(q)]
      /\ \/ m \in Kinds /\ asked' = [asked EXCEPT ![h][m] = asked[h][m] + 1]
         \/ m \notin Kinds /\ UNCHANGED asked
      /\ UNCHANGED <<running, matching, missed>>
  BY DEF ReceiveControl
<1>3. q \in Seq(Interval \cup Kinds) /\ Tail(q) \in Seq(Interval \cup Kinds)
  BY <1>1, <1>2, TailFacts DEF TaskTypes
<1>4. /\ ctl' \in [Host -> Seq(Interval \cup Kinds)] /\ asked' \in [Host -> [Kinds -> Nat]]
      /\ \A g \in Host \ {h} : ctl'[g] = ctl[g] /\ asked'[g] = asked[g]
      /\ ctl'[h] = Tail(q)
      /\ \A k \in Kinds : asked'[h][k] = asked[h][k] + (IF m = k THEN 1 ELSE 0)
  <2>1. /\ ctl' \in [Host -> Seq(Interval \cup Kinds)] /\ ctl'[h] = Tail(q)
        /\ \A g \in Host \ {h} : ctl'[g] = ctl[g]
    BY <1>1, <1>2, <1>3 DEF TaskTypes
  <2> HIDE DEF m
  <2>2. asked \in [Host -> [Kinds -> Nat]]
    BY <1>1 DEF TaskTypes
  <2>3. CASE m \in Kinds
    <3>1. /\ asked' = [asked EXCEPT ![h][m] = asked[h][m] + 1] /\ asked[h][m] + 1 \in Nat
      BY <1>2, <2>2, <2>3
    <3>2. asked' \in [Host -> [Kinds -> Nat]] /\ \A g \in Host \ {h} : asked'[g] = asked[g]
      BY <2>2, <3>1
    <3>3. \A k \in Kinds : asked'[h][k] = IF m = k THEN asked[h][k] + 1 ELSE asked[h][k]
      BY <2>2, <2>3, <3>1
    <3>4. \A k \in Kinds : asked[h][k] \in Nat
      BY <2>2
    <3> QED BY <2>1, <3>2, <3>3, <3>4
  <2>4. CASE m \notin Kinds
    BY <1>2, <2>1, <2>2, <2>4
  <2> QED BY <2>3, <2>4
<1>5. ASSUME NEW k \in Kinds
      PROVE  asked'[h][k] + Cardinality(Places(ctl'[h], k))
               = asked[h][k] + Cardinality(Places(q, k))
  <2>1. Cardinality(Places(q, k))
          = Cardinality(Places(Tail(q), k)) + (IF m = k THEN 1 ELSE 0)
    BY <1>2, <1>3, PlacesTail
  <2>2. asked[h][k] \in Nat /\ Cardinality(Places(Tail(q), k)) \in Nat
    BY <1>1, <1>3, OutstandingIs, PlacesFinite
  <2> QED BY <1>4, <2>1, <2>2
<1> QED BY <1>2, <1>4, <1>5, QueueKeepsAnswers

\* An answer that arrives, or a match that ends.
LEMMA AnswerArrives ==
  ASSUME AnswerInv, SameAsking, NEW h \in Host,
         SurveyArrives(h) \/ InventoryArrives(h) \/ MatchDone(h)
  PROVE  AnswerInv'
<1>1. TaskTypes /\ SurveyOK(h) /\ ScanOK(h)
  BY DEF AnswerInv
<1>2. "survey" \in Kinds /\ "scan" \in Kinds /\ "survey" # "scan"
  BY DEF Kinds
<1>3. \A g \in Host : \A k \in Kinds : Asking(g, k)' = Asking(g, k)
  BY AskingKept
<1>4. UNCHANGED ctl
  BY DEF SurveyArrives, InventoryArrives, MatchDone, streamVars
<1>5. \A k \in Kinds : /\ asked[h][k] \in Nat /\ running[h][k] \in Nat
                       /\ Cardinality(Places(ctl[h], k)) \in Nat
                       /\ Cardinality(Asking(h, k)) \in Nat /\ missed[h][k] \in Nat
                       /\ Outstanding(h, k) = asked[h][k] + Cardinality(Places(ctl[h], k))
  BY <1>1, OutstandingIs
<1>6. ASSUME TaskTypes', NEW k \in Kinds
      PROVE  Outstanding(h, k)' = asked'[h][k] + Cardinality(Places(ctl[h], k))
  BY <1>4, <1>6, OutstandingNext
<1>7. ASSUME NEW k \in Kinds, Miss(h, k)
      PROVE  /\ missed' \in [Host -> [Kinds -> Nat]]
             /\ missed'[h][k] = missed[h][k] + (IF running[h][k] > 0 \/ Asking(h, k) # {} THEN 1 ELSE 0)
             /\ \A j \in Kinds : j # k => missed'[h][j] = missed[h][j]
             /\ \A g \in Host \ {h} : missed'[g] = missed[g]
  <2>1. Waiting(h, k) <=> running[h][k] > 0 \/ Asking(h, k) # {}
    BY DEF Waiting, Asking
  <2>2. missed \in [Host -> [Kinds -> Nat]]
    BY <1>1 DEF TaskTypes
  <2>3. missed[h][k] \in Nat
    BY <2>2
  <2>4. CASE Waiting(h, k)
    <3>1. missed' = [missed EXCEPT ![h][k] = missed[h][k] + 1]
      BY <1>7, <2>2, <2>4 DEF Miss
    <3> QED BY <2>1, <2>2, <2>3, <2>4, <3>1
  <2>5. CASE ~Waiting(h, k)
    <3>1. missed' = missed
      BY <1>7, <2>2, <2>5 DEF Miss
    <3> QED BY <2>1, <2>2, <2>3, <2>5, <3>1
  <2> QED BY <2>4, <2>5
<1>8. CASE SurveyArrives(h)
  <2>1. /\ asked[h]["survey"] > 0 /\ asked' = [asked EXCEPT ![h]["survey"] = @ - 1]
        /\ UNCHANGED matching
    BY <1>8 DEF SurveyArrives
  <2>2. /\ asked' \in [Host -> [Kinds -> Nat]]
        /\ asked'[h]["survey"] = asked[h]["survey"] - 1 /\ asked'[h]["scan"] = asked[h]["scan"]
        /\ \A g \in Host \ {h} : asked'[g] = asked[g]
    BY <1>1, <1>2, <2>1 DEF TaskTypes
  <2>3. CASE /\ running[h]["survey"] > 0 /\ UNCHANGED missed
             /\ running' = [running EXCEPT ![h]["survey"] = @ - 1]
    <3>1. /\ running' \in [Host -> [Kinds -> Nat]]
          /\ running'[h]["survey"] = running[h]["survey"] - 1
          /\ running'[h]["scan"] = running[h]["scan"]
          /\ \A g \in Host \ {h} : running'[g] = running[g]
      BY <1>1, <1>2, <2>3 DEF TaskTypes
    <3>2. TaskTypes'
      BY <1>1, <1>4, <2>2, <2>3, <3>1, TaskTypesKept DEF TaskTypes
    <3>3. SurveyOK(h)'
      BY <1>1, <1>2, <1>3, <1>5, <1>6, <2>2, <2>3, <3>1, <3>2 DEF SurveyOK
    <3>4. ScanOK(h)'
      BY <1>1, <1>2, <1>3, <1>5, <1>6, <2>1, <2>2, <2>3, <3>1, <3>2 DEF ScanOK
    <3> QED BY <1>3, <1>4, <2>1, <2>2, <2>3, <3>1, <3>2, <3>3, <3>4, AnswerFrame
  <2>4. CASE Miss(h, "survey") /\ UNCHANGED running
    <3>1. TaskTypes'
      BY <1>1, <1>2, <1>4, <1>7, <2>2, <2>4, TaskTypesKept DEF TaskTypes
    <3>2. SurveyOK(h)'
      <4>1. missed'[h]["survey"] = missed[h]["survey"]
              + (IF running[h]["survey"] > 0 \/ Asking(h, "survey") # {} THEN 1 ELSE 0)
        BY <1>2, <1>7, <2>4
      <4>2. CASE running[h]["survey"] > 0 \/ Asking(h, "survey") # {}
        BY <1>1, <1>2, <1>3, <1>5, <1>6, <2>2, <2>4, <3>1, <4>1, <4>2 DEF SurveyOK
      <4>3. CASE ~(running[h]["survey"] > 0) /\ Asking(h, "survey") = {}
        <5>1. running'[h]["survey"] = 0 /\ Cardinality(Asking(h, "survey")') = 0
          <6>1. running[h]["survey"] \in Nat /\ running' = running
            BY <1>2, <1>5, <2>4
          <6>2. running'[h]["survey"] = 0
            BY <4>3, <6>1
          <6>3. Asking(h, "survey")' = {}
            BY <1>2, <1>3, <4>3
          <6> QED BY <6>2, <6>3, FS_EmptySet
        <5>2. Outstanding(h, "survey")' \in Nat /\ missed'[h]["survey"] \in Nat
          BY <1>2, <3>1, OutstandingNext DEF TaskTypes
        <5> QED BY <5>1, <5>2 DEF SurveyOK
      <4> QED BY <4>2, <4>3
    <3>3. ScanOK(h)'
      <4>1. missed'[h]["scan"] = missed[h]["scan"]
        BY <1>2, <1>7, <2>4
      <4> QED BY <1>1, <1>2, <1>3, <1>5, <1>6, <2>1, <2>2, <2>4, <3>1, <4>1 DEF ScanOK
    <3> QED BY <1>2, <1>3, <1>4, <1>7, <2>1, <2>2, <2>4, <3>1, <3>2, <3>3, AnswerFrame
  <2> QED BY <1>8, <2>3, <2>4 DEF SurveyArrives
<1>9. CASE InventoryArrives(h)
  <2>1. /\ asked[h]["scan"] > 0 /\ asked' = [asked EXCEPT ![h]["scan"] = @ - 1]
        /\ UNCHANGED running
    BY <1>9 DEF InventoryArrives
  <2>2. /\ asked' \in [Host -> [Kinds -> Nat]] /\ asked'[h]["survey"] = asked[h]["survey"]
        /\ \A g \in Host \ {h} : asked'[g] = asked[g]
    BY <1>1, <1>2, <2>1 DEF TaskTypes
  <2>3. CASE matching' = matching \cup {h} /\ UNCHANGED missed
    <3>1. TaskTypes'
      BY <1>1, <1>4, <2>1, <2>2, <2>3, TaskTypesKept DEF TaskTypes
    <3>2. SurveyOK(h)'
      BY <1>1, <1>2, <1>3, <1>5, <1>6, <2>1, <2>2, <2>3, <3>1 DEF SurveyOK
    <3>3. ScanOK(h)'
      BY <2>3 DEF ScanOK
    <3> QED BY <1>3, <1>4, <2>1, <2>2, <2>3, <3>1, <3>2, <3>3, AnswerFrame
  <2>4. CASE Miss(h, "scan") /\ UNCHANGED matching
    <3>1. TaskTypes'
      BY <1>1, <1>2, <1>4, <1>7, <2>1, <2>2, <2>4, TaskTypesKept DEF TaskTypes
    <3>2. missed'[h]["survey"] = missed[h]["survey"]
          /\ missed'[h]["scan"] = missed[h]["scan"]
               + (IF running[h]["scan"] > 0 \/ Asking(h, "scan") # {} THEN 1 ELSE 0)
      BY <1>2, <1>7, <2>4
    <3>3. SurveyOK(h)'
      BY <1>1, <1>2, <1>3, <1>5, <1>6, <2>1, <2>2, <3>1, <3>2 DEF SurveyOK
    <3>4. ScanOK(h)'
      BY <1>2, <1>3, <1>5, <2>1, <3>2 DEF ScanOK
    <3> QED BY <1>2, <1>3, <1>4, <1>7, <2>1, <2>2, <2>4, <3>1, <3>3, <3>4, AnswerFrame
  <2> QED BY <1>9, <2>3, <2>4 DEF InventoryArrives
<1>10. CASE MatchDone(h)
  <2>1. matching' = matching \ {h} /\ UNCHANGED asked
    BY <1>10 DEF MatchDone
  <2>2. CASE /\ running' = [running EXCEPT ![h] = [k \in Kinds |-> 0]]
             /\ missed' = [missed EXCEPT ![h]["scan"] = IF Asking(h, "scan") # {} THEN 1 ELSE 0]
    <3>1. /\ running' \in [Host -> [Kinds -> Nat]] /\ missed' \in [Host -> [Kinds -> Nat]]
          /\ running'[h]["survey"] = 0 /\ running'[h]["scan"] = 0
          /\ missed'[h]["survey"] = missed[h]["survey"]
          /\ missed'[h]["scan"] = IF Asking(h, "scan") # {} THEN 1 ELSE 0
          /\ \A g \in Host \ {h} : running'[g] = running[g] /\ missed'[g] = missed[g]
      BY <1>1, <1>2, <2>2 DEF TaskTypes
    <3>2. TaskTypes'
      BY <1>1, <1>4, <2>1, <3>1, TaskTypesKept DEF TaskTypes
    <3>3. SurveyOK(h)'
      BY <1>1, <1>2, <1>3, <1>5, <1>6, <2>1, <3>1, <3>2 DEF SurveyOK
    <3>4. ScanOK(h)'
      BY <1>2, <1>3, <3>1 DEF ScanOK
    <3> QED BY <1>3, <1>4, <2>1, <3>1, <3>2, <3>3, <3>4, AnswerFrame
  <2>3. CASE Miss(h, "scan") /\ UNCHANGED running
    <3>1. TaskTypes'
      BY <1>1, <1>2, <1>4, <1>7, <2>1, <2>3, TaskTypesKept DEF TaskTypes
    <3>2. missed'[h]["survey"] = missed[h]["survey"]
          /\ missed'[h]["scan"] = missed[h]["scan"]
               + (IF running[h]["scan"] > 0 \/ Asking(h, "scan") # {} THEN 1 ELSE 0)
      BY <1>2, <1>7, <2>3
    <3>3. SurveyOK(h)'
      BY <1>1, <1>2, <1>3, <1>5, <1>6, <2>1, <2>3, <3>1, <3>2 DEF SurveyOK
    <3>4. ScanOK(h)'
      BY <1>2, <1>3, <1>5, <2>3, <3>2 DEF ScanOK
    <3> QED BY <1>2, <1>3, <1>4, <1>7, <2>1, <2>3, <3>1, <3>3, <3>4, AnswerFrame
  <2>4. (\E r \in Req : At(r, "task") /\ req[r].host = h /\ req[r].kind = "scan")
          <=> Asking(h, "scan") # {}
    BY DEF Asking
  <2> QED BY <1>10, <2>2, <2>3, <2>4 DEF MatchDone
<1> QED BY <1>8, <1>9, <1>10

\* The request is pushed: one more that asks, one more in the queue.
LEMMA AskKeepsAnswers ==
  ASSUME AnswerInv, NEW r \in Req, NEW h \in Host, NEW k \in Kinds, AskAgent(r, h, k)
  PROVE  AnswerInv'
<1>1. TaskTypes /\ SurveyOK(h) /\ ScanOK(h)
  BY DEF AnswerInv
<1>2. /\ req[r] = Idle /\ req' = [req EXCEPT ![r] = [pc |-> "task", host |-> h, kind |-> k]]
      /\ ctl' = [ctl EXCEPT ![h] = Append(ctl[h], k)]
      /\ UNCHANGED <<asked, running, matching, missed>>
  BY DEF AskAgent, Begin, taskVars
<1>3. ctl[h] \in Seq(Interval \cup Kinds) /\ Append(ctl[h], k) \in Seq(Interval \cup Kinds)
  BY <1>1, AppendFacts DEF TaskTypes
<1>4. /\ ctl' \in [Host -> Seq(Interval \cup Kinds)] /\ ctl'[h] = Append(ctl[h], k)
      /\ \A g \in Host \ {h} : ctl'[g] = ctl[g]
  BY <1>1, <1>2, <1>3 DEF TaskTypes
<1>5. /\ DOMAIN req' = Req /\ ~At(r, "task") /\ At(r, "task")' /\ req'[r].host = h /\ req'[r].kind = k
      /\ \A x \in Req \ {r} : req'[x] = req[x]
  BY <1>1, <1>2 DEF TaskTypes, At, Idle
<1>6. ASSUME NEW g \in Host, NEW j \in Kinds
      PROVE  /\ Asking(g, j)' = Asking(g, j) \cup (IF g = h /\ j = k THEN {r} ELSE {})
             /\ r \notin Asking(g, j)
  BY <1>5 DEF Asking, At
<1>7. ASSUME NEW g \in Host, NEW j \in Kinds
      PROVE  /\ IsFiniteSet(Asking(g, j)')
             /\ g = h /\ j = k =>
                  Cardinality(Asking(g, j)') = Cardinality(Asking(g, j)) + 1
  <2>1. IsFiniteSet(Asking(g, j))
    BY <1>1 DEF TaskTypes
  <2>2. /\ IsFiniteSet(Asking(g, j) \cup {r})
        /\ Cardinality(Asking(g, j) \cup {r}) = Cardinality(Asking(g, j)) + 1
    BY <1>6, <2>1, FS_AddElement
  <2>3. CASE g = h /\ j = k
    BY <1>6, <2>2, <2>3
  <2>4. CASE ~(g = h /\ j = k)
    <3>1. Asking(g, j)' = Asking(g, j) \cup {}
      BY <1>6, <2>4
    <3>2. Asking(g, j)' = Asking(g, j)
      BY <3>1
    <3> QED BY <2>1, <2>4, <3>2
  <2> QED BY <2>3, <2>4
<1>8. TaskTypes'
  <2>1. \A x \in Req : At(x, "task")' => req'[x].host \in Host /\ req'[x].kind \in Kinds
    BY <1>1, <1>5 DEF TaskTypes, At
  <2> QED BY <1>1, <1>2, <1>4, <1>5, <1>7, <2>1 DEF TaskTypes
<1>9. "survey" \in Kinds /\ "scan" \in Kinds
  BY DEF Kinds
<1>10. ASSUME NEW j \in Kinds
       PROVE  /\ Outstanding(h, j)' = Outstanding(h, j) + (IF k = j THEN 1 ELSE 0)
              /\ Outstanding(h, j) \in Nat /\ running[h][j] \in Nat /\ missed[h][j] \in Nat
              /\ Cardinality(Asking(h, j)) \in Nat
  <2>1. Cardinality(Places(Append(ctl[h], k), j))
          = Cardinality(Places(ctl[h], j)) + (IF k = j THEN 1 ELSE 0)
    BY <1>3, PlacesAppend
  <2>2. /\ Outstanding(h, j) = asked[h][j] + Cardinality(Places(ctl[h], j))
        /\ asked[h][j] \in Nat /\ running[h][j] \in Nat /\ missed[h][j] \in Nat
        /\ Cardinality(Places(ctl[h], j)) \in Nat /\ Cardinality(Asking(h, j)) \in Nat
    BY <1>1, OutstandingIs
  <2>3. Outstanding(h, j)' = asked'[h][j] + Cardinality(Places(ctl'[h], j))
    BY <1>8, OutstandingNext
  <2>4. Outstanding(h, j)' = asked[h][j] + Cardinality(Places(Append(ctl[h], k), j))
    BY <1>2, <1>4, <2>3
  <2> QED BY <2>1, <2>2, <2>4
<1>11. SurveyOK(h)'
  <2>1. CASE k = "survey"
    <3>1. Cardinality(Asking(h, "survey")') = Cardinality(Asking(h, "survey")) + 1
      BY <1>7, <1>9, <2>1
    <3>2. /\ Outstanding(h, "survey")' = Outstanding(h, "survey") + 1
          /\ Outstanding(h, "survey") \in Nat /\ running[h]["survey"] \in Nat
          /\ missed[h]["survey"] \in Nat /\ Cardinality(Asking(h, "survey")) \in Nat
      BY <1>9, <1>10, <2>1
    <3>3. running' = running /\ missed' = missed
      BY <1>2
    <3>4. SurveyOK(h)
      BY <1>1
    <3> QED BY <3>1, <3>2, <3>3, <3>4 DEF SurveyOK
  <2>2. CASE k # "survey"
    <3>1. Asking(h, "survey")' = Asking(h, "survey")
      BY <1>6, <1>9, <2>2
    <3> QED BY <1>1, <1>2, <1>9, <1>10, <2>2, <3>1 DEF SurveyOK
  <2> QED BY <2>1, <2>2
<1>12. ScanOK(h)'
  <2>1. CASE k = "scan"
    BY <1>9, <1>10, <2>1 DEF ScanOK
  <2>2. CASE k # "scan"
    <3>1. Asking(h, "scan")' = Asking(h, "scan")
      BY ZenonT(30), <1>6, <1>9, <2>2
    <3> QED BY <1>1, <1>2, <1>9, <1>10, <2>2, <3>1 DEF ScanOK
  <2> QED BY <2>1, <2>2
<1>13. \A g \in Host \ {h} : \A j \in Kinds : Asking(g, j)' = Asking(g, j)
  BY <1>6
<1> QED BY <1>2, <1>4, <1>8, <1>11, <1>12, <1>13, AnswerFrame

\* The task is committed: one more that runs, one less that asks.
LEMMA TaskKeepsAnswers ==
  ASSUME AnswerInv, NEW r \in Req, TaskCommit(r)
  PROVE  AnswerInv'
<1>1. TaskTypes
  BY DEF AnswerInv
<1>2. PICK h \in Host, k \in Kinds : h = req[r].host /\ k = req[r].kind
  BY <1>1 DEF TaskTypes, TaskCommit
<1>3. /\ At(r, "task") /\ req' = [req EXCEPT ![r] = Idle]
      /\ running' = [running EXCEPT ![h][k] = @ + 1]
      /\ UNCHANGED <<ctl, asked, matching, missed>>
  BY <1>2 DEF TaskCommit, Done, Goto, streamVars
<1>4. /\ DOMAIN req' = Req /\ ~At(r, "task")' /\ \A x \in Req \ {r} : req'[x] = req[x]
  BY <1>1, <1>3 DEF TaskTypes, At, Idle
<1>5. ASSUME NEW g \in Host, NEW j \in Kinds
      PROVE  /\ Asking(g, j)' = Asking(g, j) \ {r}
             /\ r \in Asking(g, j) <=> g = h /\ j = k
  BY <1>2, <1>3, <1>4 DEF Asking, At
<1>6. ASSUME NEW g \in Host, NEW j \in Kinds
      PROVE  /\ IsFiniteSet(Asking(g, j)')
             /\ Cardinality(Asking(g, j)')
                  = IF g = h /\ j = k THEN Cardinality(Asking(g, j)) - 1
                    ELSE Cardinality(Asking(g, j))
  <2>1. IsFiniteSet(Asking(g, j))
    BY <1>1 DEF TaskTypes
  <2>2. /\ IsFiniteSet(Asking(g, j) \ {r})
        /\ Cardinality(Asking(g, j) \ {r})
             = IF r \in Asking(g, j) THEN Cardinality(Asking(g, j)) - 1
               ELSE Cardinality(Asking(g, j))
    BY <2>1, FS_RemoveElement
  <2> QED BY <1>5, <2>2
<1>7. /\ running' \in [Host -> [Kinds -> Nat]]
      /\ \A j \in Kinds : running'[h][j] = running[h][j] + (IF j = k THEN 1 ELSE 0)
      /\ \A g \in Host \ {h} : running'[g] = running[g]
  <2>1. running \in [Host -> [Kinds -> Nat]]
    BY <1>1 DEF TaskTypes
  <2> QED BY <1>3, <2>1
<1>8. TaskTypes'
  <2>1. \A x \in Req : At(x, "task")' => req'[x].host \in Host /\ req'[x].kind \in Kinds
    BY <1>1, <1>4 DEF TaskTypes, At
  <2> QED BY <1>1, <1>3, <1>4, <1>6, <1>7, <2>1 DEF TaskTypes
<1>9. "survey" \in Kinds /\ "scan" \in Kinds
  BY DEF Kinds
<1>10. \A j \in Kinds : Outstanding(h, j)' = Outstanding(h, j)
  BY <1>3 DEF Outstanding
<1>11. SurveyOK(h)'
  <2>1. running[h]["survey"] \in Nat /\ Cardinality(Asking(h, "survey")) \in Nat
    BY <1>1, <1>9, OutstandingIs
  <2>2. running'[h]["survey"] + Cardinality(Asking(h, "survey")')
          = running[h]["survey"] + Cardinality(Asking(h, "survey"))
    BY <1>6, <1>7, <1>9, <2>1
  <2> QED BY <1>3, <1>9, <1>10, <2>2 DEF SurveyOK, AnswerInv
<1>12. ScanOK(h)'
  <2>1. CASE k = "scan"
    <3>1. Asking(h, "scan") # {}
      BY <1>5, <2>1
    <3> QED BY <1>3, <1>9, <1>10, <3>1 DEF ScanOK, AnswerInv
  <2>2. CASE k # "scan"
    <3>1. Asking(h, "scan")' = Asking(h, "scan") /\ running'[h]["scan"] = running[h]["scan"]
      <4>1. running[h]["scan"] \in Nat
        BY <1>1, <1>9, OutstandingIs
      <4>2. r \notin Asking(h, "scan") /\ Asking(h, "scan")' = Asking(h, "scan") \ {r}
        BY <1>5, <1>9, <2>2
      <4>3. Asking(h, "scan")' = Asking(h, "scan")
        BY <4>2
      <4>4. running'[h]["scan"] = running[h]["scan"]
        BY <1>7, <1>9, <2>2, <4>1
      <4> QED BY <4>3, <4>4
    <3> QED BY <1>3, <1>9, <1>10, <3>1 DEF ScanOK, AnswerInv
  <2> QED BY <2>1, <2>2
<1>13. ASSUME NEW g \in Host \ {h}, NEW j \in Kinds PROVE Asking(g, j)' = Asking(g, j)
  <2>1. r \notin Asking(g, j) /\ Asking(g, j)' = Asking(g, j) \ {r}
    BY <1>5
  <2> QED BY <2>1
<1> QED BY <1>3, <1>7, <1>8, <1>11, <1>12, <1>13, AnswerFrame

LEMMA AnswerInvStep == IntervalInv /\ AnswerInv /\ [Next]_vars => AnswerInv'
<1> SUFFICES ASSUME IntervalInv, AnswerInv, [Next]_vars PROVE AnswerInv'
  OBVIOUS
<1>1. TaskTypes
  BY DEF AnswerInv
<1>2. ASSUME NEW r \in Req, TaskCommit(r) PROVE AnswerInv'
  BY <1>2, TaskKeepsAnswers
<1>3. ASSUME NEW r \in Req, NEW h \in Host, NEW k \in Kinds, AskAgent(r, h, k) PROVE AnswerInv'
  BY <1>3, AskKeepsAnswers
<1>4. CASE SameAsking
  <2>1. ASSUME UNCHANGED <<ctl, asked, running, matching, missed>> PROVE AnswerInv'
    <3>1. TaskTypes'
      BY <1>1, <1>4, <2>1, TaskTypesKept DEF TaskTypes
    <3>2. \A h \in Host : \A k \in Kinds : Asking(h, k)' = Asking(h, k)
      BY <1>4, AskingKept
    <3>3. "survey" \in Kinds /\ "scan" \in Kinds
      BY DEF Kinds
    <3>4. \A h \in Host : SurveyOK(h)' /\ ScanOK(h)'
      BY <2>1, <3>2, <3>3 DEF AnswerInv, SurveyOK, ScanOK, Outstanding
    <3> QED BY <3>1, <3>4 DEF AnswerInv
  <2>2. ASSUME NEW h \in Host, PushInitial(h) PROVE AnswerInv'
    <3>1. PICK i \in Interval : i = loaded[h]
      BY <2>2 DEF PushInitial, IntervalInv, HostTypes
    <3>2. ctl' = [ctl EXCEPT ![h] = Append(@, i)] /\ UNCHANGED <<asked, running, matching, missed>>
      BY <2>2, <3>1 DEF PushInitial, taskVars
    <3> QED BY <1>4, <3>2, IntervalPushed
  <2>3. ASSUME NEW r \in Req, PushInterval(r) PROVE AnswerInv'
    <3>1. PICK h \in Host, i \in Interval : h = req[r].host /\ i = req[r].ival
      BY <2>3 DEF PushInterval, IntervalInv, PushTypes
    <3>2. /\ UNCHANGED ctl \/ ctl' = [ctl EXCEPT ![h] = Append(@, i)]
          /\ UNCHANGED <<asked, running, matching, missed>>
      BY <2>3, <3>1 DEF PushInterval, taskVars
    <3> QED BY <1>4, <2>1, <3>2, IntervalPushed
  <2>4. ASSUME NEW h \in Host, Disconnect(h) PROVE AnswerInv'
    BY <1>4, <2>4, DropKeepsAnswers DEF Disconnect
  <2>5. ASSUME NEW r \in Req, RemoveHost(r) PROVE AnswerInv'
    BY <1>4, <2>1, <2>5, DropKeepsAnswers DEF RemoveHost, DeleteHostCommit, Rows
  <2>6. ASSUME NEW h \in Host, ReceiveControl(h) PROVE AnswerInv'
    BY <1>4, <2>6, ReceiveKeepsAnswers
  <2>7. ASSUME NEW h \in Host, SurveyArrives(h) \/ InventoryArrives(h) \/ MatchDone(h)
        PROVE  AnswerInv'
    BY <1>4, <2>7, AnswerArrives
  <2>8. CASE HostStep
    BY <1>2, <1>3, <2>1, <2>2, <2>3, <2>4, <2>6, <2>7, <2>8
    DEF HostStep, PatchHost, IssueToken, TokenExpires, RevokeTokenRead, RedeemRead, RevokeTokenCommit,
        RedeemCommit, PruneRead, PruneCommit, DeleteHostRead, Connect, LoadInterval, HeartbeatRead,
        HeartbeatCommit, HeartbeatAges, OfflineSweepRead, OfflineSweepCommit, hostVars, streamVars,
        taskVars
  <2>9. CASE UNCHANGED hostVars
    BY <2>1, <2>9 DEF hostVars
  <2>10. CASE UNCHANGED vars
    BY <2>9, <2>10 DEF vars
  <2> QED BY <2>5, <2>8, <2>9, <2>10 DEF Next
<1> QED BY <1>1, <1>2, <1>3, <1>4, WhoWaits, OthersWait DEF TaskTypes, Same

\* A running resurvey task is paid for by a survey that is outstanding or by one
\* that closed none; a running rescan task awaits an inventory or a match, or one
\* was lost since the last match closed them all.
THEOREM TasksAwaitAnswers == Spec => []RunningTasksAwaitAnAnswer
<1>1. Init => AnswerInv
  <2> SUFFICES ASSUME Init PROVE AnswerInv
    OBVIOUS
  <2>1. \A h \in Host, k \in Kinds : Asking(h, k) = {}
    BY DEF Init, Asking, At, Idle
  <2>2. TaskTypes
    <3>1. /\ DOMAIN req = Req /\ ctl \in [Host -> Seq(Interval \cup Kinds)]
          /\ asked \in [Host -> [Kinds -> Nat]] /\ running \in [Host -> [Kinds -> Nat]]
          /\ missed \in [Host -> [Kinds -> Nat]]
      BY DEF Init, HostInit
    <3>2. \A r \in Req : ~At(r, "task")
      BY DEF Init, At, Idle
    <3> QED BY <2>1, <3>1, <3>2, FS_EmptySet DEF TaskTypes
  <2>3. ASSUME NEW h \in Host PROVE SurveyOK(h) /\ ScanOK(h)
    <3>1. "survey" \in Kinds /\ "scan" \in Kinds
      BY DEF Kinds
    <3>2. running[h]["survey"] = 0 /\ running[h]["scan"] = 0
      BY <3>1 DEF Init, HostInit
    <3>3. Cardinality(Asking(h, "survey")) = 0
      BY <2>1, <3>1, FS_EmptySet
    <3>4. Outstanding(h, "survey") \in Nat /\ missed[h]["survey"] \in Nat
      BY <2>2, <3>1, OutstandingIs
    <3> QED BY <2>1, <3>1, <3>2, <3>3, <3>4 DEF SurveyOK, ScanOK
  <2> QED BY <2>2, <2>3 DEF AnswerInv
<1>2. AnswerInv => RunningTasksAwaitAnAnswer
  <2> SUFFICES ASSUME AnswerInv, NEW h \in Host
      PROVE  /\ running[h]["survey"] <= Outstanding(h, "survey") + missed[h]["survey"]
             /\ running[h]["scan"] > 0 =>
                  h \in matching \/ Outstanding(h, "scan") > 0 \/ missed[h]["scan"] > 0
    BY DEF RunningTasksAwaitAnAnswer
  <2>1. "survey" \in Kinds
    BY DEF Kinds
  <2>2. /\ running[h]["survey"] \in Nat /\ Cardinality(Asking(h, "survey")) \in Nat
        /\ Outstanding(h, "survey") \in Nat /\ missed[h]["survey"] \in Nat
    BY <2>1, OutstandingIs DEF AnswerInv
  <2> QED BY <2>2 DEF AnswerInv, SurveyOK, ScanOK
<1> QED BY <1>1, <1>2, AnswerInvStep, IntervalInit, IntervalInvStep, PTL DEF Spec

--------------------------------------------------------------------------------
(***************************************************************************)
(* Groups.                                                                   *)
(***************************************************************************)
\* The links as a function, and what is above a group along such links.
LinksOf(par) == [x \in Group |-> IF par[x] \in {"unused", "gone"} THEN None ELSE par[x]]
Links == LinksOf(parent)
ClosedUnder(S, up) == \A x \in S : up[x] # None => up[x] \in S
Above(g, up) == {a \in Group : \A S \in SUBSET Group : g \in S /\ ClosedUnder(S, up) => a \in S}
Forest(up) == \A g \in Group : up[g] # None => g \notin Above(up[g], up)

\* Ids of groups are not used twice, so no link leads to a group that is yet to
\* be created.
GroupTypes ==
    /\ parent \in [Group -> Group \cup {None, "unused", "gone"}]
    /\ DOMAIN req = Req
    /\ \A x \in Group : parent[x] \in Group => parent[parent[x]] # "unused"
    /\ \A r \in Req : At(r, "reparent") =>
          /\ req[r].group \in Group /\ parent[req[r].group] # "unused"
          /\ req[r].to \in Group \cup {None}
          /\ req[r].to \in Group => parent[req[r].to] # "unused"

\* The check does not cover what is committed.
Unchecked == reparents \/ misspelt

\* A re-parenting that was checked may still be committed, since no other has
\* begun and the other requests add links to new groups alone.
ForestInv ==
    /\ GroupTypes
    /\ Unchecked \/ /\ Forest(Links)
                    /\ \A r \in Req : At(r, "reparent") =>
                          /\ req[r].to # None => req[r].group \notin Above(req[r].to, Links)
                          /\ \A q \in Req : At(q, "reparent") => q = r

LEMMA AboveFacts ==
  ASSUME NEW up \in [Group -> Group \cup {None}], NEW g \in Group
  PROVE  /\ g \in Above(g, up) /\ Above(g, up) \in SUBSET Group /\ ClosedUnder(Above(g, up), up)
         /\ \A S \in SUBSET Group : g \in S /\ ClosedUnder(S, up) => Above(g, up) \subseteq S
<1>1. ASSUME NEW x \in Above(g, up), up[x] # None PROVE up[x] \in Above(g, up)
  <2>1. x \in Group /\ up[x] \in Group
    BY <1>1 DEF Above
  <2>2. ASSUME NEW S \in SUBSET Group, g \in S, ClosedUnder(S, up) PROVE up[x] \in S
    <3>1. x \in S
      BY <2>2 DEF Above
    <3> QED BY <1>1, <2>2, <3>1 DEF ClosedUnder
  <2> QED BY <2>1, <2>2 DEF Above
<1> QED BY <1>1 DEF Above, ClosedUnder

\* Links that are only removed close no cycle.
LEMMA ForestFewer ==
  ASSUME NEW up \in [Group -> Group \cup {None}], NEW fewer \in [Group -> Group \cup {None}],
         \A x \in Group : fewer[x] \in {up[x], None}
  PROVE  /\ \A g \in Group : Above(g, fewer) \subseteq Above(g, up)
         /\ Forest(up) => Forest(fewer)
<1>1. ASSUME NEW g \in Group PROVE Above(g, fewer) \subseteq Above(g, up)
  <2>1. ClosedUnder(Above(g, up), fewer)
    BY AboveFacts DEF ClosedUnder
  <2> QED BY <2>1, AboveFacts
<1> QED BY <1>1 DEF Forest

\* A link from g to p closes no cycle if p is not below g; above a group that is
\* not below g nothing changes.
LEMMA ForestMove ==
  ASSUME NEW up \in [Group -> Group \cup {None}], Forest(up),
         NEW g \in Group, NEW p \in Group, g \notin Above(p, up)
  PROVE  LET new == [up EXCEPT ![g] = p]
         IN  /\ Forest(new)
             /\ \A x \in Group : g \notin Above(x, up) => Above(x, new) \subseteq Above(x, up)
<1> DEFINE new == [up EXCEPT ![g] = p]
<1>0. new \in [Group -> Group \cup {None}] /\ new[g] = p /\ \A x \in Group : x # g => new[x] = up[x]
  OBVIOUS
<1> HIDE DEF new
<1>1. ASSUME NEW x \in Group, g \notin Above(x, up) PROVE Above(x, new) \subseteq Above(x, up)
  <2>1. ClosedUnder(Above(x, up), new)
    BY <1>0, <1>1, AboveFacts DEF ClosedUnder
  <2> QED BY <1>0, <2>1, AboveFacts
<1>2. ASSUME NEW x \in Group, new[x] # None PROVE x \notin Above(new[x], new)
  <2>1. CASE x = g
    BY <1>0, <1>1, <2>1
  <2>2. CASE x # g
    <3>1. new[x] = up[x] /\ up[x] \in Group /\ x \notin Above(up[x], up)
      BY <1>0, <1>2, <2>2 DEF Forest
    <3>2. CASE x \in Above(p, up)
      <4>1. up[x] \in Above(p, up)
        <5>1. ClosedUnder(Above(p, up), up)
          BY AboveFacts
        <5> QED BY <3>1, <3>2, <5>1, AccessAssumption DEF ClosedUnder
      <4>2. Above(up[x], up) \subseteq Above(p, up)
        BY <3>1, <4>1, AboveFacts
      <4> QED BY <1>1, <3>1, <4>2
    <3>3. CASE x \notin Above(p, up)
      <4> DEFINE S == Above(up[x], up) \cup Above(p, up)
      <4>1. S \in SUBSET Group /\ up[x] \in S
        BY <3>1, AboveFacts
      <4>2. p \in S
        BY AboveFacts
      <4>3. ASSUME NEW y \in S, new[y] # None PROVE new[y] \in S
        <5>1. CASE y = g
          BY <1>0, <4>2, <5>1
        <5>2. CASE y # g
          <6>1. new[y] = up[y]
            BY <1>0, <4>1, <5>2
          <6> QED BY <3>1, <4>3, <6>1, AboveFacts DEF ClosedUnder
        <5> QED BY <5>1, <5>2
      <4>4. ClosedUnder(S, new)
        BY <4>3 DEF ClosedUnder
      <4>5. Above(up[x], new) \subseteq S
        BY <1>0, <3>1, <4>1, <4>4, AboveFacts
      <4> QED BY <3>1, <3>3, <4>5
    <3> QED BY <3>2, <3>3
  <2> QED BY <2>1, <2>2
<1> QED BY <1>1, <1>2 DEF Forest, new

LEMMA LinksType ==
  ASSUME NEW par \in [Group -> Group \cup {None, "unused", "gone"}]
  PROVE  LinksOf(par) \in [Group -> Group \cup {None}]
BY DEF LinksOf

LEMMA CyclicIs ==
  ASSUME GroupTypes
  PROVE  /\ \A x \in Group : Ancestors(x) = Above(x, Links)
         /\ Cyclic <=> ~ Forest(Links)
<1>1. \A x \in Group : Links[x] = Up(x) /\ (x \notin Groups => Links[x] = None)
  BY DEF Links, LinksOf, Up, Groups
<1>2. Links \in [Group -> Group \cup {None}]
  BY LinksType DEF Links, GroupTypes
<1>3. \A S \in SUBSET Group : UpClosed(S) <=> ClosedUnder(S, Links)
  BY <1>1 DEF UpClosed, ClosedUnder
<1>4. \A x \in Group : Ancestors(x) = Above(x, Links)
  BY <1>3, AccessAssumption DEF Ancestors, Above
<1>5. Ancestors(None) = {}
  BY DEF Ancestors
<1>6. Groups \subseteq Group
  BY DEF Groups
<1>7. Cyclic <=> ~ Forest(Links)
  BY <1>1, <1>2, <1>4, <1>5, <1>6 DEF Cyclic, Forest
<1> QED BY <1>4, <1>7

\* What is above a group is the group itself or above its parent.
LEMMA NotAboveParent ==
  ASSUME GroupTypes, NEW g \in Group, NEW p \in Group, p # g, g \notin Ancestors(Up(p))
  PROVE  g \notin Above(p, Links)
<1> DEFINE up == Links[p]
<1>1. Links \in [Group -> Group \cup {None}]
  BY LinksType DEF Links, GroupTypes
<1>2. up = Up(p)
  BY DEF Links, LinksOf, Up, Groups
<1>3. CASE up = None
  <2>1. ClosedUnder({p}, Links)
    BY <1>3 DEF ClosedUnder
  <2>2. Above(p, Links) \subseteq {p}
    BY <1>1, <2>1, AboveFacts
  <2> QED BY <2>2
<1>4. CASE up # None
  <2> DEFINE S == {p} \cup Above(up, Links)
  <2>1. up \in Group
    BY <1>1, <1>4
  <2>2. g \notin S
    BY <1>2, <2>1, CyclicIs
  <2>3. ClosedUnder(S, Links)
    <3>1. up \in Above(up, Links) /\ ClosedUnder(Above(up, Links), Links)
      BY <1>1, <2>1, AboveFacts
    <3> QED BY <3>1 DEF ClosedUnder
  <2>4. S \in SUBSET Group
    BY DEF Above
  <2>5. Above(p, Links) \subseteq S
    BY <1>1, <2>3, <2>4, AboveFacts
  <2> QED BY <2>2, <2>5
<1> QED BY <1>3, <1>4

\* Above a group that exists or existed are only such.
LEMMA AboveUsed ==
  ASSUME GroupTypes, NEW x \in Group, parent[x] # "unused"
  PROVE  \A a \in Above(x, Links) : parent[a] # "unused"
<1> DEFINE Used == {y \in Group : parent[y] # "unused"}
<1>1. ClosedUnder(Used, Links)
  BY DEF ClosedUnder, GroupTypes, Links, LinksOf
<1>2. Links \in [Group -> Group \cup {None}]
  BY LinksType DEF Links, GroupTypes
<1>3. Above(x, Links) \subseteq Used
  BY <1>1, <1>2, AboveFacts
<1> QED BY <1>3

\* The requests that re-parent a group are the same after the step.
SameReparents ==
    /\ DOMAIN req' = Req
    /\ \A r \in Req : At(r, "reparent")' => At(r, "reparent") /\ req'[r] = req[r]

LEMMA OnlyGroupsReparent ==
  ASSUME DOMAIN req = Req, [Next]_vars
  PROVE  \/ SameReparents /\ UNCHANGED <<parent, reparents, misspelt>>
         \/ SameReparents /\ \E g \in Group : /\ \E p \in Group \cup {None} : CreateGroup(g, p)
         \/ SameReparents /\ \E g \in Group : DeleteGroup(g)
         \/ \E r \in Req, g \in Group, p \in Group \cup {None} : UpdateGroupRead(r, g, p)
         \/ \E r \in Req : UpdateGroupCommit(r)
<1> USE DEF SameReparents, Begin, Goto, Done, At, Idle, Call, Quiet
<1>1. CASE HostStep /\ UNCHANGED accessVars
  <2>0. UNCHANGED <<parent, reparents, misspelt>>
    BY <1>1 DEF accessVars
  <2>1. ASSUME UNCHANGED req PROVE SameReparents
    BY <2>1
  <2>2. ASSUME NEW r \in Req, NEW t \in Token, RevokeTokenRead(r, t) \/ RedeemRead(r, t)
        PROVE  SameReparents
    BY <2>2 DEF RevokeTokenRead, RedeemRead
  <2>3. ASSUME NEW r \in Req, RevokeTokenCommit(r) \/ RedeemCommit(r) \/ PruneRead(r) \/ PruneCommit(r)
                 \/ TaskCommit(r) \/ PushInterval(r)
        PROVE  SameReparents
    BY <2>3 DEF RevokeTokenCommit, RedeemCommit, PruneRead, PruneCommit, TaskCommit, PushInterval
  <2>4. ASSUME NEW r \in Req, NEW h \in Host, DeleteHostRead(r, h) PROVE SameReparents
    BY <2>4 DEF DeleteHostRead
  <2>5. ASSUME NEW r \in Req, NEW h \in Host, NEW k \in Kinds, AskAgent(r, h, k) PROVE SameReparents
    BY <2>5 DEF AskAgent
  <2>6. ASSUME NEW r \in Req, NEW h \in Host, NEW i \in Interval, PatchHost(r, h, i) PROVE SameReparents
    BY <2>6 DEF PatchHost
  <2> HIDE DEF SameReparents
  <2> QED BY <1>1, <2>0, <2>1, <2>2, <2>3, <2>4, <2>5, <2>6 DEF HostStep, IssueToken, TokenExpires,
        Connect, LoadInterval, PushInitial, ReceiveControl, Disconnect, HeartbeatRead, HeartbeatCommit,
        HeartbeatAges, SurveyArrives, InventoryArrives, MatchDone, OfflineSweepRead,
        OfflineSweepCommit
<1>2. ASSUME NEW r \in Req, RemoveHost(r) PROVE SameReparents /\ UNCHANGED <<parent, reparents, misspelt>>
  BY <1>2 DEF RemoveHost, DeleteHostCommit
<1>3. CASE AccessStep
  <2>1. ASSUME UNCHANGED req PROVE SameReparents
    BY <2>1
  <2>2. ASSUME NEW r \in Req, NEW rec, rec.pc # "reparent", Begin(r, rec) PROVE SameReparents
    BY <2>2
  <2>3. ASSUME NEW r \in Req, NEW g, NEW h, AddMemberRead(r, g, h)
        PROVE  SameReparents /\ UNCHANGED <<parent, reparents, misspelt>>
    BY <2>2, <2>3 DEF AddMemberRead, accessVars
  <2>4. ASSUME NEW r \in Req, NEW x, DeleteRoleRead(r, x)
        PROVE  SameReparents /\ UNCHANGED <<parent, reparents, misspelt>>
    BY <2>2, <2>4 DEF DeleteRoleRead, accessVars
  <2>5. ASSUME NEW r \in Req, NEW u, NEW x, NEW s, CreateBindingRead(r, u, x, s) \/ DispatchResolve(r, u, s)
        PROVE  SameReparents /\ UNCHANGED <<parent, reparents, misspelt>>
    BY <2>2, <2>5 DEF CreateBindingRead, DispatchResolve, accessVars
  <2>6. ASSUME NEW r \in Req, AddMemberCommit(r) \/ DeleteRoleCommit(r)
                 \/ CreateBindingCommit(r) \/ DispatchDone(r)
        PROVE  SameReparents /\ UNCHANGED <<parent, reparents, misspelt>>
    BY <2>6 DEF AddMemberCommit, DeleteRoleCommit, CreateBindingCommit, DispatchDone, accessVars
  <2>7. ASSUME NEW r \in Req, DispatchCheck(r) PROVE SameReparents /\ UNCHANGED <<parent, reparents, misspelt>>
    BY <2>7 DEF DispatchCheck, accessVars
  <2>8. ASSUME NEW g \in Group, NEW h \in Host, RemoveMember(g, h)
        PROVE  SameReparents /\ UNCHANGED <<parent, reparents, misspelt>>
    BY <2>8 DEF RemoveMember
  <2>9. ASSUME NEW x, CreateRole(x) \/ UpdateRole(x) \/ DeleteBinding(x)
        PROVE  SameReparents /\ UNCHANGED <<parent, reparents, misspelt>>
    BY <2>9 DEF CreateRole, UpdateRole, DeleteBinding
  <2>10. ASSUME NEW g \in Group, NEW p, CreateGroup(g, p) \/ DeleteGroup(g) PROVE SameReparents
    BY <2>10 DEF CreateGroup, DeleteGroup
  <2> HIDE DEF SameReparents, Begin
  <2> QED BY <1>3, <2>3, <2>4, <2>5, <2>6, <2>7, <2>8, <2>9, <2>10 DEF AccessStep
<1>4. CASE UNCHANGED vars
  BY <1>4 DEF vars, accessVars
<1> HIDE DEF SameReparents
<1> QED BY <1>1, <1>2, <1>3, <1>4 DEF Next

LEMMA ForestInvStep == ForestInv /\ [Next]_vars => ForestInv'
<1> SUFFICES ASSUME ForestInv, [Next]_vars PROVE ForestInv'
  OBVIOUS
<1>0. GroupTypes /\ DOMAIN req = Req
  BY DEF ForestInv, GroupTypes
<1>1. CASE SameReparents /\ UNCHANGED <<parent, reparents, misspelt>>
  <2>1. Links' = Links
    BY <1>1 DEF Links
  <2>2. GroupTypes'
    BY <1>0, <1>1 DEF GroupTypes, SameReparents
  <2>3. Unchecked' = Unchecked
    BY <1>1 DEF Unchecked
  <2> QED BY <1>1, <2>1, <2>2, <2>3 DEF ForestInv, SameReparents
<1>2. ASSUME SameReparents, NEW g \in Group, NEW p \in Group \cup {None}, CreateGroup(g, p)
      PROVE  ForestInv'
  <2>1. /\ parent[g] = "unused" /\ p \in Groups \cup {None}
        /\ parent' = [parent EXCEPT ![g] = p] /\ Unchecked' = Unchecked
    BY <1>2 DEF CreateGroup, Unchecked
  <2>2. p # None => p \in Group /\ parent[p] # "unused" /\ p # g
    BY <2>1 DEF Groups
  <2>3. parent'[g] = p /\ \A x \in Group : x # g => parent'[x] = parent[x]
    BY <1>0, <2>1 DEF GroupTypes
  <2>4. GroupTypes'
    <3>1. parent' \in [Group -> Group \cup {None, "unused", "gone"}]
      BY <1>0, <2>1, <2>2 DEF GroupTypes
    <3>2. \A x \in Group : parent'[x] \in Group => parent'[parent'[x]] # "unused"
      BY <1>0, <2>2, <2>3, AccessAssumption DEF GroupTypes
    <3>3. \A x \in Group : parent[x] # "unused" => parent'[x] # "unused"
      BY <2>1, <2>3
    <3> QED BY <1>0, <1>2, <3>1, <3>2, <3>3 DEF GroupTypes, SameReparents
  <2>5. Links' = [Links EXCEPT ![g] = p]
    BY <2>1, <2>2, <2>3, AccessAssumption DEF Links, LinksOf
  <2>6. Links[g] = None /\ Links \in [Group -> Group \cup {None}]
    BY <1>0, <2>1, LinksType DEF Links, LinksOf, GroupTypes
  <2>7. ASSUME NEW x \in Group, parent[x] # "unused" PROVE g \notin Above(x, Links)
    BY <1>0, <2>1, <2>7, AboveUsed
  <2>8. ASSUME Forest(Links)
        PROVE  /\ Forest(Links')
               /\ \A x \in Group : parent[x] # "unused" => Above(x, Links') \subseteq Above(x, Links)
    <3>1. CASE p = None
      <4>1. Links' = Links
        BY <2>5, <2>6, <3>1
      <4> QED BY <2>8, <4>1
    <3>2. CASE p # None
      <4>1. p \in Group /\ g \notin Above(p, Links)
        BY <2>2, <2>7, <3>2
      <4> QED BY <2>5, <2>6, <2>7, <2>8, <4>1, ForestMove
    <3> QED BY <3>1, <3>2
  <2>9. CASE ~Unchecked
    <3>1. Forest(Links')
      BY <2>8, <2>9 DEF ForestInv
    <3>2. ASSUME NEW r \in Req, At(r, "reparent")'
          PROVE  /\ req'[r].to # None => req'[r].group \notin Above(req'[r].to, Links')
                 /\ \A q \in Req : At(q, "reparent")' => q = r
      <4>1. At(r, "reparent") /\ req'[r] = req[r] /\ \A q \in Req : At(q, "reparent")' => At(q, "reparent")
        BY <1>2, <3>2 DEF SameReparents
      <4>2. /\ req[r].to # None => req[r].group \notin Above(req[r].to, Links)
            /\ \A q \in Req : At(q, "reparent") => q = r
        BY <2>9, <4>1 DEF ForestInv
      <4>3. req[r].to # None => req[r].to \in Group /\ parent[req[r].to] # "unused"
        BY <1>0, <4>1 DEF GroupTypes
      <4>4. req[r].to # None => Above(req[r].to, Links') \subseteq Above(req[r].to, Links)
        BY <2>8, <2>9, <4>3 DEF ForestInv
      <4> QED BY <4>1, <4>2, <4>4
    <3> QED BY <2>4, <3>1, <3>2 DEF ForestInv
  <2> QED BY <2>1, <2>4, <2>9 DEF ForestInv
<1>3. ASSUME SameReparents, NEW g \in Group, DeleteGroup(g) PROVE ForestInv'
  <2>1. g \in Groups /\ parent' = [parent EXCEPT ![g] = "gone"] /\ Unchecked' = Unchecked
    BY <1>3 DEF DeleteGroup, Unchecked
  <2>3. parent'[g] = "gone" /\ \A x \in Group : x # g => parent'[x] = parent[x]
    BY <1>0, <2>1 DEF GroupTypes
  <2>4. GroupTypes'
    <3>1. parent' \in [Group -> Group \cup {None, "unused", "gone"}]
      BY <1>0, <2>1 DEF GroupTypes
    <3>2. \A x \in Group : parent'[x] \in Group => parent'[parent'[x]] # "unused"
      BY <1>0, <2>3, AccessAssumption DEF GroupTypes
    <3>3. \A x \in Group : parent[x] # "unused" => parent'[x] # "unused"
      BY <2>1, <2>3
    <3> QED BY <1>0, <1>3, <3>1, <3>2, <3>3 DEF GroupTypes, SameReparents
  <2>5. \A x \in Group : Links'[x] \in {Links[x], None}
    BY <2>3 DEF Links, LinksOf
  <2>6. Links \in [Group -> Group \cup {None}] /\ Links' \in [Group -> Group \cup {None}]
    BY <1>0, <2>4, LinksType DEF Links, GroupTypes
  <2>7. /\ \A x \in Group : Above(x, Links') \subseteq Above(x, Links)
        /\ Forest(Links) => Forest(Links')
    BY <2>5, <2>6, ForestFewer
  <2>8. ASSUME NEW r \in Req, At(r, "reparent")', ~Unchecked
        PROVE  /\ req'[r].to # None => req'[r].group \notin Above(req'[r].to, Links')
               /\ \A q \in Req : At(q, "reparent")' => q = r
    <3>1. At(r, "reparent") /\ req'[r] = req[r] /\ \A q \in Req : At(q, "reparent")' => At(q, "reparent")
      BY <1>3, <2>8 DEF SameReparents
    <3>2. /\ req[r].to # None => req[r].group \notin Above(req[r].to, Links)
          /\ \A q \in Req : At(q, "reparent") => q = r
      BY <2>8, <3>1 DEF ForestInv
    <3>3. req[r].to # None => req[r].to \in Group
      BY <1>0, <3>1 DEF GroupTypes
    <3> QED BY <2>7, <3>1, <3>2, <3>3
  <2> QED BY <2>1, <2>4, <2>7, <2>8 DEF ForestInv
<1>4. ASSUME NEW r \in Req, NEW g \in Group, NEW p \in Group \cup {None}, UpdateGroupRead(r, g, p)
      PROVE  ForestInv'
  <2>1. /\ g \in Groups /\ p \in Groups \cup {None} /\ parent' = parent
        /\ req[r] = Idle /\ req' = [req EXCEPT ![r] = [pc |-> "reparent", group |-> g, to |-> p]]
        /\ reparents' = (reparents \/ \E q \in Req : At(q, "reparent"))
    BY <1>4 DEF UpdateGroupRead, Begin
  <2>2. /\ req'[r] = [pc |-> "reparent", group |-> g, to |-> p]
        /\ \A q \in Req : q # r => req'[q] = req[q]
    BY <1>0, <2>1
  <2>3. parent[g] # "unused" /\ (p \in Group => parent[p] # "unused")
    BY <2>1, AccessAssumption DEF Groups
  <2>4. GroupTypes'
    <3>1. DOMAIN req' = Req
      BY <1>0, <2>1
    <3>2. ASSUME NEW q \in Req, At(q, "reparent")'
          PROVE  /\ req'[q].group \in Group /\ parent[req'[q].group] # "unused"
                 /\ req'[q].to \in Group \cup {None}
                 /\ req'[q].to \in Group => parent[req'[q].to] # "unused"
      <4>1. CASE q = r
        BY <2>2, <2>3, <4>1
      <4>2. CASE q # r
        BY <1>0, <2>2, <3>2, <4>2 DEF GroupTypes, At
      <4> QED BY <4>1, <4>2
    <3> QED BY <1>0, <2>1, <3>1, <3>2 DEF GroupTypes
  <2>5. Links' = Links
    BY <2>1 DEF Links
  <2>6. CASE ~Unchecked'
    <3>0. PICK gs \in Spelling, ps \in Spelling :
             /\ ~WouldCreateCycle(g, gs, p, ps)
             /\ misspelt' = (misspelt \/ ((gs # "str" \/ ps # "str") /\ g \in Ancestors(p)))
      BY <1>4 DEF UpdateGroupRead
    <3>1. ~Unchecked /\ \A q \in Req : ~At(q, "reparent")
      BY <2>1, <2>6, <3>0 DEF Unchecked
    <3>2. \A q \in Req : At(q, "reparent")' => q = r
      BY <2>2, <3>1 DEF At
    <3>3. ASSUME p # None PROVE g \notin Above(p, Links)
      <4>1. p \in Group /\ Ancestors(p) = Above(p, Links)
        BY <1>0, <3>3, CyclicIs
      <4>2. CASE g \notin Ancestors(p)
        BY <4>1, <4>2
      <4>3. CASE g \in Ancestors(p)
        <5>1. gs = "str" /\ ps = "str"
          BY <2>6, <3>0, <4>3 DEF Unchecked
        <5>2. p # g /\ g \notin Ancestors(Up(p))
          BY <3>0, <3>3, <5>1 DEF WouldCreateCycle
        <5> QED BY <1>0, <4>1, <5>2, NotAboveParent
      <4> QED BY <4>2, <4>3
    <3>4. Forest(Links)
      BY <3>1 DEF ForestInv
    <3>5. req'[r].to = p /\ req'[r].group = g
      BY <2>2
    <3> QED BY <2>4, <2>5, <3>2, <3>3, <3>4, <3>5 DEF ForestInv
  <2> QED BY <2>4, <2>6 DEF ForestInv
<1>5. ASSUME NEW r \in Req, UpdateGroupCommit(r) PROVE ForestInv'
  <2> DEFINE g == req[r].group
             p == req[r].to
  <2>1. /\ At(r, "reparent") /\ UNCHANGED <<reparents, misspelt>> /\ req' = [req EXCEPT ![r] = Idle]
        /\ parent' = IF g \in Groups THEN [parent EXCEPT ![g] = p] ELSE parent
    BY <1>5 DEF UpdateGroupCommit, Done, Goto
  <2>2. /\ g \in Group /\ parent[g] # "unused" /\ p \in Group \cup {None}
        /\ p \in Group => parent[p] # "unused"
    BY <1>0, <2>1 DEF GroupTypes
  <2>3. DOMAIN req' = Req /\ ~At(r, "reparent")' /\ \A q \in Req : q # r => req'[q] = req[q]
    BY <1>0, <2>1 DEF At, Idle
  <2> HIDE DEF g, p
  <2>4. CASE g \notin Groups
    <3>1. parent' = parent
      BY <2>1, <2>4
    <3>2. SameReparents
      BY <2>3 DEF SameReparents, At
    <3> QED BY <1>1, <2>1, <3>1, <3>2
  <2>5. CASE g \in Groups
    <3>1. /\ parent' = [parent EXCEPT ![g] = p] /\ parent'[g] = p
          /\ \A x \in Group : x # g => parent'[x] = parent[x]
      BY <1>0, <2>1, <2>2, <2>5 DEF GroupTypes
    <3>2. GroupTypes'
      <4>1. parent' \in [Group -> Group \cup {None, "unused", "gone"}]
        BY <1>0, <2>2, <3>1 DEF GroupTypes
      <4>2. \A x \in Group : parent[x] # "unused" => parent'[x] # "unused"
        BY <2>2, <3>1, AccessAssumption
      <4>3. \A x \in Group : parent'[x] \in Group => parent[parent'[x]] # "unused"
        BY <1>0, <2>2, <3>1 DEF GroupTypes
      <4>4. \A q \in Req : At(q, "reparent")' => At(q, "reparent") /\ req'[q] = req[q]
        BY <2>3 DEF At
      <4> QED BY <1>0, <2>3, <4>1, <4>2, <4>3, <4>4 DEF GroupTypes
    <3>3. Links' = [Links EXCEPT ![g] = p]
      BY <2>2, <3>1, AccessAssumption DEF Links, LinksOf
    <3>4. /\ Links \in [Group -> Group \cup {None}] /\ Links' \in [Group -> Group \cup {None}]
      BY <1>0, <3>2, LinksType DEF Links, GroupTypes
    <3>5. CASE ~Unchecked
      <4>1. Forest(Links) /\ (p # None => g \notin Above(p, Links)) /\ \A q \in Req : At(q, "reparent") => q = r
        BY <2>1, <3>5 DEF ForestInv, g, p
      <4>2. \A q \in Req : ~At(q, "reparent")'
        BY <2>3, <4>1 DEF At
      <4>3. Forest(Links')
        <5>1. CASE p = None
          <6>1. \A x \in Group : Links'[x] \in {Links[x], None}
            BY <2>2, <3>3, <3>4, <5>1
          <6> QED BY <3>4, <4>1, <6>1, ForestFewer
        <5>2. CASE p # None
          BY <2>2, <3>3, <3>4, <4>1, <5>2, ForestMove
        <5> QED BY <5>1, <5>2
      <4> QED BY <3>2, <4>2, <4>3 DEF ForestInv
    <3>6. Unchecked' = Unchecked
      BY <2>1 DEF Unchecked
    <3> QED BY <3>2, <3>5, <3>6 DEF ForestInv
  <2> QED BY <2>4, <2>5
<1> QED BY <1>0, <1>1, <1>2, <1>3, <1>4, <1>5, OnlyGroupsReparent

\* The groups form a forest, however requests interleave, unless two re-parentings
\* overlapped or one spelt an id in its own way: the cycle check of update_group
\* still holds at its commit.
THEOREM GroupsStayForest == Spec => []GroupsFormForest
<1>1. Init => ForestInv
  <2> SUFFICES ASSUME Init PROVE ForestInv
    OBVIOUS
  <2>1. /\ \A x \in Group : parent[x] \in {"unused", None}
        /\ parent \in [Group -> Group \cup {None, "unused", "gone"}]
        /\ req = [r \in Req |-> Idle]
    BY DEF Init
  <2>2. \A r \in Req : ~At(r, "reparent")
    BY <2>1 DEF At, Idle
  <2>3. GroupTypes
    BY <2>1, <2>2, AccessAssumption DEF GroupTypes
  <2>4. \A x \in Group : Links[x] = None
    BY <2>1 DEF Links, LinksOf
  <2> QED BY <2>2, <2>3, <2>4 DEF ForestInv, Forest
<1>2. ForestInv => GroupsFormForest
  BY CyclicIs DEF ForestInv, GroupsFormForest, Unchecked
<1> QED BY <1>1, <1>2, ForestInvStep, PTL DEF Spec

================================================================================
