--------------------------------- MODULE Hosts ---------------------------------
(* The hosts of the fleet as the server keeps them: enrollment tokens and what  *)
(* they admit, the host rows, the agents' streams with their control messages   *)
(* and heartbeats, the offline sweep, host deletion with its revocation, and    *)
(* the resurvey and rescan tasks that an agent's answer closes.                 *)
(*                                                                              *)
(* The receive loop of a stream, the sweep and the advisory worker run beside   *)
(* the requests; a transaction is one step from its first write to its commit.  *)
EXTENDS Requests, Sequences

CONSTANTS
    Host,      \* host ids, drawn anew by each enrollment
    Token,     \* enrollment tokens
    Interval,  \* heartbeat intervals an operator may configure
    Default,   \* the interval of a new host, a member of Interval
    QueueCap   \* capacity of a control queue (64 in the code)

Kinds == {"survey", "scan"}

ASSUME HostsAssumption ==
    /\ Default \in Interval
    /\ Interval \cap Kinds = {} /\ None \notin Interval
    /\ QueueCap \in Nat \ {0}

VARIABLES
    tokens,    \* enrollment_tokens: "unused", "open", "expired", "redeemed", "gone"
    admitted,  \* the hosts each token admitted (history)
    status,    \* hosts.status, "unused" before the row and "deleted" after it
    seen,      \* hosts.last_seen_at: "never", "fresh" or "stale"
    ival,      \* hosts.heartbeat_interval_s
    crl,       \* RevocationService._revoked (one certificate for each host)
    stream,    \* "down", "loading" (queue registered, interval not loaded) or "up"
    loaded,    \* the interval that a loading stream has read, or None
    ctl,       \* control queue of each host
    agent,     \* interval the agent uses
    asked,     \* answers the agent owes, by kind
    running,   \* running resurvey and rescan tasks, by kind
    matching,  \* hosts queued in the advisory worker
    beat,      \* the status a heartbeat in progress has read, or None
    sweep,     \* the stale hosts the offline sweep has read, or None
    outdated,  \* hosts whose stream was last sent an overtaken interval, or not sent
               \* one it should have been (history)
    missed     \* answers that closed no task although one was waiting (history)

tokenVars == <<tokens, admitted>>
rowVars == <<status, seen, ival>>
streamVars == <<stream, loaded, ctl, agent, outdated>>
taskVars == <<asked, running, matching, missed>>
loopVars == <<beat, sweep>>
hostVars == <<tokens, admitted, status, seen, ival, crl, stream, loaded, ctl, agent,
              asked, running, matching, beat, sweep, outdated, missed>>

HostInit ==
    /\ tokens = [t \in Token |-> "unused"] /\ admitted = [t \in Token |-> {}]
    /\ \E old \in Host : status = [h \in Host |-> IF h = old THEN "offline" ELSE "unused"]
    /\ seen = [h \in Host |-> "never"]
    /\ ival = [h \in Host |-> Default]
    /\ crl = {}
    /\ stream = [h \in Host |-> "down"] /\ loaded = [h \in Host |-> None]
    /\ ctl = [h \in Host |-> <<>>]
    /\ agent = [h \in Host |-> Default]
    /\ asked = [h \in Host |-> [k \in Kinds |-> 0]]
    /\ running = [h \in Host |-> [k \in Kinds |-> 0]]
    /\ matching = {}
    /\ beat = [h \in Host |-> None]
    /\ sweep = None
    /\ outdated = {} /\ missed = [h \in Host |-> [k \in Kinds |-> 0]]

Rows == {h \in Host : status[h] \in {"offline", "healthy"}}

-----------------------------------------------------------------------------
(* Enrollment.                                                                 *)

\* mint, and mint_reenroll_token for an existing host: redeem does not look at
\* the purpose of a token.
IssueToken(t) ==
    /\ Call
    /\ tokens[t] = "unused"
    /\ tokens' = [tokens EXCEPT ![t] = "open"]
    /\ UNCHANGED <<admitted, crl, rowVars, streamVars, taskVars, loopVars>>

TokenExpires(t) ==
    /\ tokens[t] = "open"
    /\ tokens' = [tokens EXCEPT ![t] = "expired"]
    /\ Quiet
    /\ UNCHANGED <<admitted, crl, rowVars, streamVars, taskVars, loopVars>>

\* revoke: the row is read, then deleted, redeemed meanwhile or not.
RevokeTokenRead(r, t) ==
    /\ tokens[t] \in {"open", "expired"}
    /\ Begin(r, [pc |-> "revoke", tok |-> t])
    /\ UNCHANGED hostVars

RevokeTokenCommit(r) ==
    /\ At(r, "revoke")
    /\ tokens' = [tokens EXCEPT ![req[r].tok] = "gone"]
    /\ Done(r)
    /\ UNCHANGED <<admitted, crl, rowVars, streamVars, taskVars, loopVars>>

\* redeem: found, not expired, not redeemed; the certificate is signed before the
\* token is claimed.
RedeemRead(r, t) ==
    /\ tokens[t] = "open"
    /\ Begin(r, [pc |-> "redeem", tok |-> t])
    /\ UNCHANGED hostVars

ClaimAnyRow(t) == tokens[t] # "gone"

\* The UPDATE that claims the token matches an unredeemed row; expiry is judged
\* by the time the request began.
Claim(t) == tokens[t] \in {"open", "expired"}

RedeemCommit(r) ==
    /\ At(r, "redeem")
    /\ LET t == req[r].tok IN
       IF Claim(t)
       THEN \E h \in Host :
              /\ status[h] = "unused"
              /\ tokens' = [tokens EXCEPT ![t] = "redeemed"]
              /\ admitted' = [admitted EXCEPT ![t] = @ \cup {h}]
              /\ status' = [status EXCEPT ![h] = "offline"]
       ELSE UNCHANGED <<tokenVars, status>>
    /\ Done(r)
    /\ UNCHANGED <<seen, ival, crl, streamVars, taskVars, loopVars>>

-----------------------------------------------------------------------------
(* Streams and control messages.                                               *)

\* push_control: refused without a queue or with a full one.
CanPush(h) == stream[h] # "down" /\ Len(ctl[h]) < QueueCap

\* Stream: a certificate on the CRL is refused; the queue is registered before
\* the interval is loaded.
Connect(h) ==
    /\ Call
    /\ status[h] # "unused" /\ h \notin crl /\ stream[h] = "down"
    /\ stream' = [stream EXCEPT ![h] = "loading"]
    /\ UNCHANGED <<crl, loaded, ctl, agent, outdated, tokenVars, rowVars, taskVars, loopVars>>

\* _load_heartbeat_interval reads the row.  Without a row, and when the read fails,
\* it returns None and no configuration is sent.
LoadInterval(h) ==
    /\ stream[h] = "loading" /\ loaded[h] = None
    /\ \/ /\ h \in Rows
          /\ loaded' = [loaded EXCEPT ![h] = ival[h]]
          /\ UNCHANGED <<stream, outdated>>
       \/ /\ stream' = [stream EXCEPT ![h] = "up"]
          /\ outdated' = outdated \cup ({h} \cap Rows)
          /\ UNCHANGED loaded
    /\ Quiet
    /\ UNCHANGED <<crl, ctl, agent, tokenVars, rowVars, taskVars, loopVars>>

\* The configuration goes into the queue behind whatever a request has put there;
\* the row may have another by now.  (put_nowait on a full queue ends the stream.)
PushInitial(h) ==
    /\ stream[h] = "loading" /\ loaded[h] # None /\ Len(ctl[h]) < QueueCap
    /\ ctl' = [ctl EXCEPT ![h] = Append(@, loaded[h])]
    /\ stream' = [stream EXCEPT ![h] = "up"]
    /\ loaded' = [loaded EXCEPT ![h] = None]
    /\ outdated' = IF loaded[h] = ival[h] THEN outdated \ {h} ELSE outdated \cup {h}
    /\ Quiet
    /\ UNCHANGED <<crl, agent, tokenVars, rowVars, taskVars, loopVars>>

\* The agent receives the next control message.
ReceiveControl(h) ==
    /\ stream[h] = "up" /\ ctl[h] # <<>>
    /\ ctl' = [ctl EXCEPT ![h] = Tail(@)]
    /\ LET m == Head(ctl[h]) IN
       IF m \in Kinds
       THEN asked' = [asked EXCEPT ![h][m] = @ + 1] /\ UNCHANGED agent
       ELSE agent' = [agent EXCEPT ![h] = m] /\ UNCHANGED asked
    /\ Quiet
    /\ UNCHANGED <<crl, stream, loaded, outdated, running, matching, missed, tokenVars,
                   rowVars, loopVars>>

\* The requests of a kind that are in the queue or at the agent.
Outstanding(h, k) ==
    asked[h][k] + Cardinality({i \in DOMAIN ctl[h] : ctl[h][i] = k})

\* The stream ends, for whatever reason, and takes what was outstanding with it; a
\* heartbeat in progress is cancelled.
Drop(h) ==
    /\ stream' = [stream EXCEPT ![h] = "down"]
    /\ loaded' = [loaded EXCEPT ![h] = None]
    /\ ctl' = [ctl EXCEPT ![h] = <<>>]
    /\ asked' = [asked EXCEPT ![h] = [k \in Kinds |-> 0]]
    /\ missed' = [missed EXCEPT ![h] = [k \in Kinds |-> @[k] + Outstanding(h, k)]]
    /\ beat' = [beat EXCEPT ![h] = None]

Disconnect(h) ==
    /\ Call
    /\ stream[h] # "down"
    /\ Drop(h)
    /\ UNCHANGED <<crl, agent, outdated, running, matching, sweep, tokenVars, rowVars>>

PatchHostSilent(r, h, i) ==
    /\ Call
    /\ h \in Rows
    /\ ival' = [ival EXCEPT ![h] = i]
    /\ UNCHANGED <<crl, status, seen, tokenVars, streamVars, taskVars, loopVars>>

\* patch_host commits the interval and waits for the refreshed row ...
PatchHost(r, h, i) ==
    /\ h \in Rows
    /\ Begin(r, [pc |-> "push", host |-> h, ival |-> i])
    /\ ival' = [ival EXCEPT ![h] = i]
    /\ UNCHANGED <<crl, status, seen, tokenVars, streamVars, taskVars, loopVars>>

\* ... then it pushes the value it was given, unless the refresh failed.  A push
\* that is refused is ignored; without a stream the next one will load the row.
PushInterval(r) ==
    /\ At(r, "push")
    /\ LET h == req[r].host
           i == req[r].ival
       IN \/ /\ CanPush(h)
             /\ ctl' = [ctl EXCEPT ![h] = Append(@, i)]
             /\ outdated' = IF i = ival[h] THEN outdated \ {h} ELSE outdated \cup {h}
          \/ /\ outdated' = IF stream[h] = "down" THEN outdated ELSE outdated \cup {h}
             /\ UNCHANGED ctl
    /\ Done(r)
    /\ UNCHANGED <<crl, stream, loaded, agent, tokenVars, rowVars, taskVars, loopVars>>

-----------------------------------------------------------------------------
(* Heartbeats and the offline sweep.                                           *)

HeartbeatRead(h) ==
    /\ Call
    /\ stream[h] = "up" /\ beat[h] = None
    /\ beat' = [beat EXCEPT ![h] = IF h \in Rows THEN status[h] ELSE "none"]
    /\ UNCHANGED <<crl, sweep, tokenVars, rowVars, streamVars, taskVars>>

\* last_seen_at is written; status only if it was not "healthy" when it was read.
\* A row that is gone fails the UPDATE.
HeartbeatCommit(h) ==
    /\ beat[h] # None
    /\ IF beat[h] # "none" /\ h \in Rows
       THEN /\ seen' = [seen EXCEPT ![h] = "fresh"]
            /\ status' = IF beat[h] = "healthy" THEN status
                         ELSE [status EXCEPT ![h] = "healthy"]
       ELSE UNCHANGED <<seen, status>>
    /\ beat' = [beat EXCEPT ![h] = None]
    /\ Quiet
    /\ UNCHANGED <<crl, ival, sweep, tokenVars, streamVars, taskVars>>

HeartbeatAges(h) ==
    /\ seen[h] = "fresh" /\ seen' = [seen EXCEPT ![h] = "stale"]
    /\ Quiet
    /\ UNCHANGED <<crl, status, ival, tokenVars, streamVars, taskVars, loopVars>>

\* scan_offline_transitions: one UPDATE fails if its row is gone, and with it the
\* whole sweep.
OfflineSweepRead ==
    /\ Call
    /\ sweep = None
    /\ sweep' = {h \in Rows : status[h] # "offline" /\ seen[h] = "stale"}
    /\ UNCHANGED <<crl, beat, tokenVars, rowVars, streamVars, taskVars>>

OfflineSweepCommit ==
    /\ sweep # None
    /\ status' = IF sweep \subseteq Rows
                 THEN [h \in Host |-> IF h \in sweep THEN "offline" ELSE status[h]]
                 ELSE status
    /\ sweep' = None
    /\ Quiet
    /\ UNCHANGED <<crl, seen, ival, beat, tokenVars, streamVars, taskVars>>

-----------------------------------------------------------------------------
(* Deletion.                                                                   *)

\* prune_stale_hosts: the rows that were never seen when they were read.
PruneRead(r) ==
    /\ Begin(r, [pc |-> "prune", hosts |-> {h \in Rows : seen[h] = "never"}])
    /\ UNCHANGED hostVars

PruneCommit(r) ==
    /\ At(r, "prune")
    /\ status' = [h \in Host |-> IF h \in req[r].hosts THEN "deleted" ELSE status[h]]
    /\ Done(r)
    /\ UNCHANGED <<seen, ival, crl, tokenVars, streamVars, taskVars, loopVars>>

DeleteHostRead(r, h) ==
    /\ h \in Rows
    /\ Begin(r, [pc |-> "delete", host |-> h])
    /\ UNCHANGED hostVars

\* delete_host: RevocationService.revoke and the deletion in one transaction, the
\* CRL in memory and the stream's termination before it commits.  A row that is
\* gone fails the UPDATE of its status.
DeleteHostCommit(r) ==
    /\ At(r, "delete")
    /\ LET h == req[r].host IN
       IF h \in Rows
       THEN /\ status' = [status EXCEPT ![h] = "deleted"]
            /\ crl' = crl \cup {h}
            /\ Drop(h)
       ELSE UNCHANGED <<status, crl, stream, loaded, ctl, asked, missed, beat>>
    /\ Done(r)
    /\ UNCHANGED <<seen, ival, agent, outdated, running, matching, sweep, tokenVars>>

-----------------------------------------------------------------------------
(* Resurvey and rescan.                                                        *)

\* resurvey_host, rescan_host: the request is pushed to the agent first.
AskAgent(r, h, k) ==
    /\ h \in Rows /\ CanPush(h)
    /\ Begin(r, [pc |-> "task", host |-> h, kind |-> k])
    /\ ctl' = [ctl EXCEPT ![h] = Append(@, k)]
    /\ UNCHANGED <<crl, stream, loaded, agent, outdated, tokenVars, rowVars, taskVars,
                   loopVars>>

\* Then the task and its run are committed, as running.
TaskCommit(r) ==
    /\ At(r, "task")
    /\ running' = [running EXCEPT ![req[r].host][req[r].kind] = @ + 1]
    /\ Done(r)
    /\ UNCHANGED <<crl, asked, matching, missed, tokenVars, rowVars, streamVars, loopVars>>

\* A task of the kind is running or about to be committed.
Waiting(h, k) ==
    \/ running[h][k] > 0
    \/ \E r \in Req : At(r, "task") /\ req[r].host = h /\ req[r].kind = k

Miss(h, k) == missed' = [missed EXCEPT ![h][k] = IF Waiting(h, k) THEN @ + 1 ELSE @]

SurveyClosesNone(h) ==
    /\ stream[h] = "up" /\ asked[h]["survey"] > 0
    /\ asked' = [asked EXCEPT ![h]["survey"] = @ - 1]
    /\ Quiet
    /\ UNCHANGED <<crl, running, matching, missed, tokenVars, rowVars, streamVars, loopVars>>

\* The branch host_survey of the receive loop closes the latest running resurvey.
\* It closes none that is not committed yet or has five later runs of the host (of
\* any kind of task), and none when its transaction fails, which is only logged.
SurveyArrives(h) ==
    /\ stream[h] = "up" /\ asked[h]["survey"] > 0
    /\ asked' = [asked EXCEPT ![h]["survey"] = @ - 1]
    /\ \/ /\ running[h]["survey"] > 0
          /\ running' = [running EXCEPT ![h]["survey"] = @ - 1]
          /\ UNCHANGED missed
       \/ Miss(h, "survey") /\ UNCHANGED running
    /\ Quiet
    /\ UNCHANGED <<crl, matching, tokenVars, rowVars, streamVars, loopVars>>

\* The branch package_inventory replaces the packages and queues a match.  A failure
\* of the handler is only logged, and a full match queue, which all hosts share,
\* refuses the match.
InventoryArrives(h) ==
    /\ stream[h] = "up" /\ asked[h]["scan"] > 0
    /\ asked' = [asked EXCEPT ![h]["scan"] = @ - 1]
    /\ \/ matching' = matching \cup {h} /\ UNCHANGED missed
       \/ Miss(h, "scan") /\ UNCHANGED matching
    /\ Quiet
    /\ UNCHANGED <<crl, running, tokenVars, rowVars, streamVars, loopVars>>

\* _close_rescan_tasks, at the end of the match: every running task of the host,
\* but none that is not committed yet.  Its failure is only logged.
MatchDone(h) ==
    /\ h \in matching
    /\ matching' = matching \ {h}
    /\ \/ /\ running' = [running EXCEPT ![h] = [k \in Kinds |-> 0]]
          /\ missed' = [missed EXCEPT ![h]["scan"] =
                           IF \E r \in Req : /\ At(r, "task") /\ req[r].host = h
                                             /\ req[r].kind = "scan"
                           THEN 1 ELSE 0]
       \/ Miss(h, "scan") /\ UNCHANGED running
    /\ Quiet
    /\ UNCHANGED <<crl, asked, tokenVars, rowVars, streamVars, loopVars>>

-----------------------------------------------------------------------------
HostStep ==
    \/ \E t \in Token : IssueToken(t) \/ TokenExpires(t)
    \/ \E r \in Req, t \in Token : RevokeTokenRead(r, t) \/ RedeemRead(r, t)
    \/ \E r \in Req :
         \/ RevokeTokenCommit(r) \/ RedeemCommit(r) \/ TaskCommit(r) \/ PushInterval(r)
         \/ PruneRead(r) \/ PruneCommit(r)
    \/ \E r \in Req, h \in Host :
         \/ DeleteHostRead(r, h)
         \/ \E k \in Kinds : AskAgent(r, h, k)
         \/ \E i \in Interval : PatchHost(r, h, i)
    \/ \E h \in Host :
         \/ Connect(h) \/ LoadInterval(h) \/ PushInitial(h) \/ ReceiveControl(h)
         \/ Disconnect(h) \/ HeartbeatRead(h) \/ HeartbeatCommit(h) \/ HeartbeatAges(h)
         \/ SurveyArrives(h) \/ InventoryArrives(h) \/ MatchDone(h)
    \/ OfflineSweepRead \/ OfflineSweepCommit

-----------------------------------------------------------------------------
(* Properties.                                                                 *)

\* One enrollment token admits at most one host, however redemptions, expiry and
\* revocations of the token overlap (EnrollmentService.redeem claims the token
\* by a conditional UPDATE).
TokenAdmitsOneHost ==
    \A t \in Token : Cardinality(admitted[t]) <= 1

\* An agent that has received every control message of its stream beats at the
\* configured interval, unless patch_host has one still to push, or the last one for
\* the stream was overtaken by a later PATCH between its read or commit and the
\* queue, was refused by a full queue, or was never sent because a read failed.
IntervalReachesAgent ==
    \A h \in Rows \ outdated :
        /\ stream[h] = "up" /\ ctl[h] = <<>>
        /\ \A r \in Req : At(r, "push") => req[r].host # h
        => agent[h] = ival[h]

\* No more resurvey tasks of a host are running than there are surveys outstanding,
\* or that came and closed none (too early, behind five later runs, in a failed
\* transaction, lost with the stream): one lost answer strands one task.  A rescan
\* task is running only with an inventory or a match outstanding, or after one that
\* was lost since the last match closed them all (resurvey_host and rescan_host push
\* before they commit; _recv_loop and _close_rescan_tasks swallow their failures).
RunningTasksAwaitAnAnswer ==
    \A h \in Host :
        /\ running[h]["survey"] <= Outstanding(h, "survey") + missed[h]["survey"]
        /\ running[h]["scan"] > 0 =>
             h \in matching \/ Outstanding(h, "scan") > 0 \/ missed[h]["scan"] > 0

================================================================================
