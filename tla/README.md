# A verification project for hl_helper

hl_helper manages the hosts of a home lab: a FastAPI/gRPC **server**
(`src/server/app`), a Go **agent** on every host (`src/agent`) and a web UI
(`src/webui`). A user dispatches a task; the server turns it into signed command
rows, delivers them over a bidirectional gRPC stream, the agent executes them and
sends a result for each from a durable outbox, and the server settles the task.

This directory models that path, and the accounts, the fleet, the keys, the audit chain, the
releases, the secrets, the advisories and the risk scores around it, in TLA+, checks them
with TLC on small instances and proves every property that does not rest on fairness with
TLAPS for every value of the constants (section 5). File and line references are to `src/`.
The correspondence of every definition to its lines is in `PROJECT.json` ("map").

## 1. Inventory

| Component | State it keeps | Operations | Hard behaviour | What makes it correct |
|---|---|---|---|---|
| Command delivery: `grpc/dispatcher.py`, `grpc/agent_bridge.py`, `grpc/command_bridge.py` | per host: queue, un-acked commands, connected flag, terminate event; per stream: three asyncio tasks, a control queue; the bridge's subscription | enqueue, register, unregister, mark_in_flight, ack, Stream, push_control, terminate, bridge replay and forwarding | cancellation at every await, abandoned tasks, reconnects, restarts, a lossy subscription | no command vanishes; a reconnect resends what is un-acked; nothing else duplicates; a revoked host is cut off |
| Agent transport: `internal/transport/client.go` | connection, running commands, sequence counters | runOnce, executeAndQueueResult, drain, reconnect | goroutines that outlive their stream | results are sent in order, once the stream is back |
| Agent outbox: `internal/outbox` | BoltDB buckets: entries, acked copies, chain tip, last id | Append, Peek, Ack, Verify, init, cap enforcement | crashes between transactions, failed transactions, evictions during a drain | no result leaves unsent except by the caps; the file reopens; Verify detects exactly the broken histories |
| Task dispatch and lifecycle: `dispatcher/*`, `grpc/result_handler.py`, `api/v1/task_actions.py` | Task, TaskRun, Command, Result rows; idempotency cache | dispatch, enqueue, handle, sweep, cancel | several database sessions on one task; rollbacks | one command per idempotency key; a final status is justified and stays; a task settles |
| Approvals: `rbac/approvals.py`, `rbac/approval_sweeper.py`, gate of `dispatch` | Approval rows | request, decide, sweep, gate | decisions on stale rows; two sessions in one call | an approval has the people its policy asks for; a gated dispatch used somebody else's decision |
| Result envelope chain: `grpc/result_handler.py`, `crypto/result_envelope.py`, `client.go` | agent: sequence and previous hash, in memory per stream and in files; server: last accepted sequence | sign, save, verify, accept or reject | old goroutines and new counters, non-atomic saves | a sequence is accepted at most once |
| Event bus, after-commit hooks: `events/*` | subscriptions, ring buffers, channel LRU, pending callbacks | publish, subscribe, replay, run after commit | drop-oldest, eviction, rollback | events only for committed rows; a gap is detectable |
| Idempotent HTTP: `idempotency.py` | stored responses, locks | run once, replay, wait | owner fails while others wait | one execution per key |
| Hosts and enrollment: `enrollment/*`, `api/v1/hosts.py`, the control, heartbeat, survey and inventory branches of `grpc/agent_bridge.py`, `events/host_status_watcher.py` | tokens, host rows, control queues, survey and scan tasks | issue, redeem, revoke a token; connect, patch, heartbeat, sweep, prune, delete, resurvey, rescan | reads that are stale at the commit; a message pushed before its task is committed | a token admits one host; the agent uses the configured interval; a running task has an answer under way |
| Access: `api/v1/groups.py`, `roles.py`, `bindings.py`, `rbac/engine.py`, `dispatcher/targets.py` | groups, members, roles, bindings | CRUD, target selection, authorization of a dispatch | rows that name deleted ones; overlapping re-parentings | groups form a forest |
| Revocation, rotation: `revocation/service.py`, `grpc/cert_rotate_policy.py`, `grpc/reenroll_*`, agent `internal/rotator` | CRL in memory and in rows, rotation state file, nonces, the limiter's window | revoke, load, rotate, recover | memory and rows disagree; retries against a limiter; a handshake and a handler that fail | a revoked certificate is refused; an agent whose certificate expired gets a new one (it does not: section 3) |
| Agent self-update: `internal/updater`, `cmd/hl-agent/main.go` | binary, `.prev`, pending marker, boot counter | apply, boot, confirm, rollback | crash between marker and rename; crash loops | an unconfirmed binary that crashes is replaced |
| Schedules: `schedule/engine.py` | last_run_at | tick, fire | commit before firing | a due slot fires at most once |
| Sessions, lockout, OIDC: `auth/sessions.py`, `auth/lockout.py`, `auth/oidc/*`, `api/v1/auth.py`, `oidc.py`, `bootstrap.py`, `users.py` | session rows and their cache, lockout records, OIDC states, account links | logins of four kinds, lookup, logout, revocation by event, JIT provisioning, linking | a cache filled after an await; read-modify-write counters; insert races | a revoked session leaves the cache; the lock engages; a subject is one account |
| Second factors: `auth/mfa/*`, `api/v1/mfa.py` | TOTP row, recovery codes, credentials, challenges | enroll, verify, consume, regenerate, register, assert | a proof judged in one step and spent in a later one | a recovery code or a challenge is accepted once, TOTP once in a time step |
| Keys and CA: `crypto/ca.py`, `crypto/signing.py`, start in `lifespan.py` | key and certificate files | bootstrap, load, rotate, sign | a crash between two files | what was issued stays trusted |
| Audit chain: `audit/*`, `api/v1/audit.py` | hash-linked rows, checkpoints | append, checkpoint, retain, verify | duplicate sequence numbers, rollback of the caller | an append-only log that verifies |
| Agent releases: `api/v1/agent_releases.py`, `install.py` | rows and binaries | upload, yank, download, install | binary before row | a published release is served with its digest |
| Secrets: `secrets/*`, `api/v1/secrets.py` | backends, cache, handles, sealed state | get, put, rotate, migrate, reveal, poll | late answers of a backend | an acknowledged value is what is read |
| Advisories: `advisory/*`, `posture/exposure/*` | catalog, feed status, host advisories, two bounded queues | sync, match, suppress, scan | deduplication, full queues, failing steps | nothing stays pending for ever |
| Posture and risk: `posture/*`, `posture/risk/*` | findings, overrides, per-host lock and debounce, risk rows | inspect, suppress, recompute, sweep | dropped requests, five kinds of caller | a row never goes back and catches up |
| Executors, providers, TUI, web UI, plugins | none of their own | | operating system calls | |

How they interact. `dispatch` commits rows and publishes `dispatch.commands`
on the bus; the **bridge** task, which also reads all QUEUED rows at startup,
enqueues each command in the gRPC dispatcher; the host's **Stream** coroutine
takes it and sends it; the **agent** executes it and appends the result to its
outbox; the drain goroutine sends it; `_recv_loop` of the stream hands it to
**ResultHandler**, which commits a Result and the task's status, and acks the
command. The **sweeper** expires commands nobody answered, `cancel_task`
cancels them, **approval** rows gate high-risk dispatches, **revocation** ends the
stream. All server parts are coroutines of one process, so interleavings happen
at awaits; database sessions interleave at queries.

## 2. Modules

One module per component, cut where the code suspends: an await of a coroutine, a
query of a session, a transaction of the outbox. Whatever happens between two such
points is one action, with its error paths as actions of their own.

**CommandDelivery** (grpc/dispatcher.py, agent_bridge.py, command_bridge.py, the receiving
half of client.go). Hosts share no delivery state, so the module describes one `_HostState`.
`queue`, `unacked`, `connected`, `term` are its fields; `phase` is the await where Stream is
suspended (loading the heartbeat interval, in asyncio.wait, in yield); `pull`, `ctrlDone`,
`termDone`, `recv` are the tasks it waits for; `orphans` counts getters that a cancelled
Stream left on the queue; `bus`, `bridge`, `scan` are the subscription and the bridge.
`Register` is the drain-and-refill of `CommandDispatcher.register`; `ResumeTerm`,
`ResumeRecvDone`, `ResumeControl`, `ResumeCommand` are the four ways out of asyncio.wait,
with the put-back of a command already pulled; `CancelledAtWait`, `CancelledAtYield`,
`LoadAborted` the points where the RPC can be cancelled; `ServerRestart`, `AgentCrash`,
`LinkBreak`, `Revoke`, `BridgeReplayFails`, `BridgeForwardFails`, `RecvFails` the failures.
An executed command gives a result or, when signing, encoding or the append to the outbox
fails (client.go:597-614), none (`AgentFinishFails`): the command stays unanswered, though
the link is up. Ghost variables (`stranded`, `swallowed`, `silent`, `acked`, `sentHere`,
`execs`) record what the code forgets.

**Outbox** (outbox.go, outbox_chain.go, the drain of client.go). Buckets are
sets of records, a ciphertext is the number of its append, the chain tip is the
sequence of what was hashed (so equal hashes mean equal histories). Crashes and
failed transactions can come between any two transactions, `late` are the acks
of drains whose stream is gone.

**TaskLifecycle** (dispatcher.py, queue.py, sweeper.py, result_handler.py,
task_actions.py). Committed rows, and for each session what it has read, flushed
and will write. The database is the default, SQLite: a flush takes the write lock
until the end of the transaction (`Lock`), an assignment is flushed by the next
query (`Autoflush`). Postgres is not modelled: the upsert in
`dispatcher/sequence.py` has `SET next_seq = next_seq + 1`, which that database
rejects as ambiguous, so this path has not run there.

**ApprovalGate** (approvals.py, approval_sweeper.py, api/v1/approvals.py, step 4
of dispatch). `decide` and `sweep` are split into read and commit; `db` says
whether the installation runs on SQLite, where a dispatch holds the write lock
while it asks for an approval, or on Postgres. `lifespan.py` does not start the
ApprovalSweeper; it is modelled because docs/admin/operations/ha-topology.md lists it as a
background job and its contract is about concurrency with `decide`.

**CertRecovery** (rotator.go, recovery.go, reenroll.go, reenroll_servicer.py,
reenroll_state.py). `cert` is the certificate in the keystore, `pc` the call that
`CheckAndRecover` makes, `nonce` and `used` the server's nonce cache and limiter.
`HandshakeSucceeds` is the verification of the listener's certificate, computed from what the
listener presents and what the agent trusts; `CompleteRaises` is the handler's
end where it unpacks the result of `issue_host_cert`. What lies behind is reached by no
behaviour and left out: the rows and the commit of `Complete`, and the keystore's StageTLS,
VerifyStagedTLS and CommitTLS. The rotator only writes `phase`, because
`Client.SendCertRotate` (client.go:150) sends nothing and every rotation times out. Operator
revocation is not in this module.

**Requests** is what the modules of the REST API share: a request is a coroutine in a
slot, a step is what runs between two of its awaits, and a budget bounds how many begin.

**Sessions** (sessions.py, lockout.py, auth.py, oidc.py, client.py, claims.py). `owner`,
`revoked`, `over` are the session rows, `cache` the TTLCache; `Lookup` reads, `Touch`
commits last_used and fills the cache, so that a `RevokeEvict` or `SweepEvict` may come in
between (`raced`). `RecordFailureRead`/`RecordFailureCommit` are the two halves of the
lockout's read-modify-write, with SQLAlchemy's rule that an UPDATE writes the changed
columns. `JitRead`/`JitCommit` are jit_provision with its IntegrityError branch. Deadlines
are events that may happen at any moment. **SecondFactor** (totp.py, recovery.py,
webauthn.py, mfa.py) splits each verification into judging and commit. A proof is the row of
a recovery code, the stored challenge, or for TOTP the step a code arrives in and
the step it is the code of: `RightCodes` are the codes of three steps, and
`last_used_step` holds the step of arrival. A TOTP proof counts as used up when any
code was accepted in its step of arrival. **Accounts** composes the two.

**Hosts** (enrollment, hosts.py, the other branches of agent_bridge.py, the offline sweep)
and **Access** (groups, roles, bindings, targets, the RBAC filter of dispatch), which
extends it: `Connect`, `LoadInterval`, `PushInitial`, `ReceiveControl` are the set-up of a
stream's control queue; `AskAgent` and `TaskCommit` the two halves of resurvey and rescan;
`SurveyArrives`, `InventoryArrives`, `MatchDone` what closes a task, each with the ways in
which it closes none: a task not yet committed, five later runs (`.limit(5)`), a full match
queue, a failure that is only logged. `PatchHost` commits an interval and `PushInterval`
pushes it, with another PATCH's steps between them; `LoadInterval` may fail, and then
nothing is pushed. `Spelling` is how a request writes a group id, which the cycle check
compares as a string. Ghosts `outdated`, `missed`, `reparents`, `misspelt` record what the
properties except.

**Keys** (ca.py, signing.py, the start of lifespan.py): files are written one by one and
hold the generation of a key; `CrashKeys` may come between or inside two writes.
**Audit** (sql_chain.py, chain.py, retention.py): transactions that read the head, insert,
collide, roll back and retry, on SQLite or Postgres; a hash is the content it covers.
**AuditLog** is the abstract specification: a log grows by entries that extend it and loses
only expired ones; `Audit!LogImplemented` is the refinement. **Releases** and **Secrets**
have their requests split at the file system, the database and the backend. **Platform**
puts the four into one process, so that one crash hits all of them.

**Catalog** (feeds, store, the sync loop), **Advisories** (inventory, matcher, match loop,
exposure), **RiskScore** (the four scorers, the blend, the hysteresis, in whole numbers;
the exponential is a table, constant from `SaturateAt` on) and **Risk** (findings,
inspection, recomputer, sweep).
The textual version orders of matcher.py are orders of numbers; `rev` is a ghost that
counts the changes of a host's tables. Every failure that a recompute swallows is a parameter of
its steps (findings not read, catalog, inventory or release not read, a scorer that raises); the
ghost field `unhashed` of a row says what it was computed from beside the inputs that
`_hash_inputs` covers, or that a failure was swallowed.

**MC** modules add the symmetry sets and the values that a .cfg cannot express.
The **_proofs** modules hold the theorems of section 5: CommandPath_proofs (ApprovalGate
and CommandDelivery, which is why the names of the first begin with Gate), Outbox_proofs,
TaskLifecycle_proofs, Accounts_proofs (Sessions and SecondFactor),
Access_proofs (Hosts within Access), Platform_proofs (Keys, Audit with AuditLog, Releases,
Secrets) and Risk_proofs (Risk with Catalog, Advisories and RiskScore).

## 3. Runs

| Run | Checks | Shows |
|---|---|---|
| delivery | TypeOK, NothingVanishes | with two commands, a one-event subscription, one pushed control message and one failure of any kind, every open row is accounted for |
| delivery_live | ResumeCoversUnacked, DuplicatesNeedReconnect, Delivered, TerminateEndsStream | one command, two failures, four streams |
| outbox | NoResultLeavesUnsent, FirstSendsInOrder, VerifyIffContiguous, ReopensUnlessAckFailed, EventuallySent | three results of two sizes, caps of two entries and three bytes, a broken stream, a crash, one failed append and one failed ack |
| tasks | AnswerNamesTask, OneCommandPerKey, FinalStatusJustified | two dispatch calls, two hosts, handlers, sweeper, cancel |
| tasks_live | TaskSettles | a task settles although agents stay silent and sweeps fail |
| approval | ApprovalMeetsPolicy, GatedByAnother | one row, every policy, two overlapping decisions, the sweeper, two gated calls, two kinds, both databases |
| accounts | RevokedCachedOnlyByOverlap, GuessesBounded, SubjectIsOneAccount, SpentProofRefused, OneCodeSet | five password or OIDC requests, or six about second factors, two at a time, with every deadline at any moment |
| fleet | TokenAdmitsOneHost, IntervalReachesAgent, RunningTasksAwaitAnAnswer, GroupsFormForest | three hosts, three groups, four requests, connects, heartbeats or sweeps, two requests at a time |
| platform | KeysStayTrusted, AuditVerifies, EntryKeepsItsChange, PublishedIsServed, AcknowledgedIsRead, LogImplemented | four workloads over one process with crashes and stops; two writers, uploads and broker requests overlap |
| risk | LevelNearScore, RowNeverGoesBack, RiskCatchesUp, WorkIsServed | three workloads: feeds, two hosts at a match queue of one place, and all who ask for a recompute, with one failure of any step, reported or swallowed |

`TypeOK` of Outbox and TaskLifecycle and `GateTypeOK` of ApprovalGate state the types that the
comments of their variables give; no run spends a property on them. Those of
TaskLifecycle and ApprovalGate are proved, and of Outbox's the part that matters, the caps.

Two runs are expected to find a violation (`PROJECT.json`, "findings"):

| Run | Statement | Counterexample |
|---|---|---|
| delivery_lost | recovery runbook: "No data loss" | a cancelled Stream leaves its pull task on the queue; it takes the next command |
| certs | design/enrollment.md: re-enrollment is "Automatic via signing-key recovery", "No token required" (`Recovers`) | the certificate expires; every dial of the ReEnroll listener fails, as it presents the leaf alone (lifespan.py:675) and the agent trusts the root alone (reenroll_grpc.go:23-27) |

With `Presented = {"leaf", "intermediate"}` the second run still fails, one step later: the nonce
is consumed and `Complete` raises, since reenroll_servicer.py:137 unpacks three values from
`issue_host_cert`, which returns one PEM (ca.py:171).

### Bounds

Every bound is a constant of its module. Counters of failures (`MaxFaults`, `MaxBreaks`,
`MaxCrashes`, …) end a behaviour's disturbances; they are large enough for a failure to hit
every point of the normal course and, in `delivery_live`, for a second one to hit the
recovery from the first. `BusCap = CtrlCap = 1` makes overflow happen with the second
message; the code's values (1024 and 64) only delay it. Two commands are needed for one to
overtake or be taken instead of another; two hosts and two calls for one to settle, or hold
the key of, the other; three users because a two_person approval takes two besides the
requester; three results because with caps of two the third evicts. `accounts` needs five
logins for the fifth wrong password that `GuessesBounded` excludes (limit of two, two at a
time); `fleet` three hosts so that a removed one and a new one meet a third, and three
groups for a cycle that no single link shows; `platform` three sequence numbers for a
collision behind a checkpoint; `risk` a match queue of one place so that the second host
finds it full. Components that share no state that their properties tell apart are composed
by a `workload` that a behaviour picks at its start, each with its own budget. The map from
bounds to code constants is in the CONSTANTS comments. Symmetry is used in safety runs only,
over values the modules only compare. Deadlock is not checked: when the bounds are used up,
and in reality when there is nothing to do, the system rests.

### Fairness

- delivery: the steps of the server's coroutines and tasks (the event loop runs
  what is ready), the connection attempts of the agent (`Client.Run` retries for
  ever), and the agent's receive, execute and send loops. Users, control pushes,
  failures, re-enrollment and restarts are not fair.
- outbox: the service manager restarts the agent, runOnce reconnects, the drain
  ticker fires. Appends, failures and crashes are not fair.
- certs: the supervisor's ticker fires and its calls return (a dial has 15 seconds), a
  rotation ends, the service manager restarts the agent, `Client.Run` redials, time
  passes for the limiter. Faults, expiry and the operator are not fair.
- risk: the event loop runs some ready task (weak fairness of all of them together, not
  of each: asyncio serves ready tasks in turn, so this is less than the code gives), and
  the debounce interval ends. Feeds' contents, failures and events are not fair.
- tasks: sessions run to their end, deadlines pass, the sweeper ticks. Agents need
  not answer: `TaskSettles` rests on the sweeper alone.

All are weak fairness of actions that, once enabled, stay enabled until taken or
until a failure disables them.

## 4. Divergences met without a run of their own

Seen while modelling and confirmed with TLC on earlier versions of the properties,
or by reading.

Commands, tasks and certificates:

- `agent_bridge.py:235` says "5. On disconnect: unregister host." The try/finally that
  unregisters starts after the await of `_load_heartbeat_interval` (271): an RPC cancelled
  there leaves the host connected, and later streams are refused with ALREADY_EXISTS
  until the server restarts (`Leaked`).
- docs/developer/architecture/agent.md:177 says a result "is resent on reconnect" if the
  stream breaks. `client.go:421` acks the entry as soon as Send returns, which only means
  that the message was buffered.
- `result_handler.py:267` says "Multi-host: leave RUNNING until all TaskRuns have results".
  dispatch creates one TaskRun for all hosts, so the first result settles the task.
- `dispatcher.py:245` returns "dispatched host_ids". With an idempotency key `queue.py:72`
  returns the first host's command for every host: the others are reported and get none.
- `agent_bridge.py:317`: a command put back after a control message goes to the
  tail, while `grpc/dispatcher.py:63` promises replayed commands "are resent before
  new commands".
- `client.go:451` executes every command it receives, also a replayed one;
  docs/developer/secure-dev/threat-model.md:43 says duplicates are rejected.
- `client.go:597-614`: a result that cannot be signed, encoded or appended to the outbox is
  logged and dropped. The command stays open with the link up, until the sweeper expires it
  or a reconnect sends it again (`silent`).
- `outbox.go:188`: reopening a drained outbox restarts ids at 1 with the old chain
  tip, so Verify fails on an untouched file (`contiguous` becomes false).
- `outbox.go:181`: a failed Ack followed by successful ones makes the next Open
  return ErrChainTruncated although nothing is missing.
- `sweeper.py:64-73`: the check for a Result and the flush of EXPIRED are two
  queries; a Result committed in between belongs to an EXPIRED command.
- `approvals.py:70`: two overlapping `decide` calls can replace one final state by
  another, which `models/approval.py:51` calls terminal.
- `approval_sweeper.py:48`: the UPDATE by id can expire a row approved meanwhile,
  against "Safe to run concurrently with decide()" (line 5).
- `dispatcher.py:316` says "Pending approvals returned to caller." On SQLite the
  dispatch session has flushed its Task and holds the write lock while the approval
  is inserted in a session of its own (line 365): the insert waits for busy_timeout
  and fails, and so does the dispatch (`call[c].pc = "failed"`).
- `recovery.go:32` says HALTED is set "if re-enroll permanently fails".
  `isPermanentReEnrollFailure` looks for `PERMISSION_DENIED` and `NOT_FOUND`, while gRPC's
  Go errors spell them `PermissionDenied` and `NotFound`: such an agent retries for ever.
- `lifespan.py:675`: the ReEnroll listener presents its leaf alone and the agent's pool
  (reenroll_grpc.go:23-27) holds the root alone, so that every handshake fails (run certs).
- `reenroll_servicer.py:137` and `cert_rotate_policy.py:146` unpack three values from
  `issue_host_cert`, which returns one PEM (ca.py:171): `Complete` raises after it has
  consumed the nonce and before it commits anything.
- `keystore/file.go:293-297` verifies a staged chain for the default usage, ServerAuth, while
  ca.py:148 issues for CLIENT_AUTH: VerifyStagedTLS would refuse the new certificate too.
- `result_handler.py`: the envelope rebuilt by the server leaves out the
  timestamps that the agent hashed, so a previous-hash comparison never matches.

Accounts:

- `sessions.py:264`: a lookup that overlaps a revoke caches the revoked session again.
- `deps.py`: sessions of a deleted or disabled user stay valid, and the fall-back lookup of
  `current_principal` does not check the client's address.
- `lockout.py:187`: an expired lock deletes its record, so that the longer cooldowns of
  higher levels are reached only through a race.
- `mfa.py`: enroll-begin replaces a confirmed TOTP secret without a recent proof; no route
  calls `assertion_begin`.
- `totp.py:142` says "Rejects replays", and tests/auth/test_totp.py that a code is refused the
  second time. Lines 174-186 accept the codes of three steps and compare and record the step
  of arrival, so that one code is accepted once in each of the three, one request after
  the other.
- `recovery.py:82`: overlapping regenerations leave two sets of codes.
- `lockout.py:116`: a failure that commits late puts the count back to one more than it
  read. With two logins at a time up to 16 wrong passwords can be tried before the code's
  limit of 5 locks the account, with k at a time choose(k + 4, k) + k - 1 (`MostGuesses`).

Fleet:

- `hosts.py` delete_host's text names a POST /revoke route; there is none.
- `enrollment/service.py`: redeem does not look at the purpose of a token.
- `agent_bridge.py:271`: the interval loaded at connect queues behind a newer one; lines
  347-349: when it cannot be read, none is sent and the agent keeps the one it has.
- `hosts.py:549-557`: two overlapping PATCHes may push their intervals in the opposite order
  of their commits (`outdated`).
- `hosts.py:599`: resurvey pushes before it commits; an early answer leaves the task running.
  So do five later runs of the host (agent_bridge.py:499), a full match queue
  (worker.py:96-100) and the swallowed failures of agent_bridge.py:512-517 and
  worker.py:153-156 (`missed`).
- `groups.py:32,38` compare the path's group id as it is written, while line 245 parses it: an id
  in capitals or without hyphens passes the cycle check (`misspelt`).
- `groups.py:270`: overlapping re-parentings can close a cycle; `_build_group_hierarchy`
  then recurses without end and every dispatch is denied.
- Bindings to a group never cover a dispatch, as the resource carries no groups;
  prune_stale_hosts leaves memberships and revokes nothing; a group's members without a
  host row are resolved as targets.

Keys, audit, releases, secrets:

- `ca.py:61`, `signing.py:135`: a crash between two files leaves a directory that cannot be
  loaded, or a key with another generation's public half (`split`).
- `lifespan.py:592`: the server's TLS certificate lives one hour and is made at start only;
  nothing renews the intermediate certificate.
- `ca.py` sign_release_manifest says that its key is pinned at enrollment; enrollment pins the
  key of the signing backend.
- `sql_chain.py:126`: on Postgres the retry after a collision rolls back the caller's
  changes and still commits the entry that reports them.
- `retention.py:62` says the remaining tail "still chains forward correctly". After a sweep
  both verifications fail, and the verify route fails for every from_seq above 0.
- `agent_releases.py:134`: uploading a version again overwrites its binary before the row
  is refused.
- `lifespan.py:342` gives the secrets API the local backend; `SecretsBroker`,
  `SealedModeMonitor` and `RetentionSweeper` are not constructed by the server. They are
  modelled for their contracts. The broker's audit entries have no session and always fail.

Advisories and risk:

- `lifespan.py:736` says the sweep catches a certificate that "ages into the <30d window".
  `_hash_inputs` (recomputer.py:371) holds no ages, no survey, no inventory and no release: a
  host of which only these changed keeps its old score. `RiskCatchesUp` promises the
  score of the tables for the other hosts only.
- `recomputer.py`: the previous row is the object that merge writes into, so that no level
  transition is announced; a request within the debounce is dropped; a row computed while
  a scorer or a lookup failed (239-241, 285-290, 309-311, 341-343) is kept until a hashed
  input changes or a recompute is forced.
- `aggregator.py:112`: from "stable" back to "minimal" the score would have to be negative.
- Findings that no longer hold are never removed, suppressed ones still count,
  `hosts_with_expired_certs` names no host, and the configuration scorer looks for facts
  under keys that the survey does not use.
- `worker.py:93`: an inventory that arrives while its host is being matched is not matched
  again; a feed sync triggers no match; a match re-opens suppressed advisories and leaves
  those of removed packages open.
- `matcher.py` `_candidate_ecosystems` does not shorten "9.3", so that minor releases of
  rpm distributions have no ecosystem; CVSS vectors give severity "unknown".

## 5. Proofs

Every theorem is of the form `Spec => []Inv` or `Spec => P` for the specification that the
runs check, with no hypothesis but the named assumptions of the modules: bounds and
capacities are naturals (capacities and lifetimes positive), marker values (`None`, `NoCmd`)
are not data, and the few facts about parameters that each subsection names. TLC evaluates
all of them on the instances of the runs. Sets of commands, hosts, users, writers, requests
and so on are arbitrary. Every inductive invariant was an invariant of a TLC run before it
was proved.

**CommandPath_proofs**, delivery: `TypeCorrect` (`TypeOK`, with the bounds of the two queues),
`NoCommandVanishes` (`NothingVanishes`), `ResumeIsComplete` (`ResumeCoversUnacked`),
`OrphanTakesNext` (`OrphansStarveQueue`). The inductive invariant is the conjunction of the
three safety invariants and `PullState` (a pulled command exists only while Stream is
suspended in asyncio.wait, and only when no orphan stands before it). None of the three is
inductive alone: `NothingVanishes` needs to know that an overwritten `pull` was empty,
`ResumeCoversUnacked` needs the same when a put-back moves a command, and
`OrphansStarveQueue` is what makes `register`'s refill hand exactly the first commands to
the orphans. The argument rests on what the queue operations do to the set of elements of a
sequence (`ElemsAppend`, `ElemsTail`, `ElemsConcat`, `ElemsCut`, `ElemsWithout`).
`CopiesNeedReconnect` (`DuplicatesNeedReconnect`) counts occurrences instead (`CountConcat`,
`CountTail`, `CountWithout`). Its invariant `DupInv` says that only two steps make copies: the
startup query, once, of rows that may be on the bus as well, and `register`, of what is
un-acked, which holds a command once at most and is empty before the first stream.
Every other step moves copies or loses them (`NoCopyMade`).

**CommandPath_proofs**, gate: `GateTypeCorrect` (`GateTypeOK`), `ApprovedMeetsPolicy`
(`ApprovalMeetsPolicy`), `SentOnAnothersDecision` (`GatedByAnother`). Decisions are made on
rows that may have changed since they were read; `UpdatesJustified` says what such a
decision still carries, and `Keeps` (no step withdraws a vote or changes a row's requester,
kind or policy) why that does not go stale. Assumed besides: approvers are users.

**Outbox_proofs**: `UnsentResultsStay` (`NoResultLeavesUnsent`), `ReopenSucceeds`
(`ReopensUnlessAckFailed`), `VerifyAcceptsContiguous` (`VerifyIffContiguous`) and the action
property `FirstSendsFollowAppends` (`FirstSendsInOrder`). The drain goes by id, and ids start
at 1 again after a drained file is reopened; the invariant says why that is still the order
of age: entries are ordered alike by id and by append (`IdInv`), a batch agrees with the
file as it is now (`BatchInv`), an ack still to be made can only hit an entry that was sent
(`AckInv`), whatever is unsent is younger than all that was sent (`SentInv`). `OldestInv` is
what a failed ack destroys, and `ChainInv` ties the chain tip to the appends. That a bucket
is read in key order comes down to `RankStep` and `RankExists`: the ranks of a finite
set of keys are 1 to its size. `CapsHold` says that the file is within both caps after every
transaction: what `Kept` keeps is nothing or the largest of the nested sets of youngest
entries that fit, and an ack takes its bytes away from the sum (`BytesRemove`).

**TaskLifecycle_proofs**: `TypeCorrect`, `KeyNamesOneCommand` (`OneCommandPerKey`),
`ReturnedTaskExists` (`AnswerNamesTask`) and the action property `StatusIsJustified`
(`FinalStatusJustified`). The argument is SQLite's write lock (`LockInv`): a dispatch holds
it from its first flush to its end, a handler from the insert of its result, a sweep from its
first EXPIRED, so that what a session read about the key (`KeyInv`), the run (`RunInv`) or the
roll-up (`HandlerInv`, `SweepInv`) cannot change before it commits. A consequence worth
knowing: the IntegrityError branch of `CommandQueue.enqueue` is never taken.
Assumed besides: calls and hosts are different things.

**Accounts_proofs**: `RevokedNeedsOverlap` (`RevokedCachedOnlyByOverlap`, strengthened to the
copies that a lookup is about to cache), `SubjectKeepsAccount` (`SubjectIsOneAccount`: before
a subject is linked no login of it got a session), `SpentIsRefused` (`SpentProofRefused`: an
accepted proof is on record where the next challenge looks for it, `SpentOnRecord`; for TOTP
the record is `last_used_step`, not less than the step of any accepted code's arrival) and
`CodesOfOneSet` (`OneCodeSet`: the table is empty while a regeneration is between its two
transactions).
`GuessesAreBounded` (`GuessesBounded`) is the longest of the arguments. A login that has read
the record may put the count back to one more than it read, so no measure of one request
decreases. What does is the number of multisets: if the k requests start from counts
c1 ... ck below the limit L, every wrong password replaces these by counts that are further
on in an order with choose(k + L - 1, k) - 1 places (`GuessInv`; `Spread` gives for each
count the requests that have reached it, `Totals` sums the places left, `ChooseRule` is
Pascal's rule for the library's `choose`). While a lock is active only logins that had passed
`CheckLock` before can still guess, one each. The run's limit of two does not tell this bound
from smaller ones that are wrong for a limit of three or more; the theorem covers every limit
of at least 2 (the code's is 5). Assumed besides: finitely many requests at a time.

**Access_proofs**: `TokenIsSingleUse` (`TokenAdmitsOneHost`: a token that can still be
claimed admitted nobody), `AgentGetsInterval` (`IntervalReachesAgent`: the last interval in
the control queue, or else the agent's own, is the row's, `Drains`, unless a `PushInterval`
is still to come or the host is `outdated`), `TasksAwaitAnswers`
(`RunningTasksAwaitAnAnswer`, strengthened to the requests that have asked the agent and not
yet committed their task, since resurvey asks first; the answers that closed no task are
counted with those to come, and `PlacesAppend`, `PlacesTail` count places of a queue) and
`GroupsStayForest` (`GroupsFormForest`). For the last, what is above a group is the smallest
set that holds it and the parents of its members (`AboveFacts`); removing links closes no
cycle (`ForestFewer`), and neither does a link from g to a group that is not below g
(`ForestMove`). The check of update_group is made some steps before its commit; `ForestInv`
keeps its answer true meanwhile: without a second re-parenting, links are only removed or
lead from a new group, and as ids are not used again a new group is above nobody. A check
that looked for another spelling may have been passed by a request that closes a cycle;
`misspelt` then holds from that check on. Assumed besides: the default interval is an
interval, intervals are not kinds of control message, and a group is none of the markers for
no parent, an id not yet used and a deleted group.

**Platform_proofs**. The four components share only the process, so each has an invariant of
its own.
- `TrustSurvivesRestarts` (`KeysStayTrusted`): the CA is made once and is of generation 1 for
  good (`CaInv`); key and public half are of one generation whenever they can be loaded,
  unless a crash split them (`SignInv`, which follows every file write of bootstrap and rotate).
- `ChangesStayWithEntries` (`EntryKeepsItsChange`): on SQLite one transaction writes at a time,
  so that a number it has read is still free when it inserts (`WriteInv`).
- `RowsImplementLog` (`LogImplemented`): the rows implement the abstract `AuditLog` on both
  databases. `ChainInv` says that the committed rows, and the rows with what each open
  transaction has inserted, are a chain up to what was swept, and that no two transactions
  hold the same number; a commit then maps to an extension of the log
  (`CommitExtends`), a retention sweep to a removal of expired entries (`DeletePrunes`), and
  every other step to a stutter.
- `CommittedVerifies` (`AuditVerifies`): without a sweep the numbers are positions
  (`RankIsSeq`, `Positions`), so the walk from genesis succeeds; every checkpoint covers the
  first entries of the chain, also while the chain grows (`CheckInv`, `CoversGrows`).
- `PublishedStaysServed` (`PublishedIsServed`) and `AcknowledgedStays` (`AcknowledgedIsRead`):
  per version and per reference, what each request under way has read, outside the versions
  and references that an overlap has put in doubt (`doubted`, `muddled`).

**Risk_proofs**: `LevelStaysNear` (`LevelNearScore`) and the action property
`RowsNeverGoBack` (`RowNeverGoesBack`). From its load to its save a pass holds the lock of
its host, and what it has read is not older than the row (`RecomputeInv`); a row is not
newer than the tables (`RowInv`). For the level the stored score must be a whole number from
0 to 100, whatever the advisories, findings, overrides and failing scorers or lookups:
`BlendInRange`, which rests on types of what the passes read (`CatalogInv`, `MatchInv`,
`InspectInv`, `ConfigInv`) and on the scorers' sums (`SumIn`). The hysteresis then moves
from one level near the old score to one near the new. Assumed besides: finitely many
advisories, `Saturate` a table of scores from 0 to 100 points, and `None` not a caller.

Sums and recursive functions. The library's induction theorems take an operator as a
parameter and cannot be used here; where an argument needs induction (`GuessesAreBounded`,
`CapsHold`, `LevelStaysNear`) it is made with sets: a non-empty set of naturals, or of subsets of
a finite set, has a minimal member (`NatSetInduction`, `MinimalSubset`, from `WFMin`), and the
recursive functions of the library are first shown to exist.

Only model-checked: everything temporal under fairness (`Delivered`, `TerminateEndsStream`,
`EventuallySent`, `TaskSettles`, `RiskCatchesUp`, `WorkIsServed`), which is out of the
prover's reach. The 30 other properties of the passing runs are theorems. The two runs that
expect a violation have none.

## 6. Plan

In this order; each module with its own run, mutants and, where marked, proofs.
1. *Done*: CommandDelivery with proofs, Outbox, TaskLifecycle, ApprovalGate, CertRecovery
   (without proofs: its run is a violation); Sessions, SecondFactor, Hosts, Access, Keys,
   Audit with its abstract AuditLog, Releases, Secrets, Catalog, Advisories, RiskScore,
   Risk.
2. *Done*: the proofs of section 5, the refinement of AuditLog included.
3. ResultChain: the agent's per-stream counters and files against the server's
   sequence check. Updater: apply, boot counter, rollback and confirmation across crashes.
4. Idempotency: owner and waiters of one key. EventBus: ring buffers, replay,
   after-commit hooks. Schedule: last_run_at against the firing of a job.
5. An abstract specification of delivery, "a command is open, then answered,
   closed or lost", with CommandDelivery shown to implement it.

## 7. Not modelled, and why

Operating system wrappers (executors, providers, inventory, service managers),
the TUI and the web UI are I/O, as are downloading and unpacking feeds. Formatting,
envelope encoding and signatures are functions of their inputs, whose answers the modules
take as inputs. API keys and capability tokens are checked row by row.
The agent-update branch of the agent's receive loop (client.go:696-767) never runs:
`_payload_to_proto` (grpc/dispatcher.py:94-120) makes no such command and
`_build_agent_update_cmd` has no caller. StageTLS, VerifyStagedTLS and CommitTLS of the keystore
wait behind a call that always fails.
`CommandQueue.pop`, `peek` and `expire_overdue`, the replay store and the agent's
`verify` package have no caller on the command path. `RotationOrchestrator`, the container
scanner, `match_all_hosts` and `OSVFeedSource` have no caller in the server. Result
envelopes, HTTP idempotency, self-update and schedules are planned (section 6).
`PROJECT.json` ("components") lists every part with its status, ("hazards") what
is hard to test and which property would notice.
