---------------------------- MODULE CommandDelivery ----------------------------
(***************************************************************************)
(* Delivery of commands from the Command table to one agent.                *)
(*                                                                          *)
(*   Command rows --bus--> run_command_bridge --enqueue--> _HostState.queue *)
(*     --AgentBridgeService.Stream--> agent --result--> _recv_loop --ack-->  *)
(*                                                                          *)
(* Hosts share no delivery state, so the module describes one _HostState,    *)
(* the Stream coroutine that serves it, and the bridge restricted to it.     *)
(* CommandDispatcher's methods hold the lock across no suspension point, so  *)
(* each is one atomic step.  The steps of Stream are cut at its awaits.      *)
(***************************************************************************)
EXTENDS Naturals, Sequences, FiniteSets

CONSTANTS
    Commands,    \* command ids that may be issued for this host
    NoCmd,       \* "no command": the pull task has not completed
    BusCap,      \* max_queue of the bridge's bus subscription (1024)
    CtrlCap,     \* maxsize of the stream's control queue (64)
    MaxPushes,   \* bound: control messages pushed by REST handlers
    MaxFaults,   \* bound: disturbances (link losses, crashes, restarts,
                 \* exceptions, failed results, revocations, closed rows)
    MaxStreams   \* bound: Stream RPCs accepted in one server lifetime

ASSUME ConstantsAssumption ==
    /\ NoCmd \notin Commands
    /\ BusCap \in Nat \ {0}
    /\ CtrlCap \in Nat \ {0}
    /\ MaxPushes \in Nat /\ MaxFaults \in Nat /\ MaxStreams \in Nat

VARIABLES
    issued,      \* committed Command rows of this host
    closed,      \* rows whose status left QUEUED (cancelled or expired)
    bus,         \* events buffered in the bridge's subscription
    bridge,      \* "subscribed" | "replaying" | "forwarding"
    scan,        \* QUEUED rows read at startup, not yet enqueued
    stranded,    \* ghost: rows the bridge dropped (overflow or exception)
    queue,       \* _HostState.queue
    unacked,     \* _HostState.unacked, in insertion order
    connected,   \* _HostState.connected, and the _control_queues entry
    term,        \* _HostState.terminate_event
    orphans,     \* getters left on queue by cancelled Stream coroutines
    swallowed,   \* ghost: commands taken from queue by a dead pull task
    phase,       \* where Stream is suspended: none | loading | wait | yield
    pull,        \* result of pull_task, or NoCmd
    ctrl,        \* messages in control_q
    ctrlDone,    \* ctrl_task completed
    termDone,    \* term_task completed
    recv,        \* recv_task: idle | busy (handling a result) | done
    handling,    \* command whose result recv_task is handling
    link,        \* the agent believes its stream is open
    down, up,    \* commands and results in transit
    running,     \* commands being executed by the agent (a bag)
    execs,       \* ghost: executions started, per command
    outbox,      \* results waiting in the agent's outbox
    silent,      \* ghost: commands executed without a result, not sent again since
    revoked,     \* the host's current certificate is on the CRL
    acked,       \* ghost: commands removed from unacked by an ack
    sentHere,    \* ghost: commands sent on the current stream
    pushes, faults, streams, restarts    \* bounds, and ghost counters

bridgeVars == <<issued, closed, bus, bridge, scan, stranded>>
hostVars   == <<queue, unacked, connected, term, orphans, swallowed>>
taskVars   == <<pull, ctrl, ctrlDone, termDone>>
recvVars   == <<recv, handling>>
linkVars   == <<link, down, up>>
agentVars  == <<running, execs, outbox, silent>>
countVars  == <<pushes, faults, streams, restarts>>
vars == <<bridgeVars, hostVars, phase, taskVars, recvVars, linkVars,
          agentVars, revoked, acked, sentHere, countVars>>

Elems(s) == {s[i] : i \in DOMAIN s}

BridgeOK ==
    /\ issued \subseteq Commands /\ closed \subseteq issued
    /\ bus \in Seq(Commands) /\ Len(bus) <= BusCap
    /\ bridge \in {"subscribed", "replaying", "forwarding"}
    /\ scan \subseteq Commands /\ stranded \subseteq Commands

HostOK ==
    /\ queue \in Seq(Commands) /\ unacked \in Seq(Commands)
    /\ orphans \in Nat /\ swallowed \subseteq Commands

StreamOK ==
    /\ phase \in {"none", "loading", "wait", "yield"}
    /\ pull \in Commands \cup {NoCmd}
    /\ ctrl \in Nat /\ ctrl <= CtrlCap
    /\ recv \in {"idle", "busy", "done"} /\ handling \in Commands \cup {NoCmd}
    /\ acked \subseteq Commands /\ sentHere \subseteq Commands

AgentOK ==
    /\ down \in Seq(Commands) /\ up \in Seq(Commands) /\ outbox \in Seq(Commands)
    /\ running \in [Commands -> Nat] /\ execs \in [Commands -> Nat]
    /\ silent \subseteq Commands

FlagsOK ==
    /\ connected \in BOOLEAN /\ term \in BOOLEAN
    /\ ctrlDone \in BOOLEAN /\ termDone \in BOOLEAN
    /\ link \in BOOLEAN /\ revoked \in BOOLEAN

CountersOK == pushes \in Nat /\ faults \in Nat /\ streams \in Nat /\ restarts \in Nat

\* The type invariant; the two bounded queues stay within their bounds.
TypeOK == BridgeOK /\ HostOK /\ StreamOK /\ AgentOK /\ FlagsOK /\ CountersOK

Init ==
    /\ issued = {} /\ closed = {} /\ bus = <<>> /\ bridge = "subscribed"
    /\ scan = {} /\ stranded = {}
    /\ queue = <<>> /\ unacked = <<>> /\ connected = FALSE /\ term = FALSE
    /\ orphans = 0 /\ swallowed = {}
    /\ phase = "none" /\ pull = NoCmd /\ ctrl = 0
    /\ ctrlDone = FALSE /\ termDone = FALSE
    /\ recv = "idle" /\ handling = NoCmd
    /\ link = FALSE /\ down = <<>> /\ up = <<>>
    /\ running = [c \in Commands |-> 0] /\ execs = [c \in Commands |-> 0]
    /\ outbox = <<>> /\ silent = {} /\ revoked = FALSE /\ acked = {} /\ sentHere = {}
    /\ pushes = 0 /\ faults = 0 /\ streams = 0 /\ restarts = 0

(***************************************************************************)
(* The dispatcher's queue.  A Stream cancelled inside asyncio.wait leaves    *)
(* its pull_task waiting on queue.get(); asyncio wakes getters in FIFO       *)
(* order, so the next put is taken by such an orphan and goes nowhere.       *)
(***************************************************************************)
Drop(s, n) == SubSeq(s, n + 1, Len(s))
Least(m, n) == IF m <= n THEN m ELSE n

\* CommandDispatcher.enqueue
Enqueue(c) ==
    IF orphans > 0
    THEN /\ orphans' = orphans - 1
         /\ swallowed' = swallowed \cup {c}
         /\ UNCHANGED <<queue, unacked, connected, term>>
    ELSE /\ queue' = Append(queue, c)
         /\ UNCHANGED <<unacked, connected, term, orphans, swallowed>>

\* Mutant: register forgets the un-acked commands.
RegisterForgetsUnacked ==
    LET taken == Least(orphans, Len(queue))
    IN  /\ ~connected
        /\ connected' = TRUE
        /\ queue' = Drop(queue, taken)
        /\ swallowed' = swallowed \cup Elems(SubSeq(queue, 1, taken))
        /\ orphans' = orphans - taken
        /\ UNCHANGED <<unacked, term>>

\* Mutant: register refills the queue without draining it first.
RegisterKeepsQueue ==
    /\ ~connected
    /\ connected' = TRUE
    /\ queue' = queue \o unacked \o queue
    /\ UNCHANGED <<unacked, term, orphans, swallowed>>

\* CommandDispatcher.register: un-acked commands first, then what was pending.
Register ==
    LET items == unacked \o queue
        taken == Least(orphans, Len(items))
    IN  /\ ~connected
        /\ connected' = TRUE
        /\ queue' = Drop(items, taken)
        /\ swallowed' = swallowed \cup Elems(SubSeq(items, 1, taken))
        /\ orphans' = orphans - taken
        /\ UNCHANGED <<unacked, term>>

\* CommandDispatcher.mark_in_flight: a key already present keeps its place.
MarkInFlight(c) ==
    unacked' = IF c \in Elems(unacked) THEN unacked ELSE Append(unacked, c)

\* OrderedDict.pop(c, None): the keys of s, without c.
Without(s, c) ==
    IF c \in Elems(s)
    THEN LET i == CHOOSE i \in DOMAIN s : s[i] = c
         IN  SubSeq(s, 1, i - 1) \o SubSeq(s, i + 1, Len(s))
    ELSE s

\* CommandDispatcher.ack
Ack(c) ==
    /\ unacked' = Without(unacked, c)
    /\ acked' = acked \cup (Elems(unacked) \cap {c})

--------------------------------------------------------------------------------
(***************************************************************************)
(* run_command_bridge and the rows it reads.                                *)
(***************************************************************************)
Fault == faults < MaxFaults /\ faults' = faults + 1

\* Mutant: the subscription's buffer is not bounded.
IssueUnbounded(c) ==
    /\ c \notin issued
    /\ issued' = issued \cup {c}
    /\ bus' = Append(bus, c)
    /\ UNCHANGED <<closed, bridge, scan, stranded, hostVars, phase, taskVars, recvVars,
                   linkVars, agentVars, revoked, acked, sentHere, countVars>>

\* A dispatch commits the row and its after-commit hook publishes
\* command.issued; a full subscription loses its oldest event.
Issue(c) ==
    /\ c \notin issued
    /\ issued' = issued \cup {c}
    /\ IF Len(bus) < BusCap
       THEN bus' = Append(bus, c) /\ UNCHANGED stranded
       ELSE bus' = Append(Tail(bus), c) /\ stranded' = stranded \cup {Head(bus)}
    /\ UNCHANGED <<closed, bridge, scan, hostVars, phase, taskVars, recvVars,
                   linkVars, agentVars, revoked, acked, sentHere, countVars>>

\* A task is cancelled or the timeout sweeper expires the row.  Nothing tells
\* the live queue.
CloseRow(c) ==
    /\ c \in issued \ closed /\ Fault
    /\ closed' = closed \cup {c}
    /\ UNCHANGED <<issued, bus, bridge, scan, stranded, hostVars, phase, taskVars, recvVars,
                   linkVars, agentVars, revoked, acked, sentHere, pushes, streams, restarts>>

\* The startup query, issued after the subscription exists.
BridgeSelect ==
    /\ bridge = "subscribed"
    /\ bridge' = "replaying"
    /\ scan' = issued \ closed
    /\ UNCHANGED <<issued, closed, bus, stranded, hostVars, phase, taskVars,
                   recvVars, linkVars, agentVars, revoked, acked, sentHere, countVars>>

BridgeReplay(c) ==
    /\ bridge = "replaying" /\ c \in scan
    /\ scan' = scan \ {c}
    /\ Enqueue(c)
    /\ UNCHANGED <<issued, closed, bus, bridge, stranded, phase, taskVars,
                   recvVars, linkVars, agentVars, revoked, acked, sentHere, countVars>>

BridgeReplayEnd ==
    /\ bridge = "replaying" /\ scan = {}
    /\ bridge' = "forwarding"
    /\ UNCHANGED <<issued, closed, bus, scan, stranded, hostVars, phase, taskVars,
                   recvVars, linkVars, agentVars, revoked, acked, sentHere, countVars>>

\* command_bridge.replay_failed: the exception ends the replay, not the bridge.
BridgeReplayFails ==
    /\ bridge \in {"subscribed", "replaying"}
    /\ Fault
    /\ bridge' = "forwarding" /\ scan' = {}
    /\ stranded' = stranded \cup (IF bridge = "subscribed" THEN issued ELSE scan)
    /\ UNCHANGED <<issued, closed, bus, hostVars, phase, taskVars, recvVars, linkVars,
                   agentVars, revoked, acked, sentHere, pushes, streams, restarts>>

BridgeForward ==
    /\ bridge = "forwarding" /\ bus # <<>>
    /\ bus' = Tail(bus)
    /\ Enqueue(Head(bus))
    /\ UNCHANGED <<issued, closed, bridge, scan, stranded, phase, taskVars, recvVars,
                   linkVars, agentVars, revoked, acked, sentHere, countVars>>

\* command_bridge.dispatch_failed: the event is consumed and only logged.
BridgeForwardFails ==
    /\ bridge = "forwarding" /\ bus # <<>>
    /\ Fault
    /\ bus' = Tail(bus)
    /\ stranded' = stranded \cup {Head(bus)}
    /\ UNCHANGED <<issued, closed, bridge, scan, hostVars, phase, taskVars, recvVars,
                   linkVars, agentVars, revoked, acked, sentHere, pushes, streams, restarts>>

--------------------------------------------------------------------------------
(***************************************************************************)
(* AgentBridgeService.Stream, cut at its awaits.                             *)
(***************************************************************************)
\* Authentication, the CRL check, register, and the control queue; then Stream
\* awaits _load_heartbeat_interval.  A second stream for a connected host is
\* aborted with ALREADY_EXISTS and changes nothing.
Connect ==
    /\ ~link /\ ~revoked /\ phase = "none"
    /\ streams < MaxStreams
    /\ Register
    /\ link' = TRUE
    /\ phase' = "loading" /\ ctrl' = 0
    /\ streams' = streams + 1 /\ sentHere' = {}
    /\ UNCHANGED <<bridgeVars, pull, ctrlDone, termDone, recvVars, down, up, agentVars,
                   revoked, acked, pushes, faults, restarts>>

\* The top of the while loop: the three tasks run once before Stream resumes,
\* and each completes at once if what it waits for is there.  cq is the length
\* of the control queue at that moment.
StartTasks(cq) ==
    /\ phase' = "wait"
    /\ IF queue = <<>> THEN pull' = NoCmd /\ UNCHANGED queue
                       ELSE pull' = Head(queue) /\ queue' = Tail(queue)
    /\ ctrlDone' = (cq > 0)
    /\ ctrl' = IF cq > 0 THEN cq - 1 ELSE 0
    /\ termDone' = term

\* The interval is loaded (or not) and queued as the first control message.
LoadDone(hb) ==
    /\ phase = "loading"
    /\ ctrl + hb <= CtrlCap
    /\ StartTasks(ctrl + hb)
    /\ UNCHANGED <<bridgeVars, unacked, connected, term, orphans, swallowed, recvVars,
                   linkVars, agentVars, revoked, acked, sentHere, countVars>>

\* put_nowait raises QueueFull, or the RPC is cancelled during the load: the
\* try/finally that unregisters has not been entered yet.
LoadAborted ==
    /\ phase = "loading"
    /\ ~link \/ ctrl = CtrlCap
    /\ phase' = "none"
    /\ UNCHANGED <<bridgeVars, hostVars, taskVars, recvVars, linkVars, agentVars,
                   revoked, acked, sentHere, countVars>>

\* A task completes while Stream is suspended in asyncio.wait.
LatePull ==
    /\ phase = "wait" /\ pull = NoCmd /\ queue # <<>>
    /\ pull' = Head(queue) /\ queue' = Tail(queue)
    /\ UNCHANGED <<bridgeVars, unacked, connected, term, orphans, swallowed, phase, ctrl,
                   ctrlDone, termDone, recvVars, linkVars, agentVars, revoked, acked,
                   sentHere, countVars>>

LateControl ==
    /\ phase = "wait" /\ ~ctrlDone /\ ctrl > 0
    /\ ctrlDone' = TRUE /\ ctrl' = ctrl - 1
    /\ UNCHANGED <<bridgeVars, hostVars, phase, pull, termDone, recvVars, linkVars,
                   agentVars, revoked, acked, sentHere, countVars>>

LateTerm ==
    /\ phase = "wait" /\ ~termDone /\ term
    /\ termDone' = TRUE
    /\ UNCHANGED <<bridgeVars, hostVars, phase, pull, ctrl, ctrlDone, recvVars, linkVars,
                   agentVars, revoked, acked, sentHere, countVars>>

\* Mutant: the pulled command is forgotten.
PutBackForgets == UNCHANGED queue

\* An already pulled command is put back, at the tail of the queue.
PutBack == queue' = IF pull = NoCmd THEN queue ELSE Append(queue, pull)

\* The finally block: control queue popped, recv_task cancelled, unregister.
Teardown ==
    /\ phase' = "none" /\ connected' = FALSE
    /\ pull' = NoCmd /\ ctrl' = 0 /\ ctrlDone' = FALSE /\ termDone' = FALSE
    /\ recv' = "idle" /\ handling' = NoCmd

\* Mutant: term_task is not among the tasks that end asyncio.wait.
ResumeTermUnwatched ==
    /\ phase = "wait" /\ termDone
    /\ pull # NoCmd \/ ctrlDone \/ recv = "done"
    /\ PutBack /\ Teardown
    /\ UNCHANGED <<bridgeVars, unacked, term, orphans, swallowed, linkVars, agentVars,
                   revoked, acked, sentHere, countVars>>

ResumeTerm ==
    /\ phase = "wait" /\ termDone
    /\ PutBack /\ Teardown
    /\ UNCHANGED <<bridgeVars, unacked, term, orphans, swallowed, linkVars, agentVars,
                   revoked, acked, sentHere, countVars>>

ResumeRecvDone ==
    /\ phase = "wait" /\ ~termDone /\ recv = "done"
    /\ PutBack /\ Teardown
    /\ UNCHANGED <<bridgeVars, unacked, term, orphans, swallowed, linkVars, agentVars,
                   revoked, acked, sentHere, countVars>>

\* Control messages take priority; the agent's reaction to them is not modelled.
ResumeControl ==
    /\ phase = "wait" /\ ~termDone /\ recv # "done" /\ ctrlDone
    /\ PutBack
    /\ phase' = "yield" /\ pull' = NoCmd /\ ctrlDone' = FALSE
    /\ UNCHANGED <<bridgeVars, unacked, connected, term, orphans, swallowed, ctrl,
                   termDone, recvVars, linkVars, agentVars, revoked, acked, sentHere,
                   countVars>>

\* mark_in_flight, then yield; a message yielded on a dead link is lost.
ResumeCommand ==
    /\ phase = "wait" /\ ~termDone /\ recv # "done" /\ ~ctrlDone /\ pull # NoCmd
    /\ MarkInFlight(pull)
    /\ down' = IF link THEN Append(down, pull) ELSE down
    /\ sentHere' = sentHere \cup {pull} /\ silent' = silent \ {pull}
    /\ phase' = "yield" /\ pull' = NoCmd
    /\ UNCHANGED <<bridgeVars, queue, connected, term, orphans, swallowed, ctrl, ctrlDone,
                   termDone, recvVars, link, up, running, execs, outbox, revoked, acked,
                   countVars>>

\* gRPC wrote the message and asks the generator for the next one.
NextIteration ==
    /\ phase = "yield"
    /\ StartTasks(ctrl)
    /\ UNCHANGED <<bridgeVars, unacked, connected, term, orphans, swallowed, recvVars,
                   linkVars, agentVars, revoked, acked, sentHere, countVars>>

\* The RPC is cancelled at a yield: GeneratorExit runs the finally block.
CancelledAtYield ==
    /\ phase = "yield" /\ ~link
    /\ Teardown
    /\ UNCHANGED <<bridgeVars, queue, unacked, term, orphans, swallowed, linkVars,
                   agentVars, revoked, acked, sentHere, countVars>>

\* The RPC is cancelled inside asyncio.wait.  pull_task is neither cancelled nor
\* read: a command it took, or takes now, is dropped; otherwise it stays on the
\* queue as an orphan getter.
CancelledAtWait ==
    /\ phase = "wait" /\ ~link
    /\ Teardown
    /\ \/ /\ pull # NoCmd
          /\ swallowed' = swallowed \cup {pull}
          /\ UNCHANGED <<queue, orphans>>
       \/ /\ pull = NoCmd /\ queue # <<>>
          /\ swallowed' = swallowed \cup {Head(queue)}
          /\ queue' = Tail(queue) /\ UNCHANGED orphans
       \/ /\ pull = NoCmd /\ queue = <<>>
          /\ orphans' = orphans + 1
          /\ UNCHANGED <<queue, swallowed>>
    /\ UNCHANGED <<bridgeVars, unacked, term, linkVars, agentVars, revoked, acked,
                   sentHere, countVars>>

--------------------------------------------------------------------------------
(***************************************************************************)
(* _recv_loop, on the results it is fed.                                     *)
(***************************************************************************)
RecvAlive == phase \in {"wait", "yield"}

RecvResult ==
    /\ RecvAlive /\ recv = "idle" /\ up # <<>>
    /\ handling' = Head(up) /\ up' = Tail(up) /\ recv' = "busy"
    /\ UNCHANGED <<bridgeVars, hostVars, phase, taskVars, link, down, agentVars, revoked,
                   acked, sentHere, countVars>>

\* ResultHandler.handle returned or raised ResultRejectedError: acked either way.
RecvAck ==
    /\ RecvAlive /\ recv = "busy"
    /\ Ack(handling)
    /\ recv' = "idle" /\ handling' = NoCmd
    /\ UNCHANGED <<bridgeVars, queue, connected, term, orphans, swallowed, phase, taskVars,
                   linkVars, agentVars, revoked, sentHere, countVars>>

\* Any other exception ends recv_task, and with it the stream.
RecvFails ==
    /\ RecvAlive /\ recv = "busy"
    /\ Fault
    /\ recv' = "done" /\ handling' = NoCmd
    /\ UNCHANGED <<bridgeVars, hostVars, phase, taskVars, linkVars, agentVars, revoked,
                   acked, sentHere, pushes, streams, restarts>>

\* The request iterator ends because the agent's side of the stream is gone.
RecvEnds ==
    /\ RecvAlive /\ recv = "idle" /\ ~link
    /\ recv' = "done"
    /\ UNCHANGED <<bridgeVars, hostVars, phase, taskVars, handling, linkVars, agentVars,
                   revoked, acked, sentHere, countVars>>

--------------------------------------------------------------------------------
(***************************************************************************)
(* REST handlers, revocation, and failures.                                  *)
(***************************************************************************)
\* push_control; on a full queue or an offline host it returns False.
PushControl ==
    /\ pushes < MaxPushes
    /\ connected /\ ctrl < CtrlCap
    /\ ctrl' = ctrl + 1 /\ pushes' = pushes + 1
    /\ UNCHANGED <<bridgeVars, hostVars, phase, pull, ctrlDone, termDone, recvVars,
                   linkVars, agentVars, revoked, acked, sentHere, faults, streams, restarts>>

\* RevocationService.revoke: the serial is remembered, then dispatcher.terminate.
Revoke ==
    /\ ~revoked /\ Fault
    /\ revoked' = TRUE
    /\ term' = (term \/ connected)
    /\ UNCHANGED <<bridgeVars, queue, unacked, connected, orphans, swallowed, phase, taskVars,
                   recvVars, linkVars, agentVars, acked, sentHere, pushes, streams, restarts>>

\* A new certificate is issued to the host; its serial is not on the CRL.
ReEnroll ==
    /\ revoked
    /\ revoked' = FALSE
    /\ UNCHANGED <<bridgeVars, hostVars, phase, taskVars, recvVars, linkVars, agentVars,
                   acked, sentHere, countVars>>

LoseLink == link' = FALSE /\ down' = <<>> /\ up' = <<>>

LinkBreak ==
    /\ link /\ Fault
    /\ LoseLink
    /\ UNCHANGED <<bridgeVars, hostVars, phase, taskVars, recvVars, agentVars, revoked,
                   acked, sentHere, pushes, streams, restarts>>

\* The handler has returned (or died): the agent's Recv fails once it has read
\* what was sent.
AgentSeesClose ==
    /\ link /\ phase = "none" /\ down = <<>>
    /\ LoseLink
    /\ UNCHANGED <<bridgeVars, hostVars, phase, taskVars, recvVars, agentVars, revoked,
                   acked, sentHere, countVars>>

\* The agent process dies: executions are lost, the outbox file is not.
AgentCrash ==
    /\ Fault
    /\ LoseLink
    /\ running' = [c \in Commands |-> 0]
    /\ UNCHANGED <<bridgeVars, hostVars, phase, taskVars, recvVars, execs, outbox, silent, revoked,
                   acked, sentHere, pushes, streams, restarts>>

\* The server process is restarted; all in-memory state is rebuilt.
ServerRestart ==
    /\ Fault
    /\ LoseLink
    /\ bridge' = "subscribed" /\ bus' = <<>> /\ scan' = {} /\ stranded' = {}
    /\ queue' = <<>> /\ unacked' = <<>> /\ term' = FALSE /\ orphans' = 0
    /\ swallowed' = {} /\ sentHere' = {}
    /\ Teardown
    /\ restarts' = restarts + 1 /\ streams' = 0
    /\ UNCHANGED <<issued, closed, agentVars, revoked, acked, pushes>>

--------------------------------------------------------------------------------
(***************************************************************************)
(* The agent: transport.Client.runOnce with its executor and outbox drain.   *)
(***************************************************************************)
\* Every command received is executed, in a goroutine of its own.  None is an
\* agent update, which the loop would hand to the updater: _payload_to_proto
\* (dispatcher.py:94) makes no such payload.
AgentReceive ==
    /\ link /\ down # <<>>
    /\ down' = Tail(down)
    /\ running' = [running EXCEPT ![Head(down)] = @ + 1]
    /\ execs' = [execs EXCEPT ![Head(down)] = @ + 1]
    /\ UNCHANGED <<bridgeVars, hostVars, phase, taskVars, recvVars, link, up, outbox,
                   silent, revoked, acked, sentHere, countVars>>

\* executeAndQueueResult
AgentFinish(c) ==
    /\ running[c] > 0
    /\ running' = [running EXCEPT ![c] = @ - 1]
    /\ outbox' = Append(outbox, c)
    /\ UNCHANGED <<bridgeVars, hostVars, phase, taskVars, recvVars, linkVars, execs,
                   silent, revoked, acked, sentHere, countVars>>

\* The result cannot be signed, encoded or appended to the outbox: that is logged,
\* and nobody sends anything.
AgentFinishFails(c) ==
    /\ running[c] > 0 /\ Fault
    /\ running' = [running EXCEPT ![c] = @ - 1]
    /\ silent' = silent \cup {c}
    /\ UNCHANGED <<bridgeVars, hostVars, phase, taskVars, recvVars, linkVars, execs, outbox,
                   revoked, acked, sentHere, pushes, streams, restarts>>

\* The drain goroutine: Peek, Send, and Ack as soon as Send returns.
AgentSend ==
    /\ link /\ outbox # <<>>
    /\ up' = Append(up, Head(outbox)) /\ outbox' = Tail(outbox)
    /\ UNCHANGED <<bridgeVars, hostVars, phase, taskVars, recvVars, link, down, running,
                   execs, silent, revoked, acked, sentHere, countVars>>

--------------------------------------------------------------------------------
BridgeNext ==
    \/ \E c \in Commands : Issue(c) \/ CloseRow(c) \/ BridgeReplay(c)
    \/ BridgeSelect \/ BridgeReplayEnd \/ BridgeReplayFails
    \/ BridgeForward \/ BridgeForwardFails

StreamNext ==
    \/ Connect \/ \E hb \in {0, 1} : LoadDone(hb)
    \/ LoadAborted \/ LatePull \/ LateControl \/ LateTerm
    \/ ResumeTerm \/ ResumeRecvDone \/ ResumeControl \/ ResumeCommand
    \/ NextIteration \/ CancelledAtYield \/ CancelledAtWait
    \/ RecvResult \/ RecvAck \/ RecvFails \/ RecvEnds

EnvNext ==
    \/ PushControl \/ Revoke \/ ReEnroll
    \/ LinkBreak \/ AgentSeesClose \/ AgentCrash \/ ServerRestart

AgentNext ==
    \/ AgentReceive \/ AgentSend
    \/ \E c \in Commands : AgentFinish(c) \/ AgentFinishFails(c)

Next == BridgeNext \/ StreamNext \/ EnvNext \/ AgentNext

(***************************************************************************)
(* Fairness: the event loop runs every task that is ready, the agent's Run   *)
(* loop reconnects after every error, its goroutines make progress, and a    *)
(* broken link is eventually noticed on both sides.  Users, operators and    *)
(* failures are not fair.                                                    *)
(***************************************************************************)
StreamStep ==
    \/ \E hb \in {0, 1} : LoadDone(hb)
    \/ LoadAborted \/ ResumeTerm \/ ResumeRecvDone \/ ResumeControl \/ ResumeCommand
    \/ NextIteration \/ CancelledAtYield \/ CancelledAtWait

BridgeStep ==
    \/ BridgeSelect \/ BridgeReplayEnd \/ BridgeForward
    \/ \E c \in Commands : BridgeReplay(c)

Fairness ==
    /\ WF_vars(BridgeStep) /\ WF_vars(StreamStep)
    /\ WF_vars(LatePull) /\ WF_vars(LateControl) /\ WF_vars(LateTerm)
    /\ WF_vars(Connect) /\ WF_vars(AgentSeesClose) /\ WF_vars(RecvEnds)
    /\ WF_vars(RecvResult) /\ WF_vars(RecvAck)
    /\ WF_vars(AgentReceive) /\ WF_vars(AgentSend)
    /\ \A c \in Commands : WF_vars(AgentFinish(c))

Spec == Init /\ [][Next]_vars
FairSpec == Spec /\ Fairness

--------------------------------------------------------------------------------
(***************************************************************************)
(* Properties.                                                               *)
(***************************************************************************)

\* Where a row the agent has not answered can be, in this server's lifetime.
InCustody ==
    scan \cup Elems(bus) \cup Elems(queue) \cup Elems(unacked) \cup {pull}

\* No command vanishes by accident of interleaving: once the startup query has
\* run, every open row is answered, in the bridge, queued, being sent, awaiting
\* its answer, or among the two kinds of loss the code admits (dropped by the
\* bridge, or taken by a dead pull task).  Stream's three put-backs, register's
\* drain and refill, and the replay that overlaps live events must all agree.
NothingVanishes ==
    bridge # "subscribed" =>
        issued \subseteq closed \cup acked \cup InCustody \cup stranded \cup swallowed

\* Resume support: while a stream is up, every un-acked command has been sent on
\* THIS stream, or is still going to be (or a dead task took the replayed copy).
\* A reconnect therefore never leaves a command waiting for an answer that
\* nothing on the new stream will provoke.
ResumeCoversUnacked ==
    phase # "none" =>
        Elems(unacked) \subseteq sentHere \cup Elems(queue) \cup {pull} \cup swallowed

\* The copies of a command that exist or were executed in one server lifetime
\* stay within one per accepted stream, plus one for a row both read by the
\* startup query and announced on the bus: nothing else makes the agent execute
\* a command again.
CountIn(s, c) == Cardinality({i \in DOMAIN s : s[i] = c})
Copies(c) ==
    CountIn(bus, c) + CountIn(queue, c) + CountIn(down, c) + execs[c]
      + (IF c \in scan THEN 1 ELSE 0) + (IF c = pull THEN 1 ELSE 0)
DuplicatesNeedReconnect ==
    restarts = 0 => \A c \in Commands : Copies(c) <= IF streams <= 1 THEN 2 ELSE 1 + streams

\* An orphan getter never coexists with a queued command: it would have taken it.
OrphansStarveQueue == orphans > 0 => queue = <<>>

\* Every issued command is eventually answered, unless its row is closed, the
\* bridge dropped it, a dead task took it, the agent executed it and failed to make
\* a result (then only a later stream, on which it is sent again, can help), the
\* host was terminated (the event is never cleared) or revoked, or a handler died
\* without unregistering.
Leaked == connected /\ phase = "none"
Delivered ==
    \A c \in Commands :
        c \in issued ~>
            \/ c \in closed \cup acked \cup stranded \cup swallowed \cup silent
            \/ term \/ revoked \/ Leaked

\* A terminated host's stream ends: revocation cuts off a live agent.
TerminateEndsStream == (term /\ phase # "none") ~> (phase = "none")

\* What the repository says of the program, and the code does not do.

\* recovery runbook: after a network outage, "No data loss".
NoCommandLost ==
    bridge = "forwarding" =>
        issued \subseteq closed \cup acked \cup InCustody \cup stranded

================================================================================
