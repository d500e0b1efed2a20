----------------------------- MODULE TaskLifecycle -----------------------------
(***************************************************************************)
(* From a dispatch call to the final status of its Task: the database        *)
(* sessions of Dispatcher.dispatch, ResultHandler.handle, the command        *)
(* sweeper and cancel_task, interleaved at their queries.                    *)
(*                                                                          *)
(* The database is the default one, SQLite in WAL mode.  Rows become visible *)
(* to other sessions at commit.  Queries run outside a transaction until the *)
(* session flushes its first change; from that flush to its end the session  *)
(* holds the write lock.  An assignment to a row is flushed by the session's *)
(* next query, as an UPDATE by primary key.                                  *)
(*                                                                          *)
(* A command is named by its dispatch call and its host.  Sequence numbers   *)
(* are allocated per host, so the order that ORDER BY sequence gives to      *)
(* commands or results of different hosts is arbitrary.                      *)
(***************************************************************************)
EXTENDS Naturals, FiniteSets

CONSTANTS
    Dispatches,    \* dispatch calls, each with the Task it creates first
    Hosts,
    None,          \* no row, no session, nothing to write
    MaxFaults,     \* bound: failed sweeps, failed dispatches, cancel requests
    MaxResults     \* bound: results accepted per command (redelivery repeats one)

Commands == Dispatches \X Hosts
Live     == {"pending", "running"}
Final    == {"succeeded", "partial", "failed"}
Statuses == {"queued", "expired", "cancelled"}
Results  == Commands \X {"ok", "fail"} \X (1..MaxResults)

ASSUME TaskAssumption ==
    /\ None \notin Dispatches \cup Hosts \cup Commands \cup Results
    /\ None \notin Live \cup Final \cup Statuses
    /\ Dispatches \cap Hosts = {} /\ "sweeper" \notin Dispatches \cup Hosts \cup {None}
    /\ MaxFaults \in Nat /\ MaxResults \in Nat

VARIABLES
    task,      \* committed Task rows: None | Live | Final
    run,       \* the task of the TaskRun that a dispatch's commands belong to
    cmd,       \* committed Command rows: None | queued | expired | cancelled
    keyRow,    \* the committed command that holds the idempotency key
    results,   \* committed Result rows: <<command, status, number>>
    due,       \* dispatches whose commands are past expires_at
    writer,    \* the session that holds the write lock
    cache,     \* CommandQueue._idempotency_cache: the command cached for the key
    dpc,       \* dispatch session: idle | begun | enqueue | insert | done
    keyed,     \* the dispatch call carries the idempotency key
    targets,   \* hosts the call dispatches to
    todo,      \* hosts not yet enqueued
    host,      \* the host being enqueued
    lost,      \* the session was rolled back after IntegrityError
    created,   \* commands flushed by the session, not yet committed
    keyHeld,   \* the session flushed the command that holds the key
    answer,    \* what dispatch returned: <<task, dispatched hosts>>
    hres,      \* handler session of a host: the Result it has flushed
    hwrite,    \* and the status it will write to the task
    spc,       \* sweeper session: idle | check | commit
    srows,     \* overdue commands read, not yet checked
    sexp,      \* commands it has set to EXPIRED
    swrite,    \* statuses it will write
    cancelling,\* commands read by cancel_task
    faults

dispatchVars == <<dpc, keyed, targets, todo, host, lost, created, keyHeld, answer, cache>>
handlerVars  == <<hres, hwrite>>
sweepVars    == <<spc, srows, sexp, swrite>>
vars == <<task, run, cmd, keyRow, results, due, writer, dispatchVars, handlerVars,
          sweepVars, cancelling, faults>>

TypeOK ==
    /\ task \in [Dispatches -> {None} \cup Live \cup Final]
    /\ run \in [Dispatches -> Dispatches \cup {None}]
    /\ cmd \in [Commands -> {None} \cup Statuses]
    /\ keyRow \in Commands \cup {None} /\ cache \in Commands \cup {None}
    /\ results \subseteq Results
    /\ due \subseteq Dispatches
    /\ writer \in Dispatches \cup Hosts \cup {None, "sweeper", "cancel"}
    /\ dpc \in [Dispatches -> {"idle", "begun", "enqueue", "insert", "done"}]
    /\ keyed \in [Dispatches -> BOOLEAN] /\ lost \in [Dispatches -> BOOLEAN]
    /\ targets \in [Dispatches -> SUBSET Hosts] /\ todo \in [Dispatches -> SUBSET Hosts]
    /\ host \in [Dispatches -> Hosts \cup {None}]
    /\ created \in [Dispatches -> SUBSET Hosts] /\ keyHeld \in [Dispatches -> BOOLEAN]
    /\ answer \in [Dispatches -> (Dispatches \X SUBSET Hosts) \cup {None}]
    /\ hres \in [Hosts -> Results \cup {None}]
    /\ hwrite \in [Hosts -> Final \cup {None}]
    /\ spc \in {"idle", "check", "commit"}
    /\ srows \subseteq Commands /\ sexp \subseteq Commands
    /\ swrite \in [Dispatches -> Live \cup Final \cup {None}]
    /\ cancelling \subseteq Commands /\ faults \in 0..MaxFaults

Init ==
    /\ task = [d \in Dispatches |-> None] /\ run = [d \in Dispatches |-> None]
    /\ cmd = [c \in Commands |-> None] /\ keyRow = None /\ results = {} /\ due = {}
    /\ writer = None /\ cache = None
    /\ dpc = [d \in Dispatches |-> "idle"] /\ keyed = [d \in Dispatches |-> FALSE]
    /\ targets = [d \in Dispatches |-> {}] /\ todo = [d \in Dispatches |-> {}]
    /\ host = [d \in Dispatches |-> None] /\ lost = [d \in Dispatches |-> FALSE]
    /\ created = [d \in Dispatches |-> {}] /\ keyHeld = [d \in Dispatches |-> FALSE]
    /\ answer = [d \in Dispatches |-> None]
    /\ hres = [h \in Hosts |-> None] /\ hwrite = [h \in Hosts |-> None]
    /\ spc = "idle" /\ srows = {} /\ sexp = {} /\ swrite = [d \in Dispatches |-> None]
    /\ cancelling = {} /\ faults = 0

Fault == faults < MaxFaults /\ faults' = faults + 1

\* A flush needs the write lock and keeps it to the end of the transaction.
Lock(s)   == writer \in {None, s} /\ writer' = s
Unlock(s) == writer' = IF writer = s THEN None ELSE writer

--------------------------------------------------------------------------------
(***************************************************************************)
(* Dispatcher.dispatch, for a call that RBAC and approval let through, and   *)
(* the commit of its caller.                                                 *)
(***************************************************************************)
\* Steps 1-3.5: S is what RBAC left of the targets; the Task row is flushed.
DispatchBegin(d, S, k) ==
    /\ dpc[d] = "idle"
    /\ Lock(d)
    /\ dpc' = [dpc EXCEPT ![d] = "begun"]
    /\ keyed' = [keyed EXCEPT ![d] = k]
    /\ targets' = [targets EXCEPT ![d] = S] /\ todo' = [todo EXCEPT ![d] = S]
    /\ UNCHANGED <<task, run, cmd, keyRow, results, due, host, lost, created, keyHeld,
                   answer, cache, handlerVars, sweepVars, cancelling, faults>>

\* No host survived RBAC: the Task is committed without a TaskRun.
DispatchNobody(d) ==
    /\ dpc[d] = "begun" /\ targets[d] = {}
    /\ dpc' = [dpc EXCEPT ![d] = "done"]
    /\ task' = [task EXCEPT ![d] = "pending"]
    /\ answer' = [answer EXCEPT ![d] = <<d, {}>>]
    /\ Unlock(d)
    /\ UNCHANGED <<run, cmd, keyRow, results, due, keyed, targets, todo, host, lost, created,
                   keyHeld, cache, handlerVars, sweepVars, cancelling, faults>>

\* Rows a session sees: what is committed and what it flushed itself.
Sees(d, c) == cmd[c] # None \/ (c[1] = d /\ c[2] \in created[d])

\* Mutant: the cached command's TaskRun is used without looking the row up.
DispatchRunTrustsCache(d) ==
    /\ dpc[d] = "begun" /\ targets[d] # {}
    /\ dpc' = [dpc EXCEPT ![d] = "enqueue"]
    /\ run' = [run EXCEPT ![d] = IF keyed[d] /\ cache # None THEN run[cache[1]] ELSE d]
    /\ UNCHANGED <<task, cmd, keyRow, results, due, writer, keyed, targets, todo, host, lost,
                   created, keyHeld, answer, cache, handlerVars, sweepVars, cancelling, faults>>

\* Steps 5 and 6: resume the TaskRun of the cached command, or create one.
DispatchRun(d) ==
    /\ dpc[d] = "begun" /\ targets[d] # {}
    /\ dpc' = [dpc EXCEPT ![d] = "enqueue"]
    /\ run' = [run EXCEPT ![d] =
                  IF keyed[d] /\ cache # None /\ Sees(d, cache) THEN run[cache[1]] ELSE d]
    /\ UNCHANGED <<task, cmd, keyRow, results, due, writer, keyed, targets, todo, host, lost,
                   created, keyHeld, answer, cache, handlerVars, sweepVars, cancelling, faults>>

\* CommandQueue.enqueue, up to its lookups: the cached command, then the row
\* with the key; the new command is dropped when either is found.
EnqueueLookup(d, h) ==
    LET hit   == cache # None /\ Sees(d, cache)
        row   == IF keyHeld[d] THEN <<d, CHOOSE x \in created[d] : TRUE>> ELSE keyRow
        found == keyed[d] /\ (hit \/ row # None)
    IN  /\ dpc[d] = "enqueue" /\ h \in todo[d]
        /\ todo' = [todo EXCEPT ![d] = @ \ {h}]
        /\ host' = [host EXCEPT ![d] = h]
        /\ dpc' = [dpc EXCEPT ![d] = IF found THEN "enqueue" ELSE "insert"]
        /\ cache' = IF keyed[d] /\ ~hit THEN row ELSE cache
        /\ UNCHANGED <<task, run, cmd, keyRow, results, due, writer, keyed, targets, lost,
                       created, keyHeld, answer, handlerVars, sweepVars, cancelling, faults>>

\* Mutant: the key is neither stored with the command nor cached.
EnqueueInsertForgetsKey(d) ==
    /\ dpc[d] = "insert"
    /\ dpc' = [dpc EXCEPT ![d] = "enqueue"]
    /\ created' = [created EXCEPT ![d] = @ \cup {host[d]}]
    /\ Lock(d)
    /\ UNCHANGED <<task, run, cmd, keyRow, results, due, keyed, targets, todo, host, lost,
                   keyHeld, answer, cache, handlerVars, sweepVars, cancelling, faults>>

\* The flush of the new command.  If the key has been committed since the lookup,
\* IntegrityError rolls the whole session back and the existing command is
\* returned instead.
EnqueueInsert(d) ==
    /\ dpc[d] = "insert"
    /\ dpc' = [dpc EXCEPT ![d] = "enqueue"]
    /\ IF keyed[d] /\ keyRow # None
       THEN /\ lost' = [lost EXCEPT ![d] = TRUE]
            /\ created' = [created EXCEPT ![d] = {}]
            /\ cache' = keyRow
            /\ Unlock(d)
            /\ UNCHANGED keyHeld
       ELSE /\ created' = [created EXCEPT ![d] = @ \cup {host[d]}]
            /\ keyHeld' = [keyHeld EXCEPT ![d] = keyed[d]]
            /\ cache' = IF keyed[d] THEN <<d, host[d]>> ELSE cache
            /\ Lock(d)
            /\ UNCHANGED lost
    /\ UNCHANGED <<task, run, cmd, keyRow, results, due, keyed, targets, todo, host, answer,
                   handlerVars, sweepVars, cancelling, faults>>

\* Step 12 and the caller's commit; command.issued events go out.
DispatchCommit(d) ==
    /\ dpc[d] = "enqueue" /\ todo[d] = {}
    /\ dpc' = [dpc EXCEPT ![d] = "done"]
    /\ task' = [task EXCEPT ![d] = IF lost[d] THEN None ELSE "pending"]
    /\ cmd' = [c \in Commands |-> IF c[1] = d /\ c[2] \in created[d] THEN "queued" ELSE cmd[c]]
    /\ keyRow' = IF keyHeld[d] THEN <<d, CHOOSE x \in created[d] : TRUE>> ELSE keyRow
    /\ created' = [created EXCEPT ![d] = {}] /\ keyHeld' = [keyHeld EXCEPT ![d] = FALSE]
    /\ answer' = [answer EXCEPT ![d] = <<run[d], targets[d]>>]
    /\ Unlock(d)
    /\ UNCHANGED <<run, results, due, keyed, targets, todo, host, lost, cache, handlerVars,
                   sweepVars, cancelling, faults>>

\* Signing, auditing or the connection fails: nothing of the call is committed,
\* but the cache may still name its command.
DispatchFails(d) ==
    /\ dpc[d] \in {"begun", "enqueue", "insert"} /\ Fault
    /\ dpc' = [dpc EXCEPT ![d] = "done"]
    /\ created' = [created EXCEPT ![d] = {}] /\ keyHeld' = [keyHeld EXCEPT ![d] = FALSE]
    /\ Unlock(d)
    /\ UNCHANGED <<task, run, cmd, keyRow, results, due, keyed, targets, todo, host, lost,
                   answer, cache, handlerVars, sweepVars, cancelling>>

--------------------------------------------------------------------------------
(***************************************************************************)
(* ResultHandler.handle, from the insert of an acceptable result.            *)
(***************************************************************************)
\* Commands and results of the (single) TaskRun of a task.
RunCommands(t) == {c \in Commands : cmd[c] # None /\ run[c[1]] = t}
RunResults(t, rs) == {r \in rs : r[1] \in RunCommands(t)}

\* The Result with the highest sequence: of each host only the newest counts,
\* between hosts any may be the highest.
Newest(rs) == {r \in rs : \A q \in rs : q[1][2] = r[1][2] => q[3] <= r[3]}

\* The status rolled up from the one status there is, one per TaskRun.
Rollup(status) == IF status = "ok" THEN "succeeded" ELSE "failed"

\* The Result row is flushed, the Task read and, if it is live, the roll-up made.
HandleResult(c, status) ==
    LET h == c[2]
        n == 1 + Cardinality({r \in results : r[1] = c})
        r == <<c, status, n>>
        t == run[c[1]]
    IN  /\ cmd[c] # None /\ hres[h] = None /\ n <= MaxResults
        /\ Lock(h)
        /\ hres' = [hres EXCEPT ![h] = r]
        /\ IF task[t] \in Live
           THEN \E q \in Newest(RunResults(t, results \cup {r})) :
                    hwrite' = [hwrite EXCEPT ![h] = Rollup(q[2])]
           ELSE UNCHANGED hwrite
        /\ UNCHANGED <<task, run, cmd, keyRow, results, due, dispatchVars, sweepVars,
                       cancelling, faults>>

HandleCommit(h) ==
    /\ hres[h] # None
    /\ results' = results \cup {hres[h]}
    /\ task' = IF hwrite[h] = None THEN task
               ELSE [task EXCEPT ![run[hres[h][1][1]]] = hwrite[h]]
    /\ hres' = [hres EXCEPT ![h] = None] /\ hwrite' = [hwrite EXCEPT ![h] = None]
    /\ Unlock(h)
    /\ UNCHANGED <<run, cmd, keyRow, due, dispatchVars, sweepVars, cancelling, faults>>

--------------------------------------------------------------------------------
(***************************************************************************)
(* _sweep_once and cancel_task.                                              *)
(***************************************************************************)
Deadline(d) ==
    /\ dpc[d] = "done" /\ d \notin due
    /\ due' = due \cup {d}
    /\ UNCHANGED <<task, run, cmd, keyRow, results, writer, dispatchVars, handlerVars,
                   sweepVars, cancelling, faults>>

Overdue == {c \in Commands : cmd[c] = "queued" /\ c[1] \in due}
Answered(c) == \E r \in results : r[1] = c

\* The first query; commands that have a Result stay QUEUED and are read again
\* by every sweep, so one that only finds those changes nothing.
SweepSelect ==
    /\ spc = "idle" /\ \E c \in Overdue : ~Answered(c)
    /\ spc' = "check" /\ srows' = Overdue
    /\ UNCHANGED <<task, run, cmd, keyRow, results, due, writer, dispatchVars, handlerVars,
                   sexp, swrite, cancelling, faults>>

\* Mutant: autoflush is off; the sweep writes at its commit.
AutoflushOff == UNCHANGED writer

\* The next query of the sweep flushes what it has set to EXPIRED so far.
Autoflush == IF sexp = {} THEN UNCHANGED writer ELSE Lock("sweeper")

SweepCheck(c) ==
    /\ spc = "check" /\ c \in srows
    /\ Autoflush
    /\ srows' = srows \ {c}
    /\ sexp' = IF Answered(c) THEN sexp ELSE sexp \cup {c}
    /\ UNCHANGED <<task, run, cmd, keyRow, results, due, dispatchVars, handlerVars, spc,
                   swrite, cancelling, faults>>

\* What the sweep makes of a live task: its newest Result if there is one, else
\* a timeout if the run's newest command is EXPIRED, else still running.
Expired(c) == c \in sexp \/ (cmd[c] = "expired")

\* Mutant: an expired command is not a timeout.
SweepStatusResultsOnly(t) ==
    LET rs == RunResults(t, results)
    IN  IF rs # {} THEN {Rollup(r[2]) : r \in Newest(rs)} ELSE {"running"}

SweepStatus(t) ==
    LET rs == RunResults(t, results)
    IN  IF rs # {} THEN {Rollup(r[2]) : r \in Newest(rs)}
        ELSE {IF Expired(c) THEN "failed" ELSE "running" : c \in RunCommands(t)}

SweepRollup ==
    /\ spc = "check" /\ srows = {}
    /\ Autoflush
    /\ spc' = "commit"
    /\ \E w \in [Dispatches -> Live \cup Final \cup {None}] :
          /\ \A t \in Dispatches :
                IF task[t] \in Live /\ \E c \in sexp : run[c[1]] = t
                THEN w[t] \in SweepStatus(t)
                ELSE w[t] = None
          /\ swrite' = w
    /\ UNCHANGED <<task, run, cmd, keyRow, results, due, dispatchVars, handlerVars, srows,
                   sexp, cancelling, faults>>

SweepEnd ==
    /\ spc' = "idle" /\ srows' = {} /\ sexp' = {}
    /\ swrite' = [d \in Dispatches |-> None]
    /\ Unlock("sweeper")

SweepCommit ==
    /\ spc = "commit"
    /\ cmd' = [c \in Commands |-> IF c \in sexp THEN "expired" ELSE cmd[c]]
    /\ task' = [t \in Dispatches |-> IF swrite[t] = None THEN task[t] ELSE swrite[t]]
    /\ SweepEnd
    /\ UNCHANGED <<run, keyRow, results, due, dispatchVars, handlerVars, cancelling, faults>>

\* command_sweeper.tick_failed: the session is rolled back.
SweepFails ==
    /\ spc # "idle" /\ Fault
    /\ SweepEnd
    /\ UNCHANGED <<task, run, cmd, keyRow, results, due, dispatchVars, handlerVars, cancelling>>

\* cancel_task reads the live commands of the task's run, then commits CANCELLED.
\* The Task itself is left as it is.
CancelSelect(t) ==
    /\ cancelling = {} /\ Fault
    /\ cancelling' = {c \in RunCommands(t) : cmd[c] = "queued"}
    /\ cancelling' # {}
    /\ UNCHANGED <<task, run, cmd, keyRow, results, due, writer, dispatchVars, handlerVars,
                   sweepVars>>

CancelCommit ==
    /\ cancelling # {} /\ writer = None
    /\ cmd' = [c \in Commands |-> IF c \in cancelling THEN "cancelled" ELSE cmd[c]]
    /\ cancelling' = {}
    /\ UNCHANGED <<task, run, keyRow, results, due, writer, dispatchVars, handlerVars,
                   sweepVars, faults>>

--------------------------------------------------------------------------------
DispatchStep(d) ==
    \/ DispatchNobody(d) \/ DispatchRun(d) \/ EnqueueInsert(d) \/ DispatchCommit(d)
    \/ \E h \in Hosts : EnqueueLookup(d, h)

SweepStep ==
    \/ SweepSelect \/ SweepRollup \/ SweepCommit
    \/ \E c \in Commands : SweepCheck(c)

Next ==
    \/ \E d \in Dispatches :
          \/ \E S \in SUBSET Hosts, k \in BOOLEAN : DispatchBegin(d, S, k)
          \/ DispatchStep(d) \/ DispatchFails(d) \/ Deadline(d) \/ CancelSelect(d)
    \/ \E c \in Commands, status \in {"ok", "fail"} : HandleResult(c, status)
    \/ \E h \in Hosts : HandleCommit(h)
    \/ SweepStep \/ SweepFails \/ CancelCommit

\* The event loop runs every session to its end, time passes, and the sweeper
\* ticks.  Agents need not answer.
Fairness ==
    /\ \A d \in Dispatches : WF_vars(DispatchStep(d)) /\ WF_vars(Deadline(d))
    /\ \A h \in Hosts : WF_vars(HandleCommit(h))
    /\ WF_vars(SweepStep) /\ WF_vars(CancelCommit)

Spec == Init /\ [][Next]_vars
FairSpec == Spec /\ Fairness

--------------------------------------------------------------------------------
(***************************************************************************)
(* Properties.                                                               *)
(***************************************************************************)

\* A status a task is given agrees with the rows at that moment: it succeeds
\* only with an ok Result of its run, and fails only with a failed Result or, when
\* its run has none at all, with an EXPIRED (or since cancelled) command.  A sweep
\* that decided on rows a handler has overtaken would break this.
FinalStatusJustified ==
    [][\A t \in Dispatches : task'[t] # task[t] =>
          LET rs == RunResults(t, results)'
          IN  /\ task'[t] = "succeeded" => \E r \in rs : r[2] = "ok"
              /\ task'[t] = "failed" =>
                    \/ \E r \in rs : r[2] = "fail"
                    \/ /\ rs = {}
                       /\ \E c \in RunCommands(t) : cmd'[c] \in {"expired", "cancelled"}]_vars

\* The idempotency key names at most one command: neither the cache, the lookup
\* nor a race of two calls issues a second one.
OneCommandPerKey ==
    Cardinality({c \in Commands : keyed[c[1]] /\ cmd[c] # None}) <= 1

\* The task id a dispatch returns names a Task, also when the call found the
\* idempotency key of an earlier call, even of one that was rolled back: the
\* rollback after IntegrityError, which loses the call's own Task, never happens.
AnswerNamesTask ==
    \A d \in Dispatches : answer[d] # None => task[answer[d][1]] # None

\* A task whose commands were committed gets a final status, by a Result or by
\* the sweeper, unless they are cancelled (cancel_task leaves the Task as it is).
TaskSettles ==
    \A t \in Dispatches :
        (task[t] \in Live /\ RunCommands(t) # {}) ~>
            \/ task[t] \in Final
            \/ \E c \in RunCommands(t) : cmd[c] = "cancelled"

================================================================================
