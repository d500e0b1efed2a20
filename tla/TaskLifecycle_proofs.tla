------------------------- MODULE TaskLifecycle_proofs -------------------------
(***************************************************************************)
(* TaskLifecycle for any dispatch calls, hosts and results.  The argument is *)
(* the write lock: a dispatch holds it from its first flush to its end, a    *)
(* handler from the insert of its result, a sweep from its first EXPIRED.    *)
(***************************************************************************)
EXTENDS TaskLifecycle, FiniteSetTheorems, TLAPS

Types == TypeOK /\ IsFiniteSet(results)

Active == {"begun", "enqueue", "insert"}

LockInv ==
    /\ \A d \in Dispatches : dpc[d] \in Active <=> writer = d
    /\ \A h \in Hosts : hres[h] # None => writer = h
    /\ spc = "commit" /\ sexp # {} => writer = "sweeper"

\* The session that inserts a command with the key knows that there is none.
SessionKey(d) ==
    /\ ~lost[d]
    /\ dpc[d] \notin {"enqueue", "insert"} => created[d] = {} /\ ~keyHeld[d]
    /\ keyed[d] /\ created[d] # {} => keyHeld[d]
    /\ keyHeld[d] => /\ keyed[d] /\ keyRow = None /\ dpc[d] = "enqueue"
                     /\ \E x \in Hosts : created[d] = {x}
    /\ dpc[d] = "insert" => /\ host[d] \in Hosts
                            /\ keyed[d] => keyRow = None /\ created[d] = {}

CommandKey(c) ==
    cmd[c] # None => dpc[c[1]] = "done" /\ (keyed[c[1]] => c = keyRow)

KeyInv ==
    /\ \A d \in Dispatches : SessionKey(d)
    /\ \A c \in Commands : CommandKey(c)

\* The TaskRun of a call belongs to its own task, or to one that is committed.
RunInv ==
    /\ \A c \in Commands : cmd[c] # None => run[c[1]] \in Dispatches /\ task[run[c[1]]] # None
    /\ \A d \in Dispatches :
          /\ dpc[d] \in {"enqueue", "insert"} =>
                run[d] \in Dispatches /\ (run[d] = d \/ task[run[d]] # None)
          /\ answer[d] # None => answer[d][1] \in Dispatches /\ task[answer[d][1]] # None

\* What a handler or a sweep will write still agrees with the rows.
HandlerInv ==
    \A h \in Hosts :
        /\ hres[h] = None => hwrite[h] = None
        /\ hwrite[h] # None =>
              \E q \in RunResults(run[hres[h][1][1]], results \cup {hres[h]}) :
                  hwrite[h] = Rollup(q[2])

SweepInv ==
    /\ \A c \in srows \cup sexp \cup cancelling : cmd[c] # None
    /\ spc = "commit" =>
          \A t \in Dispatches : swrite[t] # None => sexp # {} /\ swrite[t] \in SweepStatus(t)

IInv == Types /\ LockInv /\ KeyInv /\ RunInv /\ HandlerInv /\ SweepInv

--------------------------------------------------------------------------------
(***************************************************************************)
(* Types.                                                                    *)
(***************************************************************************)
\* The command that holds the key, as its session sees it.
Held(d) == <<d, CHOOSE x \in created[d] : TRUE>>

LEMMA HeldIs ==
  ASSUME NEW d \in Dispatches, KeyInv, keyHeld[d]
  PROVE  /\ Held(d) \in Commands /\ Held(d) # None
         /\ created[d] = {Held(d)[2]} /\ Held(d)[1] = d
<1>1. PICK x \in Hosts : created[d] = {x}
  BY DEF KeyInv, SessionKey
<1>2. (CHOOSE y \in created[d] : TRUE) = x
  BY <1>1
<1>3. Held(d) = <<d, x>>
  BY <1>2 DEF Held
<1> QED BY <1>1, <1>3, TaskAssumption DEF Commands

\* A result that a handler inserts is one of Results.
LEMMA ResultIs ==
  ASSUME Types, NEW c \in Commands, NEW status \in {"ok", "fail"},
         1 + Cardinality({r \in results : r[1] = c}) <= MaxResults
  PROVE  <<c, status, 1 + Cardinality({r \in results : r[1] = c})>> \in Results
<1>1. {r \in results : r[1] = c} \in SUBSET results /\ IsFiniteSet(results)
  BY DEF Types
<1>2. IsFiniteSet({r \in results : r[1] = c})
  BY <1>1, FS_Subset
<1>3. Cardinality({r \in results : r[1] = c}) \in Nat
  BY <1>2, FS_CardinalityType
<1>4. 1 + Cardinality({r \in results : r[1] = c}) \in 1..MaxResults
  BY <1>3, TaskAssumption
<1> QED BY <1>4 DEF Results

LEMMA TypesStep ==
  ASSUME Types, KeyInv, RunInv, [Next]_vars
  PROVE  Types'
<1> USE DEF Types, TypeOK, Lock, Unlock, dispatchVars, handlerVars, sweepVars
<1>1. CASE UNCHANGED vars
  BY <1>1 DEF vars
<1>2. ASSUME NEW d \in Dispatches, NEW S \in SUBSET Hosts, NEW k \in BOOLEAN, DispatchBegin(d, S, k)
      PROVE  Types'
  BY <1>2 DEF DispatchBegin
<1>3. ASSUME NEW d \in Dispatches, DispatchNobody(d) PROVE Types'
  BY <1>3 DEF DispatchNobody, Live
<1>4. ASSUME NEW d \in Dispatches, DispatchRun(d) PROVE Types'
  <2>1. cache # None => run[cache[1]] \in Dispatches \cup {None}
    BY DEF Commands
  <2>2. PICK x \in Dispatches \cup {None} : run' = [run EXCEPT ![d] = x]
    BY <1>4, <2>1 DEF DispatchRun
  <2> QED BY <1>4, <2>2 DEF DispatchRun
<1>5. ASSUME NEW d \in Dispatches, NEW h \in Hosts, EnqueueLookup(d, h) PROVE Types'
  <2>1. (IF keyHeld[d] THEN Held(d) ELSE keyRow) \in Commands \cup {None}
    BY HeldIs
  <2>2. cache' \in Commands \cup {None}
    BY <1>5, <2>1 DEF EnqueueLookup, Held
  <2>3. /\ todo' = [todo EXCEPT ![d] = @ \ {h}] /\ host' = [host EXCEPT ![d] = h]
        /\ \E p \in {"enqueue", "insert"} : dpc' = [dpc EXCEPT ![d] = p]
        /\ UNCHANGED <<task, run, cmd, keyRow, results, due, writer, keyed, targets, lost,
                       created, keyHeld, answer, handlerVars, sweepVars, cancelling, faults>>
    BY <1>5 DEF EnqueueLookup
  <2> QED BY <2>2, <2>3
<1>6. ASSUME NEW d \in Dispatches, EnqueueInsert(d) PROVE Types'
  <2>1. host[d] \in Hosts /\ <<d, host[d]>> \in Commands
    BY <1>6 DEF EnqueueInsert, KeyInv, SessionKey, Commands
  <2>2. cache' \in Commands \cup {None} /\ writer' \in Dispatches \cup {None} \cup {writer}
    BY <1>6, <2>1 DEF EnqueueInsert
  <2>3. created' \in [Dispatches -> SUBSET Hosts]
    BY SMTT(30), <1>6, <2>1 DEF EnqueueInsert
  <2>4. keyHeld' \in [Dispatches -> BOOLEAN] /\ lost' \in [Dispatches -> BOOLEAN]
    BY ZenonT(30), <1>6 DEF EnqueueInsert
  <2>5. /\ dpc' = [dpc EXCEPT ![d] = "enqueue"]
        /\ UNCHANGED <<task, run, cmd, keyRow, results, due, keyed, targets, todo, host, answer,
                       handlerVars, sweepVars, cancelling, faults>>
    BY <1>6 DEF EnqueueInsert
  <2> QED BY <2>2, <2>3, <2>4, <2>5
<1>7. ASSUME NEW d \in Dispatches, DispatchCommit(d) PROVE Types'
  <2>1. keyRow' \in Commands \cup {None}
    BY <1>7, HeldIs DEF DispatchCommit, Held
  <2>2. answer' \in [Dispatches -> (Dispatches \X SUBSET Hosts) \cup {None}]
    BY <1>7 DEF DispatchCommit, RunInv
  <2>3. cmd' \in [Commands -> {None} \cup Statuses] /\ task' \in [Dispatches -> {None} \cup Live \cup Final]
    BY <1>7 DEF DispatchCommit, Statuses, Live
  <2>4. created' \in [Dispatches -> SUBSET Hosts] /\ keyHeld' \in [Dispatches -> BOOLEAN]
    BY <1>7 DEF DispatchCommit
  <2>5. /\ dpc' = [dpc EXCEPT ![d] = "done"] /\ writer' \in {None, writer}
        /\ UNCHANGED <<run, results, due, keyed, targets, todo, host, lost, cache, handlerVars,
                       sweepVars, cancelling, faults>>
    BY <1>7 DEF DispatchCommit
  <2> QED BY <2>1, <2>2, <2>3, <2>4, <2>5
<1>8. ASSUME NEW d \in Dispatches, DispatchFails(d) \/ Deadline(d) \/ CancelSelect(d) PROVE Types'
  <2>1. CASE DispatchFails(d)
    <3>1. faults' \in 0..MaxFaults
      BY <2>1, TaskAssumption DEF DispatchFails, Fault
    <3>2. created' \in [Dispatches -> SUBSET Hosts] /\ keyHeld' \in [Dispatches -> BOOLEAN]
      BY <2>1 DEF DispatchFails
    <3> QED BY <2>1, <3>1, <3>2 DEF DispatchFails
  <2>2. CASE Deadline(d)
    BY <2>2 DEF Deadline
  <2>3. CASE CancelSelect(d)
    <3>1. faults' \in 0..MaxFaults
      BY <2>3, TaskAssumption DEF CancelSelect, Fault
    <3>2. cancelling' \subseteq Commands
      BY <2>3 DEF CancelSelect, RunCommands
    <3> QED BY <2>3, <3>1, <3>2 DEF CancelSelect
  <2> QED BY <1>8, <2>1, <2>2, <2>3
<1>9. ASSUME NEW c \in Commands, NEW status \in {"ok", "fail"}, HandleResult(c, status) PROVE Types'
  <2>1. PICK r \in Results : hres' = [hres EXCEPT ![c[2]] = r]
    BY <1>9, ResultIs DEF HandleResult
  <2>2. UNCHANGED hwrite \/ \E x \in Final : hwrite' = [hwrite EXCEPT ![c[2]] = x]
    BY <1>9 DEF HandleResult, Rollup, Final
  <2>3. c[2] \in Hosts
    BY DEF Commands
  <2>4. hwrite' \in [Hosts -> Final \cup {None}]
    BY <2>2, <2>3
  <2>5. /\ writer' \in Hosts
        /\ UNCHANGED <<task, run, cmd, keyRow, results, due, dispatchVars, sweepVars,
                       cancelling, faults>>
    BY <1>9, <2>3 DEF HandleResult
  <2> QED BY <2>1, <2>3, <2>4, <2>5
<1>10. ASSUME NEW h \in Hosts, HandleCommit(h) PROVE Types'
  <2>1. hres[h] \in Results
    BY <1>10 DEF HandleCommit
  <2>2. results' \subseteq Results /\ IsFiniteSet(results')
    BY ZenonT(30), <1>10, <2>1, FS_AddElement DEF HandleCommit
  <2>3. task' \in [Dispatches -> {None} \cup Live \cup Final]
    BY <1>10 DEF HandleCommit
  <2> QED BY <1>10, <2>2, <2>3 DEF HandleCommit
<1>11. CASE SweepSelect
  BY <1>11 DEF SweepSelect, Overdue
<1>12. ASSUME NEW c \in Commands, SweepCheck(c) PROVE Types'
  BY <1>12 DEF SweepCheck, Autoflush
<1>13. CASE SweepRollup
  BY <1>13 DEF SweepRollup, Autoflush
<1>14. CASE SweepCommit
  <2>1. cmd' \in [Commands -> {None} \cup Statuses] /\ task' \in [Dispatches -> {None} \cup Live \cup Final]
    BY <1>14 DEF SweepCommit, Statuses
  <2> QED BY <1>14, <2>1 DEF SweepCommit, SweepEnd
<1>15. CASE SweepFails
  BY <1>15, TaskAssumption DEF SweepFails, SweepEnd, Fault
<1>16. CASE CancelCommit
  <2>1. cmd' \in [Commands -> {None} \cup Statuses]
    BY <1>16 DEF CancelCommit, Statuses
  <2> QED BY <1>16, <2>1 DEF CancelCommit
<1> HIDE DEF Types
<1> QED BY <1>1, <1>2, <1>3, <1>4, <1>5, <1>6, <1>7, <1>8, <1>9, <1>10, <1>11, <1>12, <1>13, <1>14,
        <1>15, <1>16 DEF Next, DispatchStep, SweepStep

--------------------------------------------------------------------------------
(***************************************************************************)
(* The write lock.                                                           *)
(***************************************************************************)
LEMMA LockInvStep ==
  ASSUME Types, LockInv, KeyInv, [Next]_vars
  PROVE  LockInv'
<1> USE TaskAssumption DEF Types, TypeOK, LockInv, Active, Lock, Unlock, dispatchVars, handlerVars, sweepVars
<1>1. CASE UNCHANGED vars
  BY <1>1 DEF vars
<1>2. ASSUME NEW d \in Dispatches, NEW S \in SUBSET Hosts, NEW k \in BOOLEAN, DispatchBegin(d, S, k)
      PROVE  LockInv'
  BY <1>2 DEF DispatchBegin
<1>3. ASSUME NEW d \in Dispatches, DispatchNobody(d) PROVE LockInv'
  BY <1>3 DEF DispatchNobody
<1>4. ASSUME NEW d \in Dispatches, DispatchRun(d) PROVE LockInv'
  <2>1. dpc' = [dpc EXCEPT ![d] = "enqueue"] /\ dpc[d] = "begun" /\ UNCHANGED <<writer, hres, spc, sexp>>
    BY <1>4 DEF DispatchRun
  <2> QED BY <2>1
<1>5. ASSUME NEW d \in Dispatches, NEW h \in Hosts, EnqueueLookup(d, h) PROVE LockInv'
  <2>1. /\ \E p \in {"enqueue", "insert"} : dpc' = [dpc EXCEPT ![d] = p]
        /\ dpc[d] = "enqueue" /\ UNCHANGED <<writer, hres, spc, sexp>>
    BY <1>5 DEF EnqueueLookup
  <2> QED BY <2>1
<1>6. ASSUME NEW d \in Dispatches, EnqueueInsert(d) PROVE LockInv'
  <2>1. /\ dpc' = [dpc EXCEPT ![d] = "enqueue"] /\ dpc[d] = "insert" /\ writer' = d
        /\ UNCHANGED <<hres, spc, sexp>>
    BY <1>6 DEF EnqueueInsert, KeyInv, SessionKey
  <2> QED BY <2>1
<1>7. ASSUME NEW d \in Dispatches, DispatchCommit(d) PROVE LockInv'
  <2>1. /\ dpc' = [dpc EXCEPT ![d] = "done"] /\ dpc[d] = "enqueue" /\ Unlock(d)
        /\ UNCHANGED <<hres, spc, sexp>>
    BY <1>7 DEF DispatchCommit
  <2> QED BY <2>1
<1>8. ASSUME NEW d \in Dispatches, DispatchFails(d) \/ Deadline(d) \/ CancelSelect(d) PROVE LockInv'
  BY <1>8 DEF DispatchFails, Deadline, CancelSelect
<1>9. ASSUME NEW c \in Commands, NEW status \in {"ok", "fail"}, HandleResult(c, status) PROVE LockInv'
  <2>1. c[2] \in Hosts
    BY DEF Commands
  <2>2. /\ writer \in {None, c[2]} /\ writer' = c[2] /\ UNCHANGED <<dpc, spc, sexp>>
        /\ \A h \in Hosts : h # c[2] => hres'[h] = hres[h]
    BY <1>9 DEF HandleResult
  <2> QED BY <2>1, <2>2
<1>10. ASSUME NEW h \in Hosts, HandleCommit(h) PROVE LockInv'
  BY <1>10 DEF HandleCommit
<1>11. CASE SweepSelect
  BY <1>11 DEF SweepSelect
<1>12. ASSUME NEW c \in Commands, SweepCheck(c) PROVE LockInv'
  BY <1>12 DEF SweepCheck, Autoflush
<1>13. CASE SweepRollup
  BY <1>13 DEF SweepRollup, Autoflush
<1>14. CASE SweepCommit \/ SweepFails
  BY <1>14 DEF SweepCommit, SweepFails, SweepEnd
<1>16. CASE CancelCommit
  BY <1>16 DEF CancelCommit
<1> HIDE DEF LockInv
<1> QED BY <1>1, <1>2, <1>3, <1>4, <1>5, <1>6, <1>7, <1>8, <1>9, <1>10, <1>11, <1>12, <1>13, <1>14,
        <1>16 DEF Next, DispatchStep, SweepStep

--------------------------------------------------------------------------------
(***************************************************************************)
(* The idempotency key.                                                      *)
(***************************************************************************)
\* A step that leaves the key, the sessions and the set of commands alone.
LEMMA KeyInvFrame ==
  ASSUME KeyInv, UNCHANGED <<lost, dpc, created, keyHeld, keyed, keyRow, host>>,
         \A c \in Commands : cmd'[c] # None => cmd[c] # None
  PROVE  KeyInv'
BY DEF KeyInv, SessionKey, CommandKey

\* A step of session d, which leaves the committed rows and the key alone.
LEMMA KeyInvSession ==
  ASSUME KeyInv, NEW d \in Dispatches, UNCHANGED <<cmd, keyRow>>, dpc[d] # "done",
         \A e \in Dispatches \ {d} :
             /\ lost'[e] = lost[e] /\ dpc'[e] = dpc[e] /\ created'[e] = created[e]
             /\ keyHeld'[e] = keyHeld[e] /\ keyed'[e] = keyed[e] /\ host'[e] = host[e],
         SessionKey(d)'
  PROVE  KeyInv'
<1>1. ASSUME NEW e \in Dispatches PROVE SessionKey(e)'
  <2>1. CASE e = d
    BY <2>1
  <2>2. CASE e # d
    BY <2>2 DEF KeyInv, SessionKey
  <2> QED BY <2>1, <2>2
<1>2. ASSUME NEW c \in Commands, cmd[c] # None PROVE dpc'[c[1]] = "done" /\ (keyed'[c[1]] => c = keyRow')
  <2>1. c[1] \in Dispatches /\ dpc[c[1]] = "done" /\ (keyed[c[1]] => c = keyRow)
    BY <1>2 DEF KeyInv, CommandKey, Commands
  <2>2. c[1] \in Dispatches \ {d}
    BY <2>1
  <2> QED BY <2>1, <2>2
<1> QED BY <1>1, <1>2 DEF KeyInv, CommandKey

LEMMA KeyInvStep ==
  ASSUME Types, LockInv, KeyInv, SweepInv, [Next]_vars
  PROVE  KeyInv'
<1> USE DEF Types, TypeOK, Active, dispatchVars, handlerVars, sweepVars
<1>1. CASE UNCHANGED vars
  BY <1>1, KeyInvFrame DEF vars
<1>2. ASSUME NEW d \in Dispatches, NEW S \in SUBSET Hosts, NEW k \in BOOLEAN, DispatchBegin(d, S, k)
      PROVE  KeyInv'
  <2>1. SessionKey(d)'
    BY <1>2 DEF DispatchBegin, KeyInv, SessionKey
  <2> QED BY <1>2, <2>1, KeyInvSession DEF DispatchBegin
<1>3. ASSUME NEW d \in Dispatches, DispatchNobody(d) PROVE KeyInv'
  <2>1. SessionKey(d)'
    BY <1>3 DEF DispatchNobody, KeyInv, SessionKey
  <2> QED BY <1>3, <2>1, KeyInvSession DEF DispatchNobody
<1>4. ASSUME NEW d \in Dispatches, DispatchRun(d) PROVE KeyInv'
  <2>1. /\ dpc' = [dpc EXCEPT ![d] = "enqueue"] /\ dpc[d] = "begun"
        /\ UNCHANGED <<lost, created, keyHeld, keyed, keyRow, host, cmd>>
    BY <1>4 DEF DispatchRun
  <2>2. SessionKey(d)'
    BY <2>1 DEF KeyInv, SessionKey
  <2> QED BY <2>1, <2>2, KeyInvSession
<1>5. ASSUME NEW d \in Dispatches, NEW h \in Hosts, EnqueueLookup(d, h) PROVE KeyInv'
  <2>1. PICK p \in {"enqueue", "insert"} :
          /\ dpc' = [dpc EXCEPT ![d] = p]
          /\ p = "insert" => ~ (keyed[d] /\ (IF keyHeld[d] THEN Held(d) ELSE keyRow) # None)
    BY <1>5 DEF EnqueueLookup, Held
  <2>2. /\ dpc[d] = "enqueue" /\ host' = [host EXCEPT ![d] = h]
        /\ UNCHANGED <<lost, created, keyHeld, keyed, keyRow, cmd>>
    BY <1>5 DEF EnqueueLookup
  <2>3. keyHeld[d] => keyed[d] /\ Held(d) # None
    BY HeldIs DEF KeyInv, SessionKey
  <2>4. p = "insert" /\ keyed[d] => keyRow = None /\ created[d] = {} /\ ~keyHeld[d]
    BY <2>1, <2>3 DEF KeyInv, SessionKey
  <2>5. SessionKey(d)'
    BY <2>1, <2>2, <2>3, <2>4 DEF KeyInv, SessionKey
  <2> QED BY <2>1, <2>2, <2>5, KeyInvSession
<1>6. ASSUME NEW d \in Dispatches, EnqueueInsert(d) PROVE KeyInv'
  <2>1. /\ dpc[d] = "insert" /\ host[d] \in Hosts /\ ~keyHeld[d]
        /\ keyed[d] => keyRow = None /\ created[d] = {}
    BY <1>6 DEF EnqueueInsert, KeyInv, SessionKey
  <2>2. /\ dpc' = [dpc EXCEPT ![d] = "enqueue"]
        /\ created' = [created EXCEPT ![d] = @ \cup {host[d]}]
        /\ keyHeld' = [keyHeld EXCEPT ![d] = keyed[d]]
        /\ UNCHANGED <<lost, keyed, keyRow, host, cmd>>
    BY <1>6, <2>1 DEF EnqueueInsert
  <2>3. keyed[d] => created'[d] = {host[d]}
    BY <2>1, <2>2
  <2>4. SessionKey(d)'
    BY <2>1, <2>2, <2>3 DEF KeyInv, SessionKey
  <2> QED BY <2>1, <2>2, <2>4, KeyInvSession
<1>7. ASSUME NEW d \in Dispatches, DispatchCommit(d) PROVE KeyInv'
  <2>1. /\ dpc' = [dpc EXCEPT ![d] = "done"] /\ dpc[d] = "enqueue"
        /\ created' = [created EXCEPT ![d] = {}] /\ keyHeld' = [keyHeld EXCEPT ![d] = FALSE]
        /\ keyRow' = IF keyHeld[d] THEN Held(d) ELSE keyRow
        /\ cmd' = [c \in Commands |-> IF c[1] = d /\ c[2] \in created[d] THEN "queued" ELSE cmd[c]]
        /\ UNCHANGED <<lost, keyed, host>>
    BY <1>7 DEF DispatchCommit, Held
  <2>2. ASSUME NEW e \in Dispatches \ {d} PROVE SessionKey(e)'
    <3>1. dpc[e] \notin Active
      BY <2>1 DEF LockInv
    <3> QED BY <2>1, <3>1 DEF KeyInv, SessionKey
  <2>3. SessionKey(d)'
    BY <2>1 DEF KeyInv, SessionKey
  <2>4. ASSUME NEW c \in Commands, cmd'[c] # None PROVE dpc'[c[1]] = "done" /\ (keyed'[c[1]] => c = keyRow')
    <3>1. CASE c[1] = d /\ c[2] \in created[d]
      <4>1. keyed[d] => keyHeld[d]
        BY <3>1 DEF KeyInv, SessionKey
      <4>2. keyHeld[d] => c = Held(d)
        BY SMTT(30), <3>1, HeldIs DEF Commands
      <4> QED BY <2>1, <3>1, <4>1, <4>2
    <3>2. CASE ~ (c[1] = d /\ c[2] \in created[d])
      <4>1. cmd[c] # None
        BY <2>1, <2>4, <3>2
      <4>2. c[1] \in Dispatches /\ dpc[c[1]] = "done" /\ (keyed[c[1]] => c = keyRow)
        BY <4>1 DEF KeyInv, CommandKey, Commands
      <4>3. c[1] # d
        BY <2>1, <4>2
      <4>4. keyHeld[d] => keyRow # c
        BY TaskAssumption DEF KeyInv, SessionKey
      <4> QED BY <2>1, <4>2, <4>3, <4>4
    <3> QED BY <3>1, <3>2
  <2> QED BY <2>2, <2>3, <2>4 DEF KeyInv, CommandKey
<1>8. ASSUME NEW d \in Dispatches, DispatchFails(d) \/ Deadline(d) \/ CancelSelect(d) PROVE KeyInv'
  <2>1. CASE DispatchFails(d)
    <3>1. SessionKey(d)'
      BY <2>1 DEF DispatchFails, KeyInv, SessionKey
    <3> QED BY <2>1, <3>1, KeyInvSession DEF DispatchFails
  <2>2. CASE Deadline(d) \/ CancelSelect(d)
    BY <2>2, KeyInvFrame DEF Deadline, CancelSelect
  <2> QED BY <1>8, <2>1, <2>2
<1>9. ASSUME NEW c \in Commands, NEW status \in {"ok", "fail"}, HandleResult(c, status) PROVE KeyInv'
  BY <1>9, KeyInvFrame DEF HandleResult
<1>10. ASSUME NEW h \in Hosts, HandleCommit(h) PROVE KeyInv'
  BY <1>10, KeyInvFrame DEF HandleCommit
<1>11. CASE SweepSelect
  BY <1>11, KeyInvFrame DEF SweepSelect
<1>12. ASSUME NEW c \in Commands, SweepCheck(c) PROVE KeyInv'
  BY <1>12, KeyInvFrame DEF SweepCheck
<1>13. CASE SweepRollup
  BY <1>13, KeyInvFrame DEF SweepRollup
<1>14. CASE SweepCommit /\ \A c \in sexp : cmd[c] # None
  <2>1. \A c \in Commands : cmd'[c] # None => cmd[c] # None
    BY <1>14 DEF SweepCommit
  <2> QED BY <1>14, <2>1, KeyInvFrame DEF SweepCommit
<1>15. CASE SweepFails
  BY <1>15, KeyInvFrame DEF SweepFails
<1>16. CASE CancelCommit /\ \A c \in cancelling : cmd[c] # None
  <2>1. \A c \in Commands : cmd'[c] # None => cmd[c] # None
    BY <1>16 DEF CancelCommit
  <2> QED BY <1>16, <2>1, KeyInvFrame DEF CancelCommit
<1> QED BY <1>1, <1>2, <1>3, <1>4, <1>5, <1>6, <1>7, <1>8, <1>9, <1>10, <1>11, <1>12, <1>13, <1>14,
        <1>15, <1>16 DEF Next, DispatchStep, SweepStep, SweepInv

--------------------------------------------------------------------------------
(***************************************************************************)
(* The committed rows.                                                       *)
(***************************************************************************)
\* Rows are never deleted, and only the session of a dispatch or a handler adds
\* a command, a result or a TaskRun; a sweep or a cancellation changes only the
\* status of commands.
LEMMA RowsStep ==
  ASSUME Types, LockInv, KeyInv, SweepInv, [Next]_vars
  PROVE  /\ \A c \in Commands : cmd[c] # None => cmd'[c] # None
         /\ \A t \in Dispatches : task[t] # None => task'[t] # None
         /\ \/ /\ UNCHANGED <<run, results>>
               /\ \A c \in Commands : cmd'[c] # None => cmd[c] # None
            \/ writer \in Dispatches
            \/ \E h \in Hosts : HandleCommit(h)
         /\ UNCHANGED cmd \/ writer # "sweeper" \/ spc' = "idle"
<1> DEFINE Goal == /\ \A c \in Commands : cmd[c] # None => cmd'[c] # None
                   /\ \A t \in Dispatches : task[t] # None => task'[t] # None
                   /\ \/ /\ UNCHANGED <<run, results>>
                         /\ \A c \in Commands : cmd'[c] # None => cmd[c] # None
                      \/ writer \in Dispatches
                      \/ \E h \in Hosts : HandleCommit(h)
                   /\ UNCHANGED cmd \/ writer # "sweeper" \/ spc' = "idle"
<1> SUFFICES Goal
  OBVIOUS
<1> USE TaskAssumption DEF Types, TypeOK, Active, dispatchVars, handlerVars, sweepVars
<1>1. CASE UNCHANGED <<cmd, task, run, results>>
  BY <1>1
<1>2. ASSUME NEW d \in Dispatches, DispatchNobody(d) PROVE Goal
  BY <1>2 DEF DispatchNobody, Live
<1>3. ASSUME NEW d \in Dispatches, DispatchRun(d) PROVE Goal
  <2>1. writer = d /\ UNCHANGED <<cmd, task>>
    BY <1>3 DEF DispatchRun, LockInv
  <2> QED BY <2>1
<1>4. ASSUME NEW d \in Dispatches, DispatchCommit(d) PROVE Goal
  <2>1. writer = d /\ ~lost[d]
    BY <1>4 DEF DispatchCommit, LockInv, KeyInv, SessionKey
  <2>2. \A c \in Commands : cmd[c] # None => cmd'[c] # None
    BY <1>4 DEF DispatchCommit, Statuses
  <2>3. \A t \in Dispatches : task[t] # None => task'[t] # None
    BY <1>4, <2>1 DEF DispatchCommit, Live
  <2> QED BY <2>1, <2>2, <2>3
<1>5. ASSUME NEW h \in Hosts, HandleCommit(h) PROVE Goal
  <2>1. writer = h /\ UNCHANGED cmd
    BY <1>5 DEF HandleCommit, LockInv
  <2>2. \A t \in Dispatches : task[t] # None => task'[t] # None
    BY <1>5 DEF HandleCommit
  <2>3. \E x \in Hosts : HandleCommit(x)
    BY <1>5
  <2> QED BY <2>1, <2>2, <2>3
<1>6. CASE SweepCommit
  <2>1. UNCHANGED <<run, results>> /\ spc' = "idle"
    BY <1>6 DEF SweepCommit, SweepEnd
  <2>2. \A c \in Commands : cmd'[c] # None <=> cmd[c] # None
    BY <1>6 DEF SweepCommit, SweepInv, Statuses
  <2>3. \A t \in Dispatches : task[t] # None => task'[t] # None
    BY <1>6 DEF SweepCommit
  <2> QED BY <2>1, <2>2, <2>3
<1>7. CASE CancelCommit
  <2>1. UNCHANGED <<run, results, task>> /\ writer # "sweeper"
    BY <1>7 DEF CancelCommit
  <2>2. \A c \in Commands : cmd'[c] # None <=> cmd[c] # None
    BY <1>7 DEF CancelCommit, SweepInv, Statuses
  <2> QED BY <2>1, <2>2
<1>8. CASE UNCHANGED vars
  BY <1>1, <1>8 DEF vars
<1>9. ASSUME NEW d \in Dispatches, NEW S \in SUBSET Hosts, NEW k \in BOOLEAN, DispatchBegin(d, S, k)
      PROVE  Goal
  BY <1>1, <1>9 DEF DispatchBegin
<1>10. ASSUME NEW d \in Dispatches, NEW h \in Hosts, EnqueueLookup(d, h) PROVE Goal
  BY <1>1, <1>10 DEF EnqueueLookup
<1>11. ASSUME NEW d \in Dispatches, EnqueueInsert(d) PROVE Goal
  BY <1>1, <1>11 DEF EnqueueInsert
<1>12. ASSUME NEW d \in Dispatches, DispatchFails(d) \/ Deadline(d) \/ CancelSelect(d) PROVE Goal
  BY <1>1, <1>12 DEF DispatchFails, Deadline, CancelSelect
<1>13. ASSUME NEW c \in Commands, NEW status \in {"ok", "fail"}, HandleResult(c, status) PROVE Goal
  BY <1>1, <1>13 DEF HandleResult
<1>14. CASE SweepSelect \/ SweepRollup \/ SweepFails
  BY <1>1, <1>14 DEF SweepSelect, SweepRollup, SweepFails
<1>15. ASSUME NEW c \in Commands, SweepCheck(c) PROVE Goal
  BY <1>1, <1>15 DEF SweepCheck
<1> HIDE DEF Goal
<1> QED BY <1>2, <1>3, <1>4, <1>5, <1>6, <1>7, <1>8, <1>9, <1>10, <1>11, <1>12, <1>13, <1>14, <1>15
        DEF Next, DispatchStep, SweepStep

LEMMA RunInvStep ==
  ASSUME Types, LockInv, KeyInv, RunInv, SweepInv, [Next]_vars
  PROVE  RunInv'
<1> USE DEF Types, TypeOK, dispatchVars, handlerVars, sweepVars
<1>1. /\ \A c \in Commands : cmd[c] # None => cmd'[c] # None
      /\ \A t \in Dispatches : task[t] # None => task'[t] # None
  BY RowsStep
<1>2. CASE /\ UNCHANGED <<run, dpc, answer>>
           /\ \A c \in Commands : cmd'[c] # None => cmd[c] # None
  BY <1>1, <1>2 DEF RunInv
<1>3. ASSUME NEW d \in Dispatches, DispatchRun(d) PROVE RunInv'
  <2>1. /\ dpc[d] = "begun" /\ dpc' = [dpc EXCEPT ![d] = "enqueue"] /\ UNCHANGED <<task, cmd, answer>>
    BY <1>3 DEF DispatchRun
  <2>2. created[d] = {}
    BY <2>1 DEF KeyInv, SessionKey
  <2>3. PICK t \in Dispatches : run' = [run EXCEPT ![d] = t] /\ (t = d \/ task[t] # None)
    BY <1>3, <2>2 DEF DispatchRun, Sees, RunInv
  <2>4. \A c \in Commands : cmd[c] # None => c[1] \in Dispatches \ {d}
    BY <2>1 DEF KeyInv, CommandKey, Commands
  <2> QED BY <2>1, <2>3, <2>4 DEF RunInv
<1>4. ASSUME NEW d \in Dispatches, DispatchCommit(d) PROVE RunInv'
  <2>1. /\ dpc' = [dpc EXCEPT ![d] = "done"] /\ UNCHANGED run /\ task' = [task EXCEPT ![d] = "pending"]
        /\ cmd' = [c \in Commands |-> IF c[1] = d /\ c[2] \in created[d] THEN "queued" ELSE cmd[c]]
        /\ answer' = [answer EXCEPT ![d] = <<run[d], targets[d]>>]
    BY <1>4 DEF DispatchCommit, KeyInv, SessionKey
  <2>2. run[d] \in Dispatches /\ task'[run[d]] # None
    BY <1>4, <2>1, <1>1, TaskAssumption DEF DispatchCommit, RunInv, Live
  <2>3. \A c \in Commands : cmd'[c] # None => run[c[1]] \in Dispatches /\ task'[run[c[1]]] # None
    BY <2>1, <2>2, <1>1 DEF RunInv
  <2>4. \A e \in Dispatches : answer'[e] # None => answer'[e][1] \in Dispatches /\ task'[answer'[e][1]] # None
    BY <2>1, <2>2, <1>1 DEF RunInv
  <2>5. \A e \in Dispatches : dpc'[e] \in {"enqueue", "insert"} =>
            run'[e] \in Dispatches /\ (run'[e] = e \/ task'[run'[e]] # None)
    BY <2>1, <1>1 DEF RunInv
  <2> QED BY <2>1, <2>3, <2>4, <2>5 DEF RunInv
<1>5. ASSUME NEW d \in Dispatches, DispatchNobody(d) PROVE RunInv'
  <2>1. /\ dpc' = [dpc EXCEPT ![d] = "done"] /\ UNCHANGED <<run, cmd>> /\ task'[d] # None
        /\ answer' = [answer EXCEPT ![d] = <<d, {}>>]
    BY <1>5, TaskAssumption DEF DispatchNobody, Live
  <2> QED BY <2>1, <1>1 DEF RunInv
<1>6. ASSUME NEW d \in Dispatches, NEW h \in Hosts, EnqueueLookup(d, h) PROVE RunInv'
  <2>1. /\ \E p \in {"enqueue", "insert"} : dpc' = [dpc EXCEPT ![d] = p]
        /\ dpc[d] = "enqueue" /\ UNCHANGED <<run, cmd, task, answer>>
    BY <1>6 DEF EnqueueLookup
  <2> QED BY <2>1 DEF RunInv
<1>7. ASSUME NEW d \in Dispatches, EnqueueInsert(d) PROVE RunInv'
  <2>1. dpc' = [dpc EXCEPT ![d] = "enqueue"] /\ dpc[d] = "insert" /\ UNCHANGED <<run, cmd, task, answer>>
    BY <1>7 DEF EnqueueInsert
  <2> QED BY <2>1 DEF RunInv
<1>8. ASSUME NEW d \in Dispatches, NEW S \in SUBSET Hosts, NEW k \in BOOLEAN, DispatchBegin(d, S, k)
      PROVE  RunInv'
  BY <1>8 DEF DispatchBegin, RunInv
<1>9. ASSUME NEW d \in Dispatches, DispatchFails(d) \/ Deadline(d) \/ CancelSelect(d) PROVE RunInv'
  <2>1. CASE DispatchFails(d)
    BY <2>1 DEF DispatchFails, RunInv
  <2>2. CASE Deadline(d) \/ CancelSelect(d)
    BY <2>2, <1>2 DEF Deadline, CancelSelect
  <2> QED BY <1>9, <2>1, <2>2
<1>10. ASSUME NEW c \in Commands, NEW status \in {"ok", "fail"}, HandleResult(c, status) PROVE RunInv'
  BY <1>10, <1>2 DEF HandleResult
<1>11. ASSUME NEW h \in Hosts, HandleCommit(h) PROVE RunInv'
  BY <1>11, <1>2 DEF HandleCommit
<1>12. CASE SweepSelect \/ SweepRollup \/ SweepFails
  BY <1>12, <1>2 DEF SweepSelect, SweepRollup, SweepFails
<1>13. ASSUME NEW c \in Commands, SweepCheck(c) PROVE RunInv'
  BY <1>13, <1>2 DEF SweepCheck
<1>14. CASE SweepCommit
  BY <1>14, <1>2 DEF SweepCommit, SweepInv
<1>15. CASE CancelCommit
  BY <1>15, <1>2 DEF CancelCommit, SweepInv
<1>16. CASE UNCHANGED vars
  BY <1>16, <1>2 DEF vars
<1> QED BY <1>3, <1>4, <1>5, <1>6, <1>7, <1>8, <1>9, <1>10, <1>11, <1>12, <1>13, <1>14, <1>15, <1>16
        DEF Next, DispatchStep, SweepStep

--------------------------------------------------------------------------------
(***************************************************************************)
(* What the handlers and the sweeper will write.                             *)
(***************************************************************************)
\* The commands of a run, while none is added.
LEMMA SameRun ==
  ASSUME UNCHANGED run, \A c \in Commands : cmd'[c] # None <=> cmd[c] # None, NEW t
  PROVE  RunCommands(t)' = RunCommands(t)
BY DEF RunCommands

LEMMA HandlerInvStep ==
  ASSUME Types, LockInv, KeyInv, RunInv, HandlerInv, SweepInv, [Next]_vars
  PROVE  HandlerInv'
<1> USE DEF Types, TypeOK, dispatchVars, handlerVars, sweepVars
<1> DEFINE Good(h) == /\ hres[h] = None => hwrite[h] = None
                      /\ hwrite[h] # None =>
                            \E q \in RunResults(run[hres[h][1][1]], results \cup {hres[h]}) :
                                hwrite[h] = Rollup(q[2])
<1>1. /\ \A c \in Commands : cmd[c] # None => cmd'[c] # None
      /\ \/ /\ UNCHANGED <<run, results>>
            /\ \A c \in Commands : cmd'[c] # None => cmd[c] # None
         \/ writer \in Dispatches
         \/ \E h \in Hosts : HandleCommit(h)
  BY RowsStep
<1>2. ASSUME UNCHANGED <<run, results>>, \A c \in Commands : cmd'[c] # None <=> cmd[c] # None,
             NEW h \in Hosts, hres'[h] = hres[h], hwrite'[h] = hwrite[h]
      PROVE  Good(h)'
  <2>1. PICK t : t = run[hres[h][1][1]] /\ t = run'[hres'[h][1][1]]
    BY <1>2
  <2>2. RunCommands(t)' = RunCommands(t)
    BY <1>2, SameRun
  <2>3. RunResults(t, results \cup {hres[h]})' = RunResults(t, results \cup {hres[h]})
    BY <1>2, <2>2 DEF RunResults
  <2> QED BY ZenonT(30), <1>2, <2>1, <2>3 DEF HandlerInv
<1>3. ASSUME NEW h \in Hosts, HandleCommit(h) PROVE HandlerInv'
  <2>1. \A g \in Hosts : g # h => hres[g] = None /\ hwrite[g] = None
    BY <1>3 DEF HandleCommit, LockInv, HandlerInv
  <2>2. \A g \in Hosts : hwrite'[g] = None
    BY <1>3, <2>1 DEF HandleCommit
  <2> QED BY <2>2 DEF HandlerInv
<1>4. CASE UNCHANGED <<hres, hwrite>> /\ ~ \E h \in Hosts : HandleCommit(h)
  <2>1. CASE writer \in Dispatches
    <3>1. \A h \in Hosts : hres[h] = None
      BY <2>1, TaskAssumption DEF LockInv
    <3>2. \A h \in Hosts : hwrite[h] = None
      BY <3>1 DEF HandlerInv
    <3> QED BY <1>4, <3>2 DEF HandlerInv
  <2>2. CASE writer \notin Dispatches
    BY <1>1, <1>2, <1>4, <2>2 DEF HandlerInv
  <2> QED BY <2>1, <2>2
<1>5. ASSUME NEW c \in Commands, NEW status \in {"ok", "fail"}, HandleResult(c, status) PROVE HandlerInv'
  <2>a. PICK r : r = <<c, status, 1 + Cardinality({x \in results : x[1] = c})>>
    OBVIOUS
  <2>b. PICK t : t = run[c[1]]
    OBVIOUS
  <2> DEFINE h == c[2]
  <2>1. /\ cmd[c] # None /\ hres[h] = None /\ hres' = [hres EXCEPT ![h] = r]
        /\ UNCHANGED <<run, results, cmd>>
        /\ \/ UNCHANGED hwrite
           \/ \E q \in Newest(RunResults(t, results \cup {r})) :
                  hwrite' = [hwrite EXCEPT ![h] = Rollup(q[2])]
    BY <1>5, <2>a, <2>b DEF HandleResult
  <2>2. h \in Hosts /\ r \in Results /\ r[1] = c
    BY <1>5, <2>a, ResultIs DEF HandleResult, Commands
  <2>3. ASSUME NEW g \in Hosts, g # h PROVE Good(g)'
    <3>1. hres'[g] = hres[g] /\ hwrite'[g] = hwrite[g]
      BY <2>1, <2>3
    <3> QED BY <2>1, <3>1, <1>2
  <2>4. hwrite[h] = None /\ r # None
    BY <2>1, <2>2, TaskAssumption DEF HandlerInv
  <2>5. Good(h)'
    <3>1. CASE UNCHANGED hwrite
      BY <2>1, <2>2, <2>4, <3>1
    <3>2. ASSUME NEW q \in Newest(RunResults(t, results \cup {r})),
                 hwrite' = [hwrite EXCEPT ![h] = Rollup(q[2])]
          PROVE  Good(h)'
      <4>1. q \in RunResults(t, results \cup {r}) /\ hwrite'[h] = Rollup(q[2])
        BY <2>2, <3>2 DEF Newest
      <4>2. hres'[h] = r /\ run'[hres'[h][1][1]] = t
        BY <2>1, <2>2, <2>b
      <4>3. q \in results \cup {r} /\ q[1] \in Commands /\ cmd[q[1]] # None /\ run[q[1][1]] = t
        BY <4>1 DEF RunResults, RunCommands
      <4>4. /\ q \in results' \cup {hres'[h]} /\ q[1] \in Commands
            /\ cmd'[q[1]] # None /\ run'[q[1][1]] = run'[hres'[h][1][1]]
        BY <2>1, <4>2, <4>3
      <4>7. q \in RunResults(run[hres[h][1][1]], results \cup {hres[h]})'
        BY <4>4 DEF RunResults, RunCommands
      <4> QED BY <2>4, <4>1, <4>2, <4>7
    <3> QED BY <2>1, <3>1, <3>2
  <2> QED BY <2>3, <2>5 DEF HandlerInv
<1>6. CASE UNCHANGED vars
  BY <1>3, <1>4, <1>6 DEF vars
<1>7. ASSUME NEW d \in Dispatches, NEW S \in SUBSET Hosts, NEW k \in BOOLEAN,
             DispatchBegin(d, S, k) \/ DispatchStep(d) \/ DispatchFails(d) \/ Deadline(d) \/ CancelSelect(d)
      PROVE  HandlerInv'
  <2>1. UNCHANGED <<hres, hwrite>>
    BY <1>7 DEF DispatchBegin, DispatchStep, DispatchNobody, DispatchRun, EnqueueInsert, DispatchCommit,
                EnqueueLookup, DispatchFails, Deadline, CancelSelect
  <2> QED BY <1>3, <1>4, <2>1
<1>8. CASE SweepStep \/ SweepFails \/ CancelCommit
  <2>1. UNCHANGED <<hres, hwrite>>
    BY <1>8 DEF SweepStep, SweepSelect, SweepRollup, SweepCommit, SweepCheck, SweepFails, CancelCommit
  <2> QED BY <1>3, <1>4, <2>1
<1> QED BY <1>3, <1>5, <1>6, <1>7, <1>8 DEF Next

LEMMA SweepInvStep ==
  ASSUME Types, LockInv, KeyInv, RunInv, HandlerInv, SweepInv, [Next]_vars
  PROVE  SweepInv'
<1> USE DEF Types, TypeOK, dispatchVars, handlerVars, sweepVars
<1>1. /\ \A c \in Commands : cmd[c] # None => cmd'[c] # None
      /\ \/ UNCHANGED <<run, results>>
         \/ writer \in Dispatches
         \/ \E h \in Hosts : HandleCommit(h)
      /\ UNCHANGED cmd \/ writer # "sweeper" \/ spc' = "idle"
  BY RowsStep
<1>2. \A h \in Hosts : HandleCommit(h) => writer = h
  BY DEF HandleCommit, LockInv
<1>3. ASSUME NEW c \in srows' \cup sexp' \cup cancelling',
             srows' \cup sexp' \cup cancelling' \subseteq srows \cup sexp \cup cancelling
      PROVE  cmd'[c] # None
  BY <1>1, <1>3 DEF SweepInv
<1>4. CASE /\ spc' # "commit"
           /\ srows' \cup sexp' \cup cancelling' \subseteq srows \cup sexp \cup cancelling
  BY <1>3, <1>4 DEF SweepInv
\* What the sweep will write was decided under the lock.
<1>5. CASE /\ UNCHANGED sweepVars /\ cancelling' \subseteq cancelling
  <2>1. ASSUME spc = "commit", NEW t \in Dispatches, swrite[t] # None
        PROVE  sexp # {} /\ swrite[t] \in SweepStatus(t)'
    <3>1. sexp # {} /\ swrite[t] \in SweepStatus(t)
      BY <2>1 DEF SweepInv
    <3>2. writer = "sweeper"
      BY <2>1, <3>1 DEF LockInv
    <3>3. UNCHANGED <<run, results, cmd, sexp>>
      BY <1>1, <1>2, <1>5, <2>1, <3>2, TaskAssumption
    <3>4. SweepStatus(t)' = SweepStatus(t)
      BY <3>3 DEF SweepStatus, RunResults, RunCommands, Expired, Newest
    <3> QED BY <3>1, <3>4
  <2>2. srows' \cup sexp' \cup cancelling' \subseteq srows \cup sexp \cup cancelling
    BY <1>5
  <2> QED BY <1>3, <1>5, <2>1, <2>2 DEF SweepInv
<1>6. CASE SweepSelect
  <2>1. \A c \in Overdue : cmd[c] # None
    BY TaskAssumption DEF Overdue, Statuses
  <2>2. spc' = "check" /\ srows' = Overdue /\ UNCHANGED <<cmd, sexp, cancelling>>
    BY <1>6 DEF SweepSelect
  <2> QED BY <2>1, <2>2 DEF SweepInv
<1>7. ASSUME NEW c \in Commands, SweepCheck(c) PROVE SweepInv'
  <2>1. spc' = "check"
    BY <1>7 DEF SweepCheck
  <2>2. srows' \cup sexp' \cup cancelling' \subseteq srows \cup sexp \cup cancelling
    BY <1>7 DEF SweepCheck
  <2> QED BY <1>4, <2>1, <2>2
<1>8. CASE SweepRollup
  <2>1. UNCHANGED <<srows, sexp, cancelling, run, results, cmd>>
    BY <1>8 DEF SweepRollup
  <2>2. \A t \in Dispatches : swrite'[t] # None => sexp # {} /\ swrite'[t] \in SweepStatus(t)
    BY <1>8 DEF SweepRollup
  <2>3. \A t \in Dispatches : SweepStatus(t)' = SweepStatus(t)
    BY <2>1 DEF SweepStatus, RunResults, RunCommands, Expired, Newest
  <2> QED BY <2>1, <2>2, <2>3 DEF SweepInv
<1>9. CASE SweepCommit \/ SweepFails
  BY <1>4, <1>9 DEF SweepCommit, SweepFails, SweepEnd
<1>10. ASSUME NEW d \in Dispatches, CancelSelect(d) PROVE SweepInv'
  <2>1. /\ cancelling' \subseteq {c \in Commands : cmd[c] # None}
        /\ UNCHANGED <<sweepVars, run, results, cmd>>
    BY <1>10 DEF CancelSelect, RunCommands
  <2>2. \A t \in Dispatches : SweepStatus(t)' = SweepStatus(t)
    BY <2>1 DEF SweepStatus, RunResults, RunCommands, Expired, Newest
  <2> QED BY <2>1, <2>2 DEF SweepInv
<1>11. CASE CancelCommit
  BY <1>5, <1>11 DEF CancelCommit
<1>12. ASSUME NEW d \in Dispatches, NEW S \in SUBSET Hosts, NEW k \in BOOLEAN,
             DispatchBegin(d, S, k) \/ DispatchStep(d) \/ DispatchFails(d) \/ Deadline(d)
      PROVE  SweepInv'
  <2>1. UNCHANGED <<sweepVars, cancelling>>
    BY <1>12 DEF DispatchBegin, DispatchStep, DispatchNobody, DispatchRun, EnqueueInsert, DispatchCommit,
                EnqueueLookup, DispatchFails, Deadline
  <2> QED BY <1>5, <2>1
<1>13. ASSUME NEW c \in Commands, NEW status \in {"ok", "fail"}, HandleResult(c, status) PROVE SweepInv'
  BY <1>5, <1>13 DEF HandleResult
<1>14. ASSUME NEW h \in Hosts, HandleCommit(h) PROVE SweepInv'
  BY <1>5, <1>14 DEF HandleCommit
<1>15. CASE UNCHANGED vars
  BY <1>5, <1>15 DEF vars
<1> QED BY <1>6, <1>7, <1>8, <1>9, <1>10, <1>11, <1>12, <1>13, <1>14, <1>15 DEF Next, SweepStep

--------------------------------------------------------------------------------
(***************************************************************************)
(* The theorems.                                                             *)
(***************************************************************************)
LEMMA IInvHolds == Spec => []IInv
<1>1. Init => IInv
  <2> SUFFICES ASSUME Init PROVE IInv
    OBVIOUS
  <2> USE TaskAssumption DEF Init
  <2>1. Types
    <3>1. IsFiniteSet(results)
      BY FS_EmptySet
    <3>2. 0 \in 0..MaxFaults
      OBVIOUS
    <3> QED BY <3>1, <3>2 DEF Types, TypeOK
  <2>2. LockInv
    BY DEF LockInv, Active
  <2>3. KeyInv
    BY DEF KeyInv, SessionKey, CommandKey
  <2>4. RunInv
    BY DEF RunInv
  <2>5. HandlerInv /\ SweepInv
    BY DEF HandlerInv, SweepInv
  <2> QED BY <2>1, <2>2, <2>3, <2>4, <2>5 DEF IInv
<1>2. IInv /\ [Next]_vars => IInv'
  BY TypesStep, LockInvStep, KeyInvStep, RunInvStep, HandlerInvStep, SweepInvStep DEF IInv
<1> QED BY <1>1, <1>2, PTL DEF Spec

\* The rows always have their types, a committed status among them: what a
\* roll-up writes is one of the statuses of a Task.
THEOREM TypeCorrect == Spec => []TypeOK
<1>1. IInv => TypeOK
  BY DEF IInv, Types
<1> QED BY <1>1, IInvHolds, PTL

\* However the calls of Dispatcher.dispatch with one idempotency key interleave,
\* are rolled back or find a stale cache entry, the key names one command.
THEOREM KeyNamesOneCommand == Spec => []OneCommandPerKey
<1>1. ASSUME IInv PROVE OneCommandPerKey
  <2> DEFINE S == {c \in Commands : keyed[c[1]] /\ cmd[c] # None}
  <2>1. \A c \in S : c = keyRow
    BY <1>1 DEF IInv, KeyInv, CommandKey
  <2>2. S \subseteq {keyRow}
    BY <2>1
  <2>3. IsFiniteSet({keyRow}) /\ Cardinality({keyRow}) = 1
    BY FS_Singleton
  <2>4. Cardinality(S) <= Cardinality({keyRow})
    BY <2>2, <2>3, FS_Subset
  <2> QED BY <2>3, <2>4 DEF OneCommandPerKey
<1> QED BY <1>1, IInvHolds, PTL

\* The task that Dispatcher.dispatch returns exists, also when the call resumed
\* the TaskRun of an earlier call with the same key.
THEOREM ReturnedTaskExists == Spec => []AnswerNamesTask
<1>1. IInv => AnswerNamesTask
  BY DEF IInv, RunInv, AnswerNamesTask
<1> QED BY <1>1, IInvHolds, PTL

\* The rows that justify the new status of task t.
Justified(t) ==
    LET rs == RunResults(t, results)'
    IN  /\ task'[t] = "succeeded" => \E r \in rs : r[2] = "ok"
        /\ task'[t] = "failed" =>
              \/ \E r \in rs : r[2] = "fail"
              \/ /\ rs = {}
                 /\ \E c \in RunCommands(t) : cmd'[c] \in {"expired", "cancelled"}

LEMMA RollupStatus ==
  ASSUME NEW q \in Results
  PROVE  /\ Rollup(q[2]) = "succeeded" => q[2] = "ok"
         /\ Rollup(q[2]) = "failed" => q[2] = "fail"
BY DEF Rollup, Results

LEMMA JustifiedStep ==
  ASSUME IInv, [Next]_vars, NEW t \in Dispatches, task'[t] # task[t]
  PROVE  Justified(t)
<1> USE DEF IInv, Types, TypeOK
<1>1. CASE task'[t] \notin {"succeeded", "failed"}
  BY <1>1 DEF Justified
<1>2. ASSUME NEW d \in Dispatches, DispatchNobody(d) PROVE Justified(t)
  BY <1>1, <1>2 DEF DispatchNobody
<1>3. ASSUME NEW d \in Dispatches, DispatchCommit(d) PROVE Justified(t)
  <2>1. task' = [task EXCEPT ![d] = "pending"]
    BY <1>3 DEF DispatchCommit, KeyInv, SessionKey
  <2> QED BY <1>1, <2>1
<1>4. ASSUME NEW h \in Hosts, HandleCommit(h) PROVE Justified(t)
  <2>1. /\ hwrite[h] # None /\ t = run[hres[h][1][1]] /\ task'[t] = hwrite[h]
        /\ results' = results \cup {hres[h]} /\ UNCHANGED <<run, cmd>>
    BY <1>4 DEF HandleCommit
  <2>2. PICK q \in RunResults(t, results \cup {hres[h]}) : hwrite[h] = Rollup(q[2])
    BY <2>1 DEF HandlerInv
  <2>3. q \in RunResults(t, results)' /\ q \in Results
    BY <1>4, <2>1, <2>2 DEF RunResults, RunCommands, HandleCommit
  <2> QED BY <2>1, <2>2, <2>3, RollupStatus DEF Justified
<1>5. CASE SweepCommit
  <2>1. /\ task'[t] = swrite[t] /\ swrite[t] \in SweepStatus(t) /\ UNCHANGED <<run, results>>
    BY <1>5 DEF SweepCommit, SweepInv
  <2>2. \A c \in Commands : /\ cmd'[c] # None <=> cmd[c] # None
                            /\ Expired(c) => cmd'[c] = "expired"
    BY <1>5, TaskAssumption DEF SweepCommit, SweepInv, Expired, Statuses
  <2>3. RunCommands(t)' = RunCommands(t)
    BY <2>1, <2>2, SameRun
  <2>4. RunResults(t, results)' = RunResults(t, results)
    BY <2>1, <2>3 DEF RunResults
  <2>5. CASE RunResults(t, results) # {}
    <3>1. PICK q \in RunResults(t, results) : swrite[t] = Rollup(q[2])
      BY <2>1, <2>5 DEF SweepStatus, Newest
    <3>2. q \in Results
      BY <3>1 DEF RunResults
    <3> QED BY <2>1, <2>4, <3>1, <3>2, RollupStatus DEF Justified
  <2>6. CASE RunResults(t, results) = {}
    <3>1. PICK c \in RunCommands(t) : swrite[t] = IF Expired(c) THEN "failed" ELSE "running"
      BY <2>1, <2>6 DEF SweepStatus
    <3>2. c \in Commands
      BY <3>1 DEF RunCommands
    <3> QED BY <2>1, <2>2, <2>4, <2>6, <3>1, <3>2 DEF Justified
  <2> QED BY <2>5, <2>6
<1>6. ASSUME UNCHANGED task PROVE FALSE
  BY <1>6
<1>7. ASSUME NEW d \in Dispatches, NEW S \in SUBSET Hosts, NEW k \in BOOLEAN,
             \/ DispatchBegin(d, S, k) \/ DispatchRun(d) \/ EnqueueInsert(d)
             \/ DispatchFails(d) \/ Deadline(d) \/ CancelSelect(d)
      PROVE  FALSE
  BY <1>6, <1>7 DEF DispatchBegin, DispatchRun, EnqueueInsert, DispatchFails, Deadline, CancelSelect
<1>8. ASSUME NEW d \in Dispatches, NEW h \in Hosts, EnqueueLookup(d, h) PROVE FALSE
  BY <1>6, <1>8 DEF EnqueueLookup
<1>9. ASSUME NEW c \in Commands, NEW status \in {"ok", "fail"}, HandleResult(c, status) \/ SweepCheck(c)
      PROVE  FALSE
  BY <1>6, <1>9 DEF HandleResult, SweepCheck
<1>10. ASSUME SweepSelect \/ SweepRollup \/ SweepFails \/ CancelCommit \/ UNCHANGED vars PROVE FALSE
  BY <1>6, <1>10 DEF SweepSelect, SweepRollup, SweepFails, CancelCommit, vars
<1> HIDE DEF IInv
<1> QED BY <1>2, <1>3, <1>4, <1>5, <1>7, <1>8, <1>9, <1>10 DEF Next, DispatchStep, SweepStep

\* ResultHandler.handle and _sweep_once give a task a status that the rows
\* justify when it is committed, although each decided on rows it read earlier:
\* from the first EXPIRED or the insert of the result to the commit, the write
\* lock keeps every other session's rows out.
THEOREM StatusIsJustified == Spec => FinalStatusJustified
<1>1. IInv /\ [Next]_vars => [\A t \in Dispatches : task'[t] # task[t] => Justified(t)]_vars
  BY JustifiedStep
<1>2. IInv /\ [Next]_vars =>
        [\A t \in Dispatches : task'[t] # task[t] =>
          LET rs == RunResults(t, results)'
          IN  /\ task'[t] = "succeeded" => \E r \in rs : r[2] = "ok"
              /\ task'[t] = "failed" =>
                    \/ \E r \in rs : r[2] = "fail"
                    \/ /\ rs = {}
                       /\ \E c \in RunCommands(t) : cmd'[c] \in {"expired", "cancelled"}]_vars
  BY <1>1 DEF Justified
<1> QED BY <1>2, IInvHolds, PTL DEF Spec, FinalStatusJustified

================================================================================
