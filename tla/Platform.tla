-------------------------------- MODULE Platform --------------------------------
(* The server process around its keys: the audit chain, the agent releases and   *)
(* the secrets broker share one process, so that one crash or stop drops what    *)
(* each of them holds in memory and leaves what each has on disk.               *)
(*                                                                              *)
(* The three share nothing else.  A behaviour exercises the keys and one of      *)
(* them, its workload, with a budget of requests, crashes and stops.             *)
EXTENDS Audit, Releases, Secrets

CONSTANTS KeysCalls, AuditCalls, ReleasesCalls, SecretsCalls  \* the budgets

ASSUME PlatformAssumption == {KeysCalls, AuditCalls, ReleasesCalls, SecretsCalls} \subseteq Nat

VARIABLE workload

vars == <<keyVars, auditVars, relVars, secretVars, calls, workload>>

Init ==
    /\ KeysInit /\ AuditInit /\ ReleasesInit /\ SecretsInit
    /\ \/ workload = "keys" /\ calls = KeysCalls
       \/ workload = "audit" /\ calls = AuditCalls
       \/ workload = "releases" /\ calls = ReleasesCalls
       \/ workload = "secrets" /\ calls = SecretsCalls
    /\ workload = "audit" \/ engine = CHOOSE e \in Engines : TRUE

ProcessEnds == (CrashKeys \/ StopKeys) /\ AuditCrash /\ ReleasesCrash /\ SecretsCrash

Next ==
    /\ UNCHANGED workload
    /\ \/ BootStep /\ UNCHANGED <<auditVars, relVars, secretVars>>
       \/ /\ (workload = "keys" /\ SignHost) \/ (workload \in {"keys", "audit"} /\ KeysStep)
          /\ UNCHANGED <<auditVars, relVars, secretVars>>
       \/ workload = "audit" /\ AuditStep /\ UNCHANGED <<relVars, secretVars>>
       \/ workload = "releases" /\ ReleasesStep /\ UNCHANGED <<auditVars, secretVars>>
       \/ workload = "secrets" /\ SecretsStep /\ UNCHANGED <<auditVars, relVars>>
       \/ ProcessEnds

Spec == Init /\ [][Next]_vars

================================================================================
