-------------------------------- MODULE Accounts --------------------------------
(* Signing in and the second factors behind one server.  The two ways to sign in *)
(* share the sessions and the accounts; the second factors share no state with    *)
(* them that the properties tell apart.  A behaviour exercises one of the three,  *)
(* its workload, with a budget of requests.                                       *)
EXTENDS Sessions, SecondFactor

CONSTANTS PasswordCalls, OidcCalls, FactorCalls   \* the budgets

ASSUME AccountsAssumption == {PasswordCalls, OidcCalls, FactorCalls} \subseteq Nat

VARIABLE workload

vars == <<signInVars, factorVars, req, calls, workload>>

Init ==
    /\ SignInInit /\ FactorInit
    /\ req = [r \in Req |-> Idle]
    /\ \/ workload = "password" /\ calls = PasswordCalls
       \/ workload = "oidc" /\ calls = OidcCalls
       \/ /\ workload = "factor" /\ calls = FactorCalls
          /\ users = [u \in User |-> IF u = Admin THEN "new" ELSE "present"]

Next ==
    /\ UNCHANGED workload
    /\ \/ /\ \/ workload \in {"password", "oidc"} /\ SessionStep
             \/ workload = "password" /\ PasswordStep
             \/ workload = "oidc" /\ OidcStep
          /\ UNCHANGED factorVars
       \/ workload = "factor" /\ FactorStep /\ UNCHANGED signInVars

Spec == Init /\ [][Next]_vars

================================================================================
