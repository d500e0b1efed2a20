------------------------------- MODULE MCAccounts -------------------------------
(* Model checking instance of Accounts.  Requests, session tokens and OIDC states *)
(* are interchangeable; the one subject of the provider has the address of u1.    *)
EXTENDS Accounts, TLC

CONSTANTS u1, u2

MCEmailOf == [p \in Subject |-> u1]
AccountSymmetry == Permutations(Req) \cup Permutations(Sid) \cup Permutations(State)

================================================================================
