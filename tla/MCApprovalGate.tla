----------------------------- MODULE MCApprovalGate -----------------------------
(* Model checking instances of ApprovalGate.                                   *)
EXTENDS ApprovalGate, TLC

GateSymmetry == Permutations(Ids) \cup Permutations(Deciders)
                  \cup Permutations(Users \ Approvers) \cup Permutations(Calls)

================================================================================
