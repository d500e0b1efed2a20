------------------------------- MODULE MCAccess -------------------------------
(* Model checking instance of Access, and of Hosts through it: hosts,           *)
(* groups and requests are interchangeable.                                     *)
EXTENDS Access, TLC

CONSTANTS i1, i2

FleetSymmetry == Permutations(Host) \cup Permutations(Req) \cup Permutations(Group)

================================================================================
