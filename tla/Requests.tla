------------------------------- MODULE Requests -------------------------------
(* HTTP requests on the server's event loop.  A request is a coroutine in a     *)
(* slot of Req; what runs between two of its awaits on the database is one      *)
(* step, and other requests and background loops run in between.                *)
(*                                                                              *)
(* The default database is SQLite without foreign keys.  A SELECT opens no      *)
(* transaction, so what a request has read may be stale when it writes; a       *)
(* transaction that has begun to write holds the write lock until it commits.   *)
EXTENDS Naturals, FiniteSets

CONSTANTS
    Req,       \* slots for concurrent requests
    None

VARIABLES
    req,       \* the running requests
    calls      \* requests (and background passes) that may still begin

Idle == [pc |-> "idle"]

Begin(r, rec) ==
    /\ req[r] = Idle /\ calls > 0
    /\ calls' = calls - 1
    /\ req' = [req EXCEPT ![r] = rec]

Goto(r, rec) == req' = [req EXCEPT ![r] = rec] /\ UNCHANGED calls
Done(r) == Goto(r, Idle)
At(r, pc) == req[r].pc = pc

\* A request of one transaction, or the first step of an agent or a background loop.
Call == calls > 0 /\ calls' = calls - 1 /\ UNCHANGED req

\* A step that is not a request's.
Quiet == UNCHANGED <<req, calls>>

================================================================================
