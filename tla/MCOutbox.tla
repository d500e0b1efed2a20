-------------------------------- MODULE MCOutbox --------------------------------
(* Model checking instances of Outbox: the caps and the drain round are small  *)
(* enough for evictions and partial rounds to happen within a few results.     *)
EXTENDS Outbox

MCSizes == {1, 2}

================================================================================
