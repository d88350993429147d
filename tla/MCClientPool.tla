----------------------------- MODULE MCClientPool -----------------------------
(* ClientPool on small sets: two clients, so that one can be held after it   *)
(* was stopped and replaced.                                                 *)
EXTENDS ClientPool
=============================================================================
