------------------------------- MODULE MCBridge -------------------------------
(* A thread with questions and the scheduler; one answer fits the cache.   *)
EXTENDS Bridge

OneTick == [r \in Routes |-> 1]
=============================================================================
