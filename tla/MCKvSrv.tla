------------------------------ MODULE MCKvSrv -------------------------------
(* Instances of KvSrv for TLC. *)
EXTENDS KvSrv, TLC

CONSTANTS t1, t2, k1, k2

\* Each goroutine has a Clerk of its own, as in the tests.
OwnClerk == (t1 :> k1) @@ (t2 :> k2)
=============================================================================
