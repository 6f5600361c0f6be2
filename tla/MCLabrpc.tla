------------------------------ MODULE MCLabrpc ------------------------------
(* Instances of Labrpc for TLC: every end leads to one server. *)
EXTENDS Labrpc

CONSTANTS kvs, c1, e1

OneServer == [e \in End |-> kvs]

(* Ends differ in nothing but their names: let e1 be the one c1 uses. *)
Mirror == req[c1] # Nil => req[c1].end = e1
=============================================================================
