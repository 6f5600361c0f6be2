------------------------------ MODULE MCTester ------------------------------
(***************************************************************************)
(* An instance of Tester for TLC.  Four parts of the tester that share     *)
(* little state are looked at in one run, each without the noise of the    *)
(* others: links and saved states, appliers across restarts, one and wait  *)
(* against the appliers, and the checks of leaders and terms.              *)
(***************************************************************************)
EXTENDS Tester, TLC, FiniteSetsExt

CONSTANT MaxTotal   \* bound: messages applied by all instances

Symmetry == Permutations(Server) \cup Permutations(Cmd)

Saving   == \E i \in Server, b \in Boot : state[i][b] > 0
Asking   == asked # None
Messages == MapThenSumSet(LAMBDA p : Len(applied[p[1]][p[2]]), Server \X Boot)
Looking  == \E i \in Server : term[i] > 0 \/ led # {} \/ look # None
Rebooted == {i \in Server : boot[i] > 1 \/ rafts[i] = 0}

\* A server that was never stopped is connected, one that was is not.
Cabled == \A i \in Server : at = "idle" => (connected[i] <=> i \notin Rebooted)

\* A test that has failed, or has its verdict, is of no interest any more.
Parts ==
    /\ at # "failed" /\ verdict = None
    /\ Messages <= MaxTotal
    /\ Looking => ~Saving /\ ~Asking /\ Messages = 0 /\ ~snapshot /\ Rebooted = {}
    /\ Saving => ~Asking /\ Messages = 0
    /\ Asking => Cabled /\ Rebooted = {}
    /\ Messages > 0 => Cabled /\ Cardinality(Rebooted) <= 1
=============================================================================
