------------------------------- MODULE MCRaft -------------------------------
(* Instances of Raft for TLC. *)
EXTENDS Raft, TLC

Symmetry == Permutations(Server)

(* States that differ only in what no later step reads are one state:       *)
(* nextIndex and matchIndex of a peer that does not lead are overwritten by *)
(* becomeLeaderLocked, votes of one that is no candidate by the next        *)
(* election, and persister is a copy (PersistedAgrees).                     *)
View ==
    <<currentTerm, votedFor, log, state, commitIndex, replicators, ticker, boot,
      net, won, cast, heard,
      [i \in Server |-> IF state[i] = Leader THEN <<nextIndex[i], matchIndex[i]>> ELSE <<>>],
      [i \in Server |-> IF state[i] = Candidate THEN votes[i] ELSE {}]>>

(* A run looks at restarts of one peer or at a ticker paused between its two *)
(* critical sections, not at both together, and with either of them at one   *)
(* call under way after the first term.                                      *)
OneDisturbance ==
    LET disturbed == Cardinality({i \in Server : boot[i] > 0})
                       + Cardinality({i \in Server : ticker[i] # Nil})
    IN  /\ disturbed <= 1
        /\ disturbed = 1 => BagCardinality(net) <= 1 \/ \A i \in Server : currentTerm[i] <= 1
=============================================================================
