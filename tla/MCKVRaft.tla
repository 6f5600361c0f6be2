------------------------------ MODULE MCKVRaft ------------------------------
(* Instances of KVRaft for TLC. *)
EXTENDS KVRaft, TLC

ClientSymmetry == Permutations(Client)

\* States where an entry was overtaken satisfy what is claimed of the others
\* and are not explored further.
AllInTurn == overtaken = {}

\* A Clerk that has made its last call takes no further part, nor does a
\* goroutine that will find nothing left to take.
View ==
    <<raftVars, lastApplied, sending, serverVars,
      [i \in Server |-> IF appliers[i] < MaxLog - lastApplied[i]
                         THEN appliers[i] ELSE MaxLog - lastApplied[i]],
      notifyChans, boot, late, replies, overtaken,
      [c \in Client |->
          IF pc[c] = "idle" /\ seqNum[c] = MaxOps
          THEN <<>>
          ELSE <<seqNum[c], op[c], server[c], lastLeader[c], pc[c], wait[c], result[c]>>]>>
=============================================================================
