----------------------------- MODULE MCRaftLive -----------------------------
(* Progress of replication under the leader ldr of term 1, whom voter helped *)
(* elect; every other peer is still in term 0 and may campaign in term 1.    *)
(*                                                                           *)
(* The fairness is what the code and its network give: a goroutine that can  *)
(* run does, and a call that is repeated without end is answered at last     *)
(* (replicateToPeer retries every 50 ms, ticker broadcasts every 100 ms,     *)
(* labrpc loses a call with probability below one).  It is strong where the  *)
(* bound on messages in flight may disable a send again and again.  Nothing  *)
(* is assumed of election timers.                                            *)
EXTENDS Raft

CONSTANTS ldr, voter

LedInit ==
    /\ currentTerm = [i \in Server |-> IF i \in {ldr, voter} THEN 1 ELSE 0]
    /\ votedFor = [i \in Server |-> IF i \in {ldr, voter} THEN ldr ELSE Nil]
    /\ log = [i \in Server |-> <<>>]
    /\ persister = [i \in Server |-> [currentTerm |-> currentTerm[i], votedFor |-> votedFor[i],
                                      log |-> <<>>]]
    /\ state = [i \in Server |-> IF i = ldr THEN Leader ELSE Follower]
    /\ votes = [i \in Server |-> IF i = ldr THEN {ldr, voter} ELSE {}]
    /\ commitIndex = [i \in Server |-> 0]
    /\ nextIndex = [i \in Server |-> [j \in Server |-> IF i = ldr THEN 1 ELSE 0]]
    /\ matchIndex = [i \in Server |-> [j \in Server |-> 0]]
    /\ replicators = [i \in Server |-> [j \in Server |-> 0]]
    /\ ticker = [i \in Server |-> Nil]
    /\ boot = [i \in Server |-> 0]
    /\ net = EmptyBag
    /\ won = [i \in Server |-> IF i = ldr THEN {1} ELSE {}]
    /\ cast = {<<ldr, 1, ldr>>, <<voter, 1, ldr>>}
    /\ heard = {}

\* A call of the leader to j that is answered, and not lost on either way.
Answered(j, hb) ==
    \E m \in DOMAIN net :
        /\ m.type = "AppendEntries" /\ m.from = ldr /\ m.to = j /\ m.hb = hb
        /\ RejectStaleAppend(m) \/ AppendEntries(m)
        /\ ~hb /\ ReplicatorWaits(m) => replicators'[ldr][j] = replicators[ldr][j]

\* Every call and every reply ends somehow.
Delivered ==
    \E m \in DOMAIN net :
        \/ VoteReply(m) \/ AppendReply(m) \/ HeartbeatReplied(m)
        \/ RejectStaleVote(m) \/ RequestVote(m)
        \/ m.type = "AppendEntries" /\ m.from # ldr /\ (RejectStaleAppend(m) \/ AppendEntries(m))

FairSpec ==
    /\ LedInit /\ [][Next]_vars
    /\ \A j \in Server \ {ldr} :
          /\ SF_vars(SendEntries(ldr, j))
          /\ SF_vars(Answered(j, FALSE))
          /\ SF_vars(Heartbeat(ldr, j))
          /\ SF_vars(Answered(j, TRUE))
    /\ WF_vars(Delivered)

\* A command that Start accepted is committed, or the peer stops leading:
\* whatever calls and replies are lost, delayed or overtaken, the replicators
\* of a leader do not all stop before a majority has the entry.
StartedCommits ==
    \A n \in 1..MaxLog :
        Len(log[ldr]) >= n ~> (commitIndex[ldr] >= n \/ state[ldr] # Leader)

\* What the leader has committed every peer learns, from heartbeats if from
\* nothing else, or the leader stops leading.
CommitSpreads ==
    \A j \in Server \ {ldr} : \A n \in 1..MaxLog :
        commitIndex[ldr] >= n ~> (commitIndex[j] >= n \/ state[ldr] # Leader)
=============================================================================
