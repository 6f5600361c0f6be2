---------------------------- MODULE RaftCommits -----------------------------
(***************************************************************************)
(* Raft with a record of what was ever committed, to compare it with       *)
(* CommittedLog.  The record is a history variable: commitIndex is not     *)
(* saved by persist(), so that after restarts no peer may know any more    *)
(* what was committed, and handed to the services, before.                 *)
(*                                                                         *)
(* Only the behaviours in which no peer votes twice in one term, as in the *)
(* properties of Raft.                                                     *)
(***************************************************************************)
EXTENDS Raft

VARIABLE clog   \* the longest log that a peer ever took for committed

\* What the peer takes for committed: applyCommittedEntries hands it over.
CommittedBy(i) == Prefix(log[i], commitIndex[i])

Record ==
    \/ /\ \A i \in Server : commitIndex'[i] <= Len(clog)
       /\ UNCHANGED clog
    \/ \E i \in Server :
          /\ commitIndex'[i] > Len(clog)
          /\ \A j \in Server : commitIndex'[j] <= commitIndex'[i]
          /\ clog' = CommittedBy(i)'

RecordedNext == Next /\ NoRevote' /\ Record

RecordedSpec == Init /\ clog = <<>> /\ [][RecordedNext]_<<vars, clog>>

CL == INSTANCE CommittedLog WITH seen <- [i \in Server |-> CommittedBy(i)]

\* Raft implements one log that only grows, although elections replace leaders,
\* stale calls cut logs, and restarts make peers forget what is committed:
\* no peer ever hands to its service an entry other than one that any service was
\* handed before at that index.
OneLogForever == CL!Spec
=============================================================================
