--------------------------- MODULE MCRaftDiverged ---------------------------
(* Raft started from clusters whose logs disagree.  Both initial states are  *)
(* reachable from Init; starting there spares TLC the terms it takes to      *)
(* build them.  Every peer has been restarted once, so that nothing volatile *)
(* and no goroutine of the past is left, and no call is under way.           *)
EXTENDS RaftCommits

CONSTANTS s1, s2, s3, a

E(t) == [term |-> t, cmd |-> a]

PowerCycled(logs, terms, votedIn, ledIn, votesCast, appended) ==
    /\ log = logs
    /\ currentTerm = terms
    /\ votedFor = votedIn
    /\ persister = [i \in Server |-> [currentTerm |-> terms[i], votedFor |-> votedIn[i],
                                      log |-> logs[i]]]
    /\ state = [i \in Server |-> Follower]
    /\ votes = [i \in Server |-> {}]
    /\ commitIndex = [i \in Server |-> 0]
    /\ nextIndex = [i \in Server |-> [j \in Server |-> 0]]
    /\ matchIndex = [i \in Server |-> [j \in Server |-> 0]]
    /\ replicators = [i \in Server |-> [j \in Server |-> 0]]
    /\ ticker = [i \in Server |-> Nil]
    /\ boot = [i \in Server |-> 1]
    /\ net = EmptyBag
    /\ won = ledIn
    /\ cast = votesCast
    /\ heard = appended
    /\ clog = <<>>

Of(x1, x2, x3) == [i \in Server |-> CASE i = s1 -> x1 [] i = s2 -> x2 [] i = s3 -> x3]

(* s1 led term 1 with the vote of s3 and crashed with an entry nobody else   *)
(* has; s2 led term 2 with the vote of s3 and did the same.                  *)
TwoOrphansInit ==
    PowerCycled(Of(<<E(1)>>, <<E(2)>>, <<>>), Of(1, 2, 2), Of(s1, s2, s2),
                Of({1}, {2}, {}),
                {<<s1, 1, s1>>, <<s3, 1, s1>>, <<s2, 2, s2>>, <<s3, 2, s2>>}, {})

(* s1 led term 1, brought its first entry to everyone and kept its second to *)
(* itself; s2 led term 2 and brought another second entry to s3.             *)
StaleTailInit ==
    PowerCycled(Of(<<E(1), E(1)>>, <<E(1), E(2)>>, <<E(1), E(2)>>),
                Of(1, 2, 2), Of(s1, s2, Nil), Of({1}, {2}, {}),
                {<<s1, 1, s1>>, <<s3, 1, s1>>, <<s2, 2, s2>>, <<s3, 2, s2>>},
                {<<s2, 1>>, <<s3, 1>>, <<s3, 2>>})
StaleTailSpec == StaleTailInit /\ [][RecordedNext]_<<vars, clog>>

(* s1 led term 1 with everyone's vote and crashed with an entry nobody else  *)
(* has.  Whoever leads term 2 starts two commands, so that two               *)
(* replicateToPeer goroutines race for each follower; those of s1 begin by   *)
(* backing off.                                                              *)
RaceInit ==
    PowerCycled(Of(<<E(1)>>, <<>>, <<>>), Of(1, 1, 1), Of(s1, s1, s1),
                Of({1}, {}, {}), {<<i, 1, s1>> : i \in Server}, {})

Racing == <<s2, 1, s1>> \in cast

(* From RaceInit: term 2 only, and two commands. *)
TwoStarts ==
    \A i \in Server : /\ currentTerm[i] <= 2
                      /\ Cardinality({n \in DOMAIN log[i] : log[i][n].term = 2}) <= 2

(* From TwoOrphansInit: logs of two entries; two calls under way at once only *)
(* once the first of the two new terms is won, and before a restart; one peer *)
(* is restarted.                                                              *)
OneRestart ==
    LET again == {i \in Server : boot[i] > 1}
    IN  /\ \/ BagCardinality(net) <= 1
           \/ /\ again = {} /\ \A i \in Server : currentTerm[i] <= 3
              /\ \E i \in Server : 3 \in won[i]
        /\ Cardinality(again) <= 1
        /\ \A i \in Server : Len(log[i]) <= 2

Budget == IF Racing THEN TwoStarts ELSE OneRestart

(* The restart leaves nobody who knows what was committed, while there is a   *)
(* term left for another leader.                                              *)
Forgets ==
    boot' # boot =>
        /\ ~Racing
        /\ clog # <<>>
        /\ \A i \in Server : commitIndex'[i] = 0 /\ currentTerm[i] <= 3

LogsSpec ==
    (TwoOrphansInit \/ RaceInit) /\ [][RecordedNext /\ Budget' /\ Forgets]_<<vars, clog>>

(* heard is only for a property that is not checked here; the rest of what is *)
(* left out is overwritten before it is read, or a copy (persister).          *)
View ==
    <<currentTerm, votedFor, log, state, commitIndex, replicators, ticker, boot,
      net, won, cast, clog,
      [i \in Server |-> IF state[i] = Leader THEN <<nextIndex[i], matchIndex[i]>> ELSE <<>>],
      [i \in Server |-> IF state[i] = Candidate THEN votes[i] ELSE {}]>>
=============================================================================
