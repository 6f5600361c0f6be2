-------------------------------- MODULE Raft --------------------------------
(***************************************************************************)
(* One Raft peer per element of Server, as src/src/raft/raft.go runs it:   *)
(* every action is one critical section under rf.mu, so that a step is     *)
(* what no other goroutine of the peer can observe half-done.  RPCs travel *)
(* through a network (labrpc) that reorders and loses calls but never      *)
(* duplicates one.                                                         *)
(*                                                                         *)
(* Indices: the code keeps a sentinel at log[0]; here log[i][n] is the     *)
(* code's log[n] for n >= 1 and TermAt(l, 0) = 0 stands for the sentinel.  *)
(***************************************************************************)
EXTENDS Naturals, Sequences, FiniteSets, BagsExt, Bags

CONSTANTS
    Server,      \* the peers
    Command,     \* what the service may hand to Start
    Nil,         \* the code's votedFor = -1, and "no value" elsewhere
    MaxEntries,  \* entries per AppendEntries call; 100 in replicateToPeer
    MaxTerm,     \* bound: no election beyond this term
    MaxLog,      \* bound: Start refuses to grow a log beyond this length
    MaxNet,      \* bound: RPC requests and replies in flight
    MaxBoot,     \* bound: restarts of each peer
    MaxStale     \* bound: tickers paused between their two critical sections

ASSUME ServerAssumption == IsFiniteSet(Server) /\ Nil \notin Server
ASSUME BoundAssumption ==
    /\ MaxEntries \in Nat \ {0}
    /\ MaxTerm \in Nat /\ MaxLog \in Nat /\ MaxNet \in Nat
    /\ MaxBoot \in Nat /\ MaxStale \in Nat

Follower  == "Follower"
Candidate == "Candidate"
Leader    == "Leader"

VARIABLES
    currentTerm, votedFor, log,   \* the state persist() saves
    persister,                    \* what the Persister of each peer holds
    state,                        \* Follower, Candidate or Leader
    votes,                        \* voters counted by the peer's latest election
    commitIndex,
    nextIndex, matchIndex,        \* only a leader reads them
    replicators,                  \* replicateToPeer goroutines at the loop head
    ticker,                       \* term a paused ticker has read, or Nil
    boot,                         \* how often the peer was restarted
    net                           \* bag of RPC requests and replies in flight

(* History variables: no guard of the algorithm but "is the election of    *)
(* this term over" (electionDone, which a win sets) reads them.            *)
VARIABLES
    won,                          \* terms in which the peer became leader
    cast,                         \* <<voter, term, candidate>> of each vote given
    heard                         \* <<peer, term>> of each AppendEntries accepted

volatile == <<state, votes, commitIndex, nextIndex, matchIndex>>
vars == <<currentTerm, votedFor, log, persister, state, votes, commitIndex,
          nextIndex, matchIndex, replicators, ticker, boot, net, won, cast, heard>>

Entry == [term : Nat, cmd : Command]

Min2(a, b) == IF a < b THEN a ELSE b
Max2(a, b) == IF a < b THEN b ELSE a

\* Fault: half of the peers is enough.
FaultyMajority(S) == Cardinality(S) >= Cardinality(Server) \div 2

\* votes > peersCount/2 and cnt > len(rf.peers)/2
Majority(S) == Cardinality(S) > Cardinality(Server) \div 2

TermAt(l, n) == IF n = 0 THEN 0 ELSE l[n].term
LastTerm(l) == TermAt(l, Len(l))

-----------------------------------------------------------------------------
(* The RPCs.  A request carries the boot of the peer that called: a reply  *)
(* to an earlier incarnation reaches nobody.                               *)

RequestVoteArgs ==
    [type : {"RequestVote"}, from : Server, to : Server, boot : Nat,
     term : Nat, lastLogIndex : Nat, lastLogTerm : Nat]

\* hb tells broadcastAppendEntries' calls from replicateToPeer's: their
\* replies are handled by different code.
AppendEntriesArgs ==
    [type : {"AppendEntries"}, from : Server, to : Server, boot : Nat,
     term : Nat, prevLogIndex : Nat, prevLogTerm : Nat,
     entries : Seq(Entry), leaderCommit : Nat, hb : BOOLEAN]

\* term is the one the caller started with (a captured variable of its
\* goroutine), replyTerm the Term field of the reply.
RequestVoteReply ==
    [type : {"VoteReply"}, from : Server, to : Server,
     term : Nat, replyTerm : Nat, granted : BOOLEAN]

AppendEntriesReply ==
    [type : {"AppendReply"}, from : Server, to : Server,
     term : Nat, replyTerm : Nat, success : BOOLEAN, match : Nat]

HeartbeatReply == [type : {"HeartbeatReply"}, to : Server, replyTerm : Nat]

Message == RequestVoteArgs \cup AppendEntriesArgs \cup RequestVoteReply
             \cup AppendEntriesReply \cup HeartbeatReply

IsReply(m) == m.type \in {"VoteReply", "AppendReply", "HeartbeatReply"}

\* The bag B with every copy of the messages of gone removed.
Without(B, gone) == [m \in DOMAIN B \ gone |-> B[m]]

Room(k) == BagCardinality(net) + k <= MaxNet

\* The network hands m to a handler and carries the reply r back, or loses it.
Answer(m, r) == net' = BagAdd(BagRemove(net, m), r)
Consume(m)   == net' = BagRemove(net, m)

\* Is the goroutine that sent request m still interested in the reply?
VoteWaits(m) == m.boot = boot[m.from] /\ m.term \notin won[m.from]
ReplicatorWaits(m) ==
    /\ ~m.hb
    /\ m.boot = boot[m.from]
    /\ state[m.from] = Leader
    /\ currentTerm[m.from] = m.term
HeartbeatWaits(m) == m.hb /\ m.boot = boot[m.from]

-----------------------------------------------------------------------------
Init ==
    /\ currentTerm = [i \in Server |-> 0]
    /\ votedFor = [i \in Server |-> Nil]
    /\ log = [i \in Server |-> <<>>]
    /\ persister = [i \in Server |-> [currentTerm |-> 0, votedFor |-> Nil, log |-> <<>>]]
    /\ state = [i \in Server |-> Follower]
    /\ votes = [i \in Server |-> {}]
    /\ commitIndex = [i \in Server |-> 0]
    /\ nextIndex = [i \in Server |-> [j \in Server |-> 0]]
    /\ matchIndex = [i \in Server |-> [j \in Server |-> 0]]
    /\ replicators = [i \in Server |-> [j \in Server |-> 0]]
    /\ ticker = [i \in Server |-> Nil]
    /\ boot = [i \in Server |-> 0]
    /\ net = EmptyBag
    /\ won = [i \in Server |-> {}]
    /\ cast = {}
    /\ heard = {}

\* Fault: votedFor is not encoded.
FaultyPersistShort(i) ==
    persister' = [persister EXCEPT ![i] = [currentTerm |-> currentTerm'[i], log |-> log'[i]]]

\* Fault: persist() is called before votedFor is assigned.
FaultyPersistEarly(i) ==
    persister' = [persister EXCEPT ![i] =
        [currentTerm |-> currentTerm'[i], votedFor |-> votedFor[i], log |-> log'[i]]]

\* persist(): every handler saves after its last change, so the Persister
\* receives the values the step ends with.
Persist(i) ==
    persister' = [persister EXCEPT ![i] =
        [currentTerm |-> currentTerm'[i], votedFor |-> votedFor'[i], log |-> log'[i]]]

\* The replicateToPeer goroutines of a peer that stops leading return at
\* their next look at rf.state.
StopReplicators(i) == replicators' = [replicators EXCEPT ![i] = [j \in Server |-> 0]]

\* becomeFollowerLocked(t), the log left alone.
BecomeFollower(i, t) ==
    /\ state' = [state EXCEPT ![i] = Follower]
    /\ currentTerm' = [currentTerm EXCEPT ![i] = t]
    /\ votedFor' = [votedFor EXCEPT ![i] = Nil]
    /\ UNCHANGED log
    /\ Persist(i)
    /\ StopReplicators(i)

\* A reply makes the caller step down iff it carries a term above its own.
StepDownIfAbove(i, t) ==
    IF t > currentTerm[i]
    THEN BecomeFollower(i, t)
    ELSE UNCHANGED <<state, currentTerm, votedFor, log, persister, replicators>>

-----------------------------------------------------------------------------
(* Elections *)

\* becomeCandidateLocked()
BecomeCandidate(i) ==
    /\ currentTerm[i] < MaxTerm
    /\ state' = [state EXCEPT ![i] = Candidate]
    /\ currentTerm' = [currentTerm EXCEPT ![i] = @ + 1]
    /\ votedFor' = [votedFor EXCEPT ![i] = i]
    /\ UNCHANGED log
    /\ Persist(i)
    /\ StopReplicators(i)
    /\ cast' = cast \cup {<<i, currentTerm[i] + 1, i>>}

VoteRequest(i, j) ==
    [type |-> "RequestVote", from |-> i, to |-> j, boot |-> boot[i],
     term |-> currentTerm[i] + 1,
     lastLogIndex |-> Len(log[i]), lastLogTerm |-> LastTerm(log[i])]

\* startElection(currentTerm + 1): its own vote, and a call to every peer of
\* which the network loses all but those to reached.
StartElection(i, reached) ==
    /\ votes' = [votes EXCEPT ![i] = {i}]
    /\ Room(Cardinality(reached))
    /\ net' = net (+) SetToBag({VoteRequest(i, j) : j \in reached})

\* ticker(), Follower or Candidate, when nothing happens between its two
\* critical sections: the timer has run out and an election starts.
ElectionTimeout(i) ==
    /\ state[i] # Leader
    /\ ticker[i] = Nil
    /\ BecomeCandidate(i)
    /\ \E reached \in SUBSET (Server \ {i}) : StartElection(i, reached)
    /\ UNCHANGED <<commitIndex, nextIndex, matchIndex, ticker, boot, won, heard>>

\* ticker() has read state and currentTerm, released rf.mu, and not yet
\* taken it again.
TickerPause(i) ==
    /\ state[i] # Leader
    /\ ticker[i] = Nil
    /\ Cardinality({j \in Server : ticker[j] # Nil}) < MaxStale
    /\ ticker' = [ticker EXCEPT ![i] = currentTerm[i]]
    /\ UNCHANGED <<currentTerm, votedFor, log, persister, volatile, replicators,
                   boot, net, won, cast, heard>>

\* The paused ticker finds the timer run out.  It looks at neither state nor
\* currentTerm again; startElection(term + 1) gives up unless the term it
\* read is still the one becomeCandidateLocked incremented.
StaleTimeout(i) ==
    /\ ticker[i] # Nil
    /\ BecomeCandidate(i)
    /\ ticker' = [ticker EXCEPT ![i] = Nil]
    /\ \/ /\ ticker[i] = currentTerm[i]
          /\ \E reached \in SUBSET (Server \ {i}) : StartElection(i, reached)
       \/ /\ ticker[i] # currentTerm[i]
          /\ votes' = [votes EXCEPT ![i] = {}]
          /\ UNCHANGED net
    /\ UNCHANGED <<commitIndex, nextIndex, matchIndex, boot, won, heard>>

\* The paused ticker finds that the timer was reset in the meantime.
StaleRest(i) ==
    /\ ticker[i] # Nil
    /\ ticker' = [ticker EXCEPT ![i] = Nil]
    /\ UNCHANGED <<currentTerm, votedFor, log, persister, volatile, replicators,
                   boot, net, won, cast, heard>>

\* candidateUpToDateLocked(args)
CandidateUpToDate(m, l) ==
    IF m.lastLogTerm # LastTerm(l)
    THEN m.lastLogTerm > LastTerm(l)
    ELSE m.lastLogIndex >= Len(l)

\* A refusal whose term is not above the caller's own only ends the wait of
\* the calling goroutine: it is not worth a message.
VoteReplyTo(m, replyTerm, granted) ==
    \/ /\ VoteWaits(m)
       /\ granted \/ replyTerm > m.term
       /\ Answer(m, [type |-> "VoteReply", from |-> m.to, to |-> m.from,
                     term |-> m.term, replyTerm |-> replyTerm, granted |-> granted])
    \/ Consume(m)

\* RequestVote handler, args.Term < rf.currentTerm.
RejectStaleVote(m) ==
    /\ m.type = "RequestVote"
    /\ m.term < currentTerm[m.to]
    /\ VoteReplyTo(m, currentTerm[m.to], FALSE)
    /\ UNCHANGED <<currentTerm, votedFor, log, persister, volatile, replicators,
                   ticker, boot, won, cast, heard>>

\* votedFor once the handler has adopted the term of the request.
VoteBefore(m) == IF m.term > currentTerm[m.to] THEN Nil ELSE votedFor[m.to]

\* RequestVote handler, the rest.
RequestVote(m) ==
    LET i == m.to
        grant == VoteBefore(m) \in {Nil, m.from} /\ CandidateUpToDate(m, log[i])
    IN  /\ m.type = "RequestVote"
        /\ m.term >= currentTerm[i]
        /\ currentTerm' = [currentTerm EXCEPT ![i] = m.term]
        /\ votedFor' = [votedFor EXCEPT ![i] = IF grant THEN m.from ELSE VoteBefore(m)]
        /\ UNCHANGED log
        /\ Persist(i)
        /\ IF m.term > currentTerm[i]
           THEN /\ state' = [state EXCEPT ![i] = Follower]
                /\ StopReplicators(i)
           ELSE UNCHANGED <<state, replicators>>
        /\ cast' = IF grant THEN cast \cup {<<i, m.term, m.from>>} ELSE cast
        /\ VoteReplyTo(m, currentTerm[i], grant)
        /\ UNCHANGED <<votes, commitIndex, nextIndex, matchIndex, ticker, boot, won, heard>>

\* Votes for an election the peer has left behind are counted by nobody.
CountsVote(m) ==
    m.granted /\ state[m.to] = Candidate /\ m.term = currentTerm[m.to]

\* The goroutine of startElection that called m.from.
VoteReply(m) ==
    LET i == m.to
    IN  /\ m.type = "VoteReply"
        /\ votes' = IF CountsVote(m)
                    THEN [votes EXCEPT ![i] = @ \cup {m.from}]
                    ELSE votes
        /\ StepDownIfAbove(i, m.replyTerm)
        /\ Consume(m)
        /\ UNCHANGED <<commitIndex, nextIndex, matchIndex, ticker, boot, won, cast, heard>>

\* startElection sees a majority, sets electionDone (votes still under way
\* are dropped, a goroutine that has a higher term in hand is not) and calls
\* becomeLeaderLocked.
WinElection(i) ==
    /\ state[i] = Candidate
    /\ Majority(votes[i])
    /\ nextIndex' = [nextIndex EXCEPT ![i] = [j \in Server |-> Len(log[i]) + 1]]
    /\ won' = [won EXCEPT ![i] = @ \cup {currentTerm[i]}]
    /\ state' = [state EXCEPT ![i] = Leader]
    /\ matchIndex' = [matchIndex EXCEPT ![i] = [j \in Server |-> 0]]
    /\ net' = Without(net, {m \in DOMAIN net :
                               /\ m.type = "VoteReply" /\ m.granted
                               /\ m.to = i /\ m.term = currentTerm[i]})
    /\ UNCHANGED <<currentTerm, votedFor, log, persister, votes, commitIndex,
                   replicators, ticker, boot, cast, heard>>

-----------------------------------------------------------------------------
(* Log replication *)

\* Fault: the leader does not save the entry it has appended.
FaultyStart(i, c) ==
    /\ state[i] = Leader
    /\ Len(log[i]) < MaxLog
    /\ log' = [log EXCEPT ![i] = Append(@, [term |-> currentTerm[i], cmd |-> c])]
    /\ matchIndex' = [matchIndex EXCEPT ![i][i] = Max2(@, Len(log[i]) + 1)]
    /\ nextIndex' = [nextIndex EXCEPT ![i][i] = Max2(@, Len(log[i]) + 2)]
    /\ replicators' = [replicators EXCEPT ![i] =
                          [j \in Server |-> IF j = i THEN @[j] ELSE @[j] + 1]]
    /\ UNCHANGED <<currentTerm, votedFor, persister, state, votes, commitIndex, ticker, boot,
                   net, won, cast, heard>>

\* Start(c) on a leader; on any other peer it changes nothing.
Start(i, c) ==
    /\ state[i] = Leader
    /\ Len(log[i]) < MaxLog
    /\ log' = [log EXCEPT ![i] = Append(@, [term |-> currentTerm[i], cmd |-> c])]
    /\ UNCHANGED <<currentTerm, votedFor>>
    /\ Persist(i)
    /\ matchIndex' = [matchIndex EXCEPT ![i][i] = Max2(@, Len(log[i]) + 1)]
    /\ nextIndex' = [nextIndex EXCEPT ![i][i] = Max2(@, Len(log[i]) + 2)]
    /\ replicators' = [replicators EXCEPT ![i] =
                          [j \in Server |-> IF j = i THEN @[j] ELSE @[j] + 1]]
    /\ UNCHANGED <<state, votes, commitIndex, ticker, boot, net, won, cast, heard>>

\* Fault: the heartbeat does not carry the commit index.
FaultyHeartbeatArgs(i, j) ==
    [type |-> "AppendEntries", from |-> i, to |-> j, boot |-> boot[i],
     term |-> currentTerm[i],
     prevLogIndex |-> Len(log[i]), prevLogTerm |-> LastTerm(log[i]),
     entries |-> <<>>, leaderCommit |-> 0, hb |-> TRUE]

\* No entries, and the leader's whole log as the point to match.
HeartbeatArgs(i, j) ==
    [type |-> "AppendEntries", from |-> i, to |-> j, boot |-> boot[i],
     term |-> currentTerm[i],
     prevLogIndex |-> Len(log[i]), prevLogTerm |-> LastTerm(log[i]),
     entries |-> <<>>, leaderCommit |-> commitIndex[i], hb |-> TRUE]

\* broadcastAppendEntries(), the call to one peer; the calls the network
\* loses are not sent.
Heartbeat(i, j) ==
    /\ state[i] = Leader
    /\ i # j
    /\ Room(1)
    /\ net' = BagAdd(net, HeartbeatArgs(i, j))
    /\ UNCHANGED <<currentTerm, votedFor, log, persister, volatile, replicators,
                   ticker, boot, won, cast, heard>>

\* replicateToPeer(j), from the loop head to the RPC.
SendEntries(i, j) ==
    LET next == nextIndex[i][j]
        last == Min2(Len(log[i]), next + MaxEntries - 1)
    IN  /\ state[i] = Leader
        /\ replicators[i][j] > 0
        /\ next <= Len(log[i])
        /\ Room(1)
        /\ net' = BagAdd(net,
              [type |-> "AppendEntries", from |-> i, to |-> j, boot |-> boot[i],
               term |-> currentTerm[i],
               prevLogIndex |-> next - 1, prevLogTerm |-> TermAt(log[i], next - 1),
               entries |-> SubSeq(log[i], next, last),
               leaderCommit |-> commitIndex[i], hb |-> FALSE])
        /\ replicators' = [replicators EXCEPT ![i][j] = @ - 1]
        /\ UNCHANGED <<currentTerm, votedFor, log, persister, volatile,
                       ticker, boot, won, cast, heard>>

\* replicateToPeer(j) finds its follower up to date and returns.
ReplicatorDone(i, j) ==
    /\ state[i] = Leader
    /\ replicators[i][j] > 0
    /\ nextIndex[i][j] > Len(log[i])
    /\ replicators' = [replicators EXCEPT ![i][j] = @ - 1]
    /\ UNCHANGED <<currentTerm, votedFor, log, persister, volatile,
                   ticker, boot, net, won, cast, heard>>

\* Fault: the length of the log is all that is checked.
FaultyPrevMatches(m, l) == m.prevLogIndex <= Len(l)

\* Fault: a heartbeat has no entries, so its prevLogTerm is not looked at.
FaultyPrevOfHeartbeat(m, l) ==
    /\ m.prevLogIndex <= Len(l)
    /\ m.prevLogIndex > 0 /\ ~m.hb => l[m.prevLogIndex].term = m.prevLogTerm

\* The log is long enough and has the right term at prevLogIndex.
PrevMatches(m, l) ==
    /\ m.prevLogIndex <= Len(l)
    /\ m.prevLogIndex > 0 => l[m.prevLogIndex].term = m.prevLogTerm

\* An entry of the log and an entry of the call at one index differ in term.
Conflict(l, prev, es) ==
    \E n \in (prev + 1)..Min2(Len(l), prev + Len(es)) : l[n].term # es[n - prev].term

\* Does the scan of rules 3 and 4 pass index n without meeting the end of
\* the log or a conflict?
ScanPasses(l, prev, es, n) ==
    \A x \in (prev + 1)..n :
        /\ x <= Len(l)
        /\ x - prev <= Len(es) => l[x].term = es[x - prev].term

\* Fault: the log is cut behind the entries of the call, conflict or not.
FaultyMergedLog(l, prev, es) == IF es = <<>> THEN l ELSE SubSeq(l, 1, prev) \o es

\* The log after rules 3 and 4: the entries before the first conflict stay,
\* the rest comes from the call; without a conflict nothing is removed.
MergedLog(l, prev, es) ==
    [n \in 1..(IF Conflict(l, prev, es) THEN prev + Len(es)
                                        ELSE Max2(Len(l), prev + Len(es)))
        |-> IF ScanPasses(l, prev, es, n) THEN l[n] ELSE es[n - prev]]

\* Fault: counted from nextIndex as it is by now, which another goroutine may
\* have moved, instead of the one the call was made with.
FaultyNewMatch(m) == nextIndex[m.from][m.to] - 1 + Len(m.entries)

\* What a success tells the leader: newMatch of replicateToPeer, computed from
\* the call and not from the log the leader has by then.
NewMatch(m) == m.prevLogIndex + Len(m.entries)

\* Fault: replicateToPeer gives up when a call fails.
FaultyAppendReplyTo(m, replyTerm, success, idle) ==
    /\ replicators' = idle
    /\ \/ /\ ReplicatorWaits(m)
          /\ Answer(m, [type |-> "AppendReply", from |-> m.to, to |-> m.from,
                        term |-> m.term, replyTerm |-> replyTerm, success |-> success,
                        match |-> NewMatch(m)])
       \/ Consume(m)

\* The reply to a heartbeat matters only when it carries a higher term; the
\* reply to replicateToPeer always does, and losing it sends the goroutine
\* back to its loop head.
AppendReplyTo(m, replyTerm, success, idle) ==
    \/ /\ ReplicatorWaits(m)
       /\ Answer(m, [type |-> "AppendReply", from |-> m.to, to |-> m.from,
                     term |-> m.term, replyTerm |-> replyTerm, success |-> success,
                     match |-> NewMatch(m)])
       /\ replicators' = idle
    \/ /\ HeartbeatWaits(m)
       /\ replyTerm > m.term
       /\ Answer(m, [type |-> "HeartbeatReply", to |-> m.from, replyTerm |-> replyTerm])
       /\ replicators' = idle
    \/ /\ Consume(m)
       /\ replicators' = IF ReplicatorWaits(m)
                         THEN [idle EXCEPT ![m.from][m.to] = @ + 1]
                         ELSE idle

\* AppendEntries handler, rule 1: args.Term < rf.currentTerm.
RejectStaleAppend(m) ==
    /\ m.type = "AppendEntries"
    /\ m.term < currentTerm[m.to]
    /\ AppendReplyTo(m, currentTerm[m.to], FALSE, replicators)
    /\ UNCHANGED <<currentTerm, votedFor, log, persister, volatile,
                   ticker, boot, won, cast, heard>>

\* AppendEntries handler, the rest.  becomeFollowerLocked runs for an equal
\* term too, and clears votedFor.
AppendEntries(m) ==
    LET i == m.to
        ok == PrevMatches(m, log[i])
    IN  /\ m.type = "AppendEntries"
        /\ m.term >= currentTerm[i]
        /\ state' = [state EXCEPT ![i] = Follower]
        /\ currentTerm' = [currentTerm EXCEPT ![i] = m.term]
        /\ votedFor' = [votedFor EXCEPT ![i] = Nil]
        /\ log' = IF ok THEN [log EXCEPT ![i] = MergedLog(@, m.prevLogIndex, m.entries)]
                        ELSE log
        /\ Persist(i)
        /\ commitIndex' = IF ok /\ m.leaderCommit > commitIndex[i]
                          THEN [commitIndex EXCEPT ![i] = Min2(m.leaderCommit, Len(log'[i]))]
                          ELSE commitIndex
        /\ AppendReplyTo(m, currentTerm[i], ok,
                         [replicators EXCEPT ![i] = [j \in Server |-> 0]])
        /\ heard' = heard \cup {<<i, m.term>>}
        /\ UNCHANGED <<votes, nextIndex, matchIndex, ticker, boot, won, cast>>

\* Fault: an entry of any term is committed by counting copies.
FaultyCommittable(i, match) ==
    {n \in (commitIndex[i] + 1)..Len(log[i]) :
        Majority({i} \cup {j \in Server \ {i} : match[j] >= n})}

\* tryAdvanceCommitLocked(): the indices above commitIndex that a majority
\* holds in an entry of the current term.
Committable(i, match) ==
    {n \in (commitIndex[i] + 1)..Len(log[i]) :
        /\ log[i][n].term = currentTerm[i]
        /\ Majority({i} \cup {j \in Server \ {i} : match[j] >= n})}

\* Fault: no bound.  A goroutine alone never needs it, since a call with
\* nextIndex 1 does not fail.
FaultyBackOff(n) == n - 1

\* A failed consistency check moves nextIndex back by one, never below 1.
BackOff(n) == IF n > 1 THEN n - 1 ELSE n

\* replicateToPeer(m.from), from the reply back to the loop head.
AppendReply(m) ==
    LET i == m.to
        j == m.from
    IN  /\ m.type = "AppendReply"
        /\ Consume(m)
        /\ \/ \* no longer the leader of the term the goroutine serves
              /\ state[i] # Leader \/ currentTerm[i] # m.term
              /\ UNCHANGED <<currentTerm, votedFor, log, persister, state, commitIndex,
                             nextIndex, matchIndex, replicators>>
           \/ \* a higher term: step down and return
              /\ state[i] = Leader /\ currentTerm[i] = m.term
              /\ m.replyTerm > currentTerm[i]
              /\ BecomeFollower(i, m.replyTerm)
              /\ UNCHANGED <<commitIndex, nextIndex, matchIndex>>
           \/ \* success: record the progress and try to commit
              /\ state[i] = Leader /\ currentTerm[i] = m.term
              /\ m.replyTerm <= currentTerm[i]
              /\ m.success
              /\ matchIndex' = [matchIndex EXCEPT ![i][j] = Max2(@, m.match)]
              /\ nextIndex' = [nextIndex EXCEPT ![i][j] = matchIndex'[i][j] + 1]
              /\ \E n \in Committable(i, matchIndex'[i]) \cup {commitIndex[i]} :
                    /\ \A k \in Committable(i, matchIndex'[i]) : k <= n
                    /\ commitIndex' = [commitIndex EXCEPT ![i] = n]
              /\ replicators' = [replicators EXCEPT ![i][j] = @ + 1]
              /\ UNCHANGED <<currentTerm, votedFor, log, persister, state>>
           \/ \* the logs did not match: back off by one
              /\ state[i] = Leader /\ currentTerm[i] = m.term
              /\ m.replyTerm <= currentTerm[i]
              /\ ~m.success
              /\ nextIndex' = [nextIndex EXCEPT ![i][j] = BackOff(@)]
              /\ replicators' = [replicators EXCEPT ![i][j] = @ + 1]
              /\ UNCHANGED <<currentTerm, votedFor, log, persister, state, commitIndex,
                             matchIndex>>
        /\ UNCHANGED <<votes, ticker, boot, won, cast, heard>>

\* The goroutine of broadcastAppendEntries gets its reply.
HeartbeatReplied(m) ==
    /\ m.type = "HeartbeatReply"
    /\ StepDownIfAbove(m.to, m.replyTerm)
    /\ Consume(m)
    /\ UNCHANGED <<votes, commitIndex, nextIndex, matchIndex, ticker, boot, won, cast, heard>>

-----------------------------------------------------------------------------
(* Crash and restart: the process is gone with its goroutines, Make() reads *)
(* back what the Persister holds.                                           *)

Reboot(i, disk) ==
    /\ boot[i] < MaxBoot
    /\ boot' = [boot EXCEPT ![i] = @ + 1]
    /\ persister' = [persister EXCEPT ![i] = disk]
    /\ currentTerm' = [currentTerm EXCEPT ![i] = disk.currentTerm]
    /\ votedFor' = [votedFor EXCEPT ![i] = disk.votedFor]
    /\ log' = [log EXCEPT ![i] = disk.log]
    /\ state' = [state EXCEPT ![i] = Follower]
    /\ votes' = [votes EXCEPT ![i] = {}]
    /\ commitIndex' = [commitIndex EXCEPT ![i] = 0]
    /\ nextIndex' = [nextIndex EXCEPT ![i] = [j \in Server |-> 0]]
    /\ matchIndex' = [matchIndex EXCEPT ![i] = [j \in Server |-> 0]]
    /\ ticker' = [ticker EXCEPT ![i] = Nil]
    /\ UNCHANGED <<won, cast>>

\* Replies under way to the crashed peer find no goroutine.
WithoutRepliesTo(B, i) == Without(B, {m \in DOMAIN B : IsReply(m) /\ m.to = i})

\* A crash between critical sections.
Restart(i) ==
    /\ Reboot(i, persister[i])
    /\ StopReplicators(i)
    /\ UNCHANGED heard
    /\ net' = WithoutRepliesTo(net, i)

\* A crash in the middle of a handler: becomeFollowerLocked has saved the new
\* term and the cleared vote, what the handler saves later is lost, and the
\* caller gets no reply.
CrashInHandler(m) ==
    /\ \/ m.type = "RequestVote" /\ m.term > currentTerm[m.to]
       \/ m.type = "AppendEntries" /\ m.term >= currentTerm[m.to]
    /\ Reboot(m.to, [currentTerm |-> m.term, votedFor |-> Nil, log |-> persister[m.to].log])
    /\ net' = WithoutRepliesTo(BagRemove(net, m), m.to)
    /\ replicators' = LET idle == [replicators EXCEPT ![m.to] = [j \in Server |-> 0]]
                      IN  IF m.type = "AppendEntries" /\ ReplicatorWaits(m)
                          THEN [idle EXCEPT ![m.from][m.to] = @ + 1]
                          ELSE idle
    /\ heard' = IF m.type = "AppendEntries" THEN heard \cup {<<m.to, m.term>>} ELSE heard

-----------------------------------------------------------------------------
Next ==
    \/ \E i \in Server :
          \/ ElectionTimeout(i)
          \/ TickerPause(i)
          \/ StaleTimeout(i)
          \/ StaleRest(i)
          \/ WinElection(i)
          \/ Restart(i)
          \/ \E c \in Command : Start(i, c)
          \/ \E j \in Server : Heartbeat(i, j) \/ SendEntries(i, j) \/ ReplicatorDone(i, j)
    \/ \E m \in DOMAIN net :
          \/ RejectStaleVote(m)
          \/ RequestVote(m)
          \/ VoteReply(m)
          \/ RejectStaleAppend(m)
          \/ AppendEntries(m)
          \/ AppendReply(m)
          \/ HeartbeatReplied(m)
          \/ CrashInHandler(m)

Spec == Init /\ [][Next]_vars

-----------------------------------------------------------------------------
(* Properties *)

\* Every variable has its type: in particular the bag of messages only holds
\* RPCs of the five kinds, and what persist() saves is a complete record.
TypeOK ==
    /\ currentTerm \in [Server -> Nat]
    /\ votedFor \in [Server -> Server \cup {Nil}]
    /\ log \in [Server -> Seq(Entry)]
    /\ persister \in [Server -> [currentTerm : Nat, votedFor : Server \cup {Nil},
                                 log : Seq(Entry)]]
    /\ state \in [Server -> {Follower, Candidate, Leader}]
    /\ votes \in [Server -> SUBSET Server]
    /\ commitIndex \in [Server -> Nat]
    /\ nextIndex \in [Server -> [Server -> Nat]]
    /\ matchIndex \in [Server -> [Server -> Nat]]
    /\ replicators \in [Server -> [Server -> Nat]]
    /\ ticker \in [Server -> Nat \cup {Nil}]
    /\ boot \in [Server -> Nat]
    /\ IsABag(net) /\ DOMAIN net \subseteq Message
    /\ won \in [Server -> SUBSET Nat]
    /\ cast \subseteq Server \X Nat \X Server
    /\ heard \subseteq Server \X Nat

\* No peer has given its vote of one term to two candidates.  The code does
\* not guarantee it (OneLeaderPerTerm is violated by a second vote); it is the
\* hypothesis under which the rest of the protocol is examined, so that the
\* one defect does not hide every other.
NoRevote ==
    \A v \in cast : \A c \in Server : <<v[1], v[2], c>> \in cast => c = v[3]

\* The only way to a second vote in a term is an AppendEntries accepted in that
\* very term (becomeFollowerLocked clears votedFor although the term has not
\* changed): neither a restart, nor a crash in the middle of a handler, nor a
\* late or repeated RequestVote makes a peer vote twice.
RevoteNeedsAppend ==
    \A v, w \in cast :
        v[1] = w[1] /\ v[2] = w[2] /\ v[3] # w[3] => <<v[1], v[2]>> \in heard

\* Two peers never both become leader in one term, if nobody voted twice in it:
\* startElection counts no vote of another election, and no vote twice.
ElectionSafety == NoRevote => \A i, j \in Server : i # j => won[i] \cap won[j] = {}

\* The documentation's promise of one leader per term ("the rules of voting
\* guarantee a unique Leader", raft/README.md), without any hypothesis.
OneLeaderPerTerm == \A i, j \in Server : i # j => won[i] \cap won[j] = {}

Prefix(l, n) == SubSeq(l, 1, n)

\* If two logs hold an entry of one term at one index they are equal up to it,
\* whatever AppendEntries calls arrive late, twice sent or out of order.
LogMatching ==
    NoRevote =>
        \A i, j \in Server : \A n \in 1..Min2(Len(log[i]), Len(log[j])) :
            log[i][n].term = log[j][n].term => Prefix(log[i], n) = Prefix(log[j], n)

\* A leader has every entry that any peer of its own or an earlier term takes
\* for committed: what the election restriction and the current-term rule of
\* tryAdvanceCommitLocked are for.
LeaderCompleteness ==
    NoRevote =>
        \A i, j \in Server :
            state[j] = Leader /\ currentTerm[i] <= currentTerm[j]
              => /\ commitIndex[i] <= Len(log[j])
                 /\ Prefix(log[j], commitIndex[i]) = Prefix(log[i], commitIndex[i])

\* No two peers ever take different entries for committed at one index: the
\* services above them apply the same commands in the same order.
StateMachineSafety ==
    NoRevote =>
        \A i, j \in Server : \A n \in 1..Min2(commitIndex[i], commitIndex[j]) :
            log[i][n] = log[j][n]

\* A running peer never takes back what it committed: commitIndex does not move
\* back and no AppendEntries, however late, truncates or overwrites an entry at
\* or below it (applyCommittedEntries may have read it already).
CommittedStays ==
    [][NoRevote' => \A i \in Server :
          boot'[i] = boot[i] =>
              /\ commitIndex[i] <= commitIndex'[i]
              /\ commitIndex'[i] <= Len(log'[i])
              /\ Prefix(log'[i], commitIndex[i]) = Prefix(log[i], commitIndex[i])]_vars

\* What a leader believes of a follower that serves its term is true: the
\* follower's log agrees with the leader's up to matchIndex, although several
\* replicateToPeer goroutines for the follower race and their replies arrive in
\* any order.  tryAdvanceCommitLocked counts on it.
MatchIndexIsTrue ==
    NoRevote =>
        \A i, j \in Server :
            state[i] = Leader /\ currentTerm[j] = currentTerm[i]
              => /\ matchIndex[i][j] <= Len(log[i])
                 /\ matchIndex[i][j] <= Len(log[j])
                 /\ Prefix(log[j], matchIndex[i][j]) = Prefix(log[i], matchIndex[i][j])

\* replicateToPeer slices rf.log[nextIdx : nextIdx+maxEntries] and reads
\* rf.log[nextIdx-1]: with several goroutines per follower moving nextIndex
\* both ways it stays in 1 .. lastLogIndex()+1, so that neither panics.
NextIndexInRange ==
    \A i, j \in Server :
        state[i] = Leader => nextIndex[i][j] \in 1..(Len(log[i]) + 1)

\* What the Persister holds between critical sections is what the peer would
\* lose if it crashed: no handler returns (and so no reply leaves) unsaved.
PersistedAgrees ==
    \A i \in Server :
        persister[i] = [currentTerm |-> currentTerm[i], votedFor |-> votedFor[i],
                        log |-> log[i]]
=============================================================================
