----------------------------- MODULE RaftProofs -----------------------------
(* Theorems about Raft for any finite set of peers and any bounds: types,   *)
(* the range of nextIndex, what is needed for a second vote in a term, and  *)
(* one leader per term.                                                     *)
EXTENDS Raft, TLAPS, FiniteSetTheorems, SequenceTheorems

Disk == [currentTerm : Nat, votedFor : Server \cup {Nil}, log : Seq(Entry)]
Matrix == [Server -> [Server -> Nat]]

\* A replicateToPeer goroutine comes back to its loop head.
LEMMA ReplicatorReturns ==
    ASSUME NEW f \in Matrix, NEW i \in Server, NEW j \in Server,
           NEW g, g = [f EXCEPT ![i][j] = @ + 1]
    PROVE  g \in Matrix
<1>1. f[i][j] + 1 \in Nat
  BY DEF Matrix
<1> QED
  BY <1>1 DEF Matrix

-----------------------------------------------------------------------------
(* The network *)

\* BagAdd puts one message on the network and touches no other.
LEMMA BagAddDomain ==
    ASSUME NEW B, IsABag(B), NEW e
    PROVE  IsABag(BagAdd(B, e)) /\ DOMAIN BagAdd(B, e) = DOMAIN B \cup {e}
BY DEF IsABag, BagAdd

\* BagRemove puts no message on the network.
LEMMA BagRemoveDomain ==
    ASSUME NEW B, IsABag(B), NEW e
    PROVE  IsABag(BagRemove(B, e)) /\ DOMAIN BagRemove(B, e) \subseteq DOMAIN B
BY DEF IsABag, BagRemove

\* Nor does the removal of all the copies of some messages.
LEMMA WithoutDomain ==
    ASSUME NEW B, IsABag(B), NEW gone
    PROVE  IsABag(Without(B, gone)) /\ DOMAIN Without(B, gone) \subseteq DOMAIN B
BY DEF IsABag, Without

\* Sending a set of messages adds just these.
LEMMA BagUnionDomain ==
    ASSUME NEW B, IsABag(B), NEW S
    PROVE  IsABag(B (+) SetToBag(S)) /\ DOMAIN (B (+) SetToBag(S)) = DOMAIN B \cup S
BY DEF IsABag, (+), SetToBag

\* The type field tells the five kinds of messages apart.
LEMMA MessageKinds ==
    ASSUME NEW m \in Message
    PROVE  /\ m.type = "RequestVote" => m \in RequestVoteArgs
           /\ m.type = "AppendEntries" => m \in AppendEntriesArgs
           /\ m.type = "VoteReply" => m \in RequestVoteReply
           /\ m.type = "AppendReply" => m \in AppendEntriesReply
           /\ m.type = "HeartbeatReply" => m \in HeartbeatReply
BY DEF Message, RequestVoteArgs, AppendEntriesArgs, RequestVoteReply,
       AppendEntriesReply, HeartbeatReply

\* The bag of the messages under way, and what it may hold.
NetOK(B) == IsABag(B) /\ DOMAIN B \subseteq Message

\* A new call joins the messages under way.
LEMMA SendNet ==
    ASSUME NetOK(net), NEW m \in Message, net' = BagAdd(net, m)
    PROVE  NetOK(net') /\ DOMAIN net' = DOMAIN net \cup {m}
BY BagAddDomain DEF NetOK

\* Handing a message to its handler leaves the others.
LEMMA ConsumeNet ==
    ASSUME NetOK(net), NEW m, Consume(m)
    PROVE  NetOK(net') /\ DOMAIN net' \subseteq DOMAIN net
BY BagRemoveDomain DEF Consume, NetOK

\* So does answering it, and the answer is the only new message.
LEMMA AnswerNet ==
    ASSUME NetOK(net), NEW m, NEW r \in Message, Answer(m, r)
    PROVE  NetOK(net') /\ DOMAIN net' \subseteq DOMAIN net \cup {r}
<1>1. IsABag(BagRemove(net, m)) /\ DOMAIN BagRemove(net, m) \subseteq DOMAIN net
  BY BagRemoveDomain DEF NetOK
<1>2. IsABag(net') /\ DOMAIN net' = DOMAIN BagRemove(net, m) \cup {r}
  BY <1>1, BagAddDomain DEF Answer
<1> QED
  BY <1>1, <1>2 DEF NetOK

\* The reply RequestVote sends.
VoteReplyMsg(m, t, g) ==
    [type |-> "VoteReply", from |-> m.to, to |-> m.from,
     term |-> m.term, replyTerm |-> t, granted |-> g]

\* Whatever becomes of it, the handler puts no other message on the network.
LEMMA VoteReplyNet ==
    ASSUME NetOK(net), NEW m \in RequestVoteArgs, NEW t \in Nat, NEW g \in BOOLEAN,
           VoteReplyTo(m, t, g)
    PROVE  NetOK(net') /\ DOMAIN net' \subseteq DOMAIN net \cup {VoteReplyMsg(m, t, g)}
<1>1. VoteReplyMsg(m, t, g) \in Message
  BY DEF VoteReplyMsg, Message, RequestVoteArgs, RequestVoteReply
<1>2. CASE Consume(m)
  BY <1>2, ConsumeNet
<1>3. CASE Answer(m, VoteReplyMsg(m, t, g))
  BY <1>1, <1>3, AnswerNet
<1> QED
  BY <1>2, <1>3 DEF VoteReplyTo, VoteReplyMsg

\* The replies AppendEntries sends.
AppendReplyMsg(m, t, ok) ==
    [type |-> "AppendReply", from |-> m.to, to |-> m.from, term |-> m.term,
     replyTerm |-> t, success |-> ok, match |-> NewMatch(m)]
HeartbeatReplyMsg(m, t) == [type |-> "HeartbeatReply", to |-> m.from, replyTerm |-> t]

\* They are the only new messages, and only a replicateToPeer that still leads
\* its term gets one that counts.
LEMMA AppendReplyNet ==
    ASSUME NetOK(net), NEW m \in AppendEntriesArgs, NEW t \in Nat, NEW ok \in BOOLEAN,
           NEW idle \in Matrix, AppendReplyTo(m, t, ok, idle)
    PROVE  /\ NetOK(net')
           /\ DOMAIN net' \subseteq DOMAIN net \cup {AppendReplyMsg(m, t, ok),
                                                    HeartbeatReplyMsg(m, t)}
           /\ AppendReplyMsg(m, t, ok) \in DOMAIN net' =>
                AppendReplyMsg(m, t, ok) \in DOMAIN net \/ ReplicatorWaits(m)
           /\ replicators' \in Matrix
<1>1. AppendReplyMsg(m, t, ok) \in Message /\ HeartbeatReplyMsg(m, t) \in Message
  <2>1. Len(m.entries) \in Nat
    BY LenProperties DEF AppendEntriesArgs
  <2> QED
    BY <2>1 DEF AppendReplyMsg, HeartbeatReplyMsg, Message, AppendEntriesArgs,
                AppendEntriesReply, HeartbeatReply, NewMatch
<1>2. CASE Consume(m) /\ replicators' = IF ReplicatorWaits(m)
                                        THEN [idle EXCEPT ![m.from][m.to] = @ + 1]
                                        ELSE idle
  <2>1. m.from \in Server /\ m.to \in Server
    BY DEF AppendEntriesArgs
  <2>2. [idle EXCEPT ![m.from][m.to] = @ + 1] \in Matrix
    BY <2>1, ReplicatorReturns
  <2> QED
    BY <1>2, <2>2, ConsumeNet
<1>3. CASE ReplicatorWaits(m) /\ Answer(m, AppendReplyMsg(m, t, ok)) /\ replicators' = idle
  BY <1>1, <1>3, AnswerNet
<1>4. CASE Answer(m, HeartbeatReplyMsg(m, t)) /\ replicators' = idle
  <2>1. AppendReplyMsg(m, t, ok) # HeartbeatReplyMsg(m, t)
    BY DEF AppendReplyMsg, HeartbeatReplyMsg
  <2> QED
    BY <1>1, <1>4, <2>1, AnswerNet
<1> QED
  BY <1>2, <1>3, <1>4 DEF AppendReplyTo, AppendReplyMsg, HeartbeatReplyMsg

-----------------------------------------------------------------------------
(* Logs *)

\* The term at an index of the log is a number.
LEMMA TermAtType ==
    ASSUME NEW l \in Seq(Entry), NEW n \in Nat, n <= Len(l)
    PROVE  TermAt(l, n) \in Nat
<1>1. CASE n = 0
  BY <1>1 DEF TermAt
<1>2. CASE n # 0
  <2>1. l[n] \in Entry
    BY <1>2, ElementOfSeq
  <2> QED
    BY <1>2, <2>1 DEF TermAt, Entry
<1> QED
  BY <1>1, <1>2

\* Rules 3 and 4 of AppendEntries make a log out of a log that is long enough
\* and the entries of the call.
LEMMA MergedLogType ==
    ASSUME NEW l \in Seq(Entry), NEW es \in Seq(Entry), NEW prev \in Nat, prev <= Len(l)
    PROVE  MergedLog(l, prev, es) \in Seq(Entry)
<1> DEFINE top == IF Conflict(l, prev, es) THEN prev + Len(es)
                                           ELSE Max2(Len(l), prev + Len(es))
<1>1. Len(l) \in Nat /\ Len(es) \in Nat /\ top \in Nat
  BY LenProperties DEF Max2
<1>2. ASSUME NEW n \in 1..top
      PROVE  (IF ScanPasses(l, prev, es, n) THEN l[n] ELSE es[n - prev]) \in Entry
  <2>1. CASE n <= prev
    <3>1. ScanPasses(l, prev, es, n)
      BY <1>1, <2>1 DEF ScanPasses
    <3>2. l[n] \in Entry
      BY <1>1, <2>1, ElementOfSeq
    <3> QED
      BY <3>1, <3>2
  <2>2. CASE n > prev /\ ScanPasses(l, prev, es, n)
    <3>1. n <= Len(l)
      BY <1>1, <2>2 DEF ScanPasses
    <3>2. l[n] \in Entry
      BY <1>1, <3>1, ElementOfSeq
    <3> QED
      BY <2>2, <3>2
  <2>3. CASE n > prev /\ ~ScanPasses(l, prev, es, n)
    <3>1. n <= prev + Len(es)
      <4>1. CASE Conflict(l, prev, es)
        BY <1>1, <4>1
      <4>2. CASE ~Conflict(l, prev, es)
        <5>1. SUFFICES ASSUME n > prev + Len(es) PROVE FALSE
          BY <1>1
        <5>2. n <= Len(l)
          BY <1>1, <4>2, <5>1 DEF Max2
        <5>3. ASSUME NEW x \in (prev + 1)..n, x - prev <= Len(es)
              PROVE  l[x].term = es[x - prev].term
          BY <1>1, <4>2, <5>2, <5>3 DEF Conflict, Min2
        <5>4. ScanPasses(l, prev, es, n)
          BY <1>1, <5>2, <5>3 DEF ScanPasses
        <5> QED
          BY <2>3, <5>4
      <4> QED
        BY <4>1, <4>2
    <3>2. n - prev \in 1..Len(es)
      BY <1>1, <2>3, <3>1
    <3>3. es[n - prev] \in Entry
      BY <3>2, ElementOfSeq
    <3> QED
      BY <2>3, <3>3
  <2> QED
    BY <1>1, <2>1, <2>2, <2>3
<1> HIDE DEF top
<1>3. [n \in 1..top |-> IF ScanPasses(l, prev, es, n) THEN l[n] ELSE es[n - prev]]
        \in Seq(Entry)
  BY <1>1, <1>2, IsASeq
<1> QED
  BY <1>3 DEF MergedLog, top

-----------------------------------------------------------------------------
(* Types *)

\* The conjuncts of TypeOK under the names used here.
LEMMA TypeFacts ==
    ASSUME TypeOK
    PROVE  /\ currentTerm \in [Server -> Nat]
           /\ votedFor \in [Server -> Server \cup {Nil}]
           /\ log \in [Server -> Seq(Entry)]
           /\ persister \in [Server -> Disk]
           /\ state \in [Server -> {Follower, Candidate, Leader}]
           /\ votes \in [Server -> SUBSET Server]
           /\ commitIndex \in [Server -> Nat]
           /\ nextIndex \in Matrix /\ matchIndex \in Matrix /\ replicators \in Matrix
           /\ ticker \in [Server -> Nat \cup {Nil}]
           /\ boot \in [Server -> Nat]
           /\ NetOK(net)
           /\ won \in [Server -> SUBSET Nat]
           /\ cast \subseteq Server \X Nat \X Server
           /\ heard \subseteq Server \X Nat
BY DEF TypeOK, Disk, Matrix, NetOK

\* What persist() writes is a complete record.
LEMMA PersistType ==
    ASSUME NEW i \in Server, Persist(i), persister \in [Server -> Disk],
           currentTerm' \in [Server -> Nat], votedFor' \in [Server -> Server \cup {Nil}],
           log' \in [Server -> Seq(Entry)]
    PROVE  persister' \in [Server -> Disk]
<1>1. [currentTerm |-> currentTerm'[i], votedFor |-> votedFor'[i], log |-> log'[i]] \in Disk
  BY DEF Disk
<1> QED
  BY <1>1 DEF Persist

\* The goroutines of a peer that stops leading are gone.
LEMMA StopReplicatorsType ==
    ASSUME NEW i \in Server, StopReplicators(i), replicators \in Matrix
    PROVE  replicators' \in Matrix
<1>1. [j \in Server |-> 0] \in [Server -> Nat]
  OBVIOUS
<1> QED
  BY <1>1 DEF StopReplicators, Matrix

\* A replicateToPeer goroutine leaves its loop head.
LEMMA ReplicatorLeaves ==
    ASSUME TypeOK, NEW i \in Server, NEW j \in Server, replicators[i][j] > 0,
           replicators' = [replicators EXCEPT ![i][j] = @ - 1]
    PROVE  replicators' \in Matrix
<1>1. replicators \in Matrix
  BY TypeFacts
<1>2. replicators[i][j] \in Nat
  BY <1>1 DEF Matrix
<1>3. replicators[i][j] - 1 \in Nat
  BY <1>2
<1> QED
  BY <1>1, <1>3 DEF Matrix

\* becomeLeaderLocked and BackOff keep nextIndex above the sentinel: without
\* this replicateToPeer's prevLogIndex would not be a number.
NextPositive == \A i, j \in Server : state[i] = Leader => nextIndex[i][j] >= 1

TypeInv == TypeOK /\ NextPositive

\* StopReplicators, Persist and becomeFollowerLocked assign values of the
\* right type.
LEMMA BecomeFollowerType ==
    ASSUME TypeOK, NEW i \in Server, NEW t \in Nat, BecomeFollower(i, t)
    PROVE  /\ currentTerm' \in [Server -> Nat]
           /\ votedFor' \in [Server -> Server \cup {Nil}]
           /\ log' = log
           /\ persister' \in [Server -> Disk]
           /\ state' \in [Server -> {Follower, Candidate, Leader}]
           /\ state'[i] = Follower /\ \A j \in Server : j # i => state'[j] = state[j]
           /\ replicators' \in Matrix
<1>1. /\ currentTerm' \in [Server -> Nat]
      /\ votedFor' \in [Server -> Server \cup {Nil}]
      /\ log' = log
      /\ state' \in [Server -> {Follower, Candidate, Leader}]
      /\ state'[i] = Follower /\ \A j \in Server : j # i => state'[j] = state[j]
  BY DEF TypeOK, BecomeFollower, Follower
<1>2. persister' \in [Server -> Disk]
  BY <1>1, TypeFacts, PersistType DEF BecomeFollower
<1>3. replicators' \in Matrix
  BY TypeFacts, StopReplicatorsType DEF BecomeFollower
<1> QED
  BY <1>1, <1>2, <1>3

\* So does the caller's reaction to the term of a reply.
LEMMA StepDownType ==
    ASSUME TypeOK, NEW i \in Server, NEW t \in Nat, StepDownIfAbove(i, t)
    PROVE  /\ currentTerm' \in [Server -> Nat]
           /\ votedFor' \in [Server -> Server \cup {Nil}]
           /\ log' = log
           /\ persister' \in [Server -> Disk]
           /\ state' \in [Server -> {Follower, Candidate, Leader}]
           /\ \A j \in Server : state'[j] = state[j] \/ state'[j] = Follower
           /\ replicators' \in Matrix
BY BecomeFollowerType, TypeFacts DEF StepDownIfAbove

\* becomeCandidateLocked keeps the types.
LEMMA BecomeCandidateType ==
    ASSUME TypeOK, NEW i \in Server, BecomeCandidate(i)
    PROVE  /\ currentTerm' \in [Server -> Nat]
           /\ votedFor' \in [Server -> Server \cup {Nil}]
           /\ log' = log
           /\ persister' \in [Server -> Disk]
           /\ state' \in [Server -> {Follower, Candidate, Leader}]
           /\ \A j \in Server : state'[j] = Leader => state[j] = Leader
           /\ replicators' \in Matrix
           /\ cast' \subseteq Server \X Nat \X Server
<1>1. /\ currentTerm' \in [Server -> Nat]
      /\ votedFor' \in [Server -> Server \cup {Nil}]
      /\ log' = log
      /\ state' \in [Server -> {Follower, Candidate, Leader}]
      /\ \A j \in Server : state'[j] = Leader => state[j] = Leader
  BY DEF TypeOK, BecomeCandidate, Candidate, Leader
<1>2. persister' \in [Server -> Disk]
  BY <1>1, TypeFacts, PersistType DEF BecomeCandidate
<1>3. replicators' \in Matrix
  BY TypeFacts, StopReplicatorsType DEF BecomeCandidate
<1>4. cast' \subseteq Server \X Nat \X Server
  BY DEF TypeOK, BecomeCandidate
<1> QED
  BY <1>1, <1>2, <1>3, <1>4

\* startElection calls with RPCs of the right type.
LEMMA StartElectionType ==
    ASSUME TypeOK, NEW i \in Server, NEW reached \in SUBSET (Server \ {i}),
           StartElection(i, reached)
    PROVE  /\ NetOK(net')
           /\ DOMAIN net' = DOMAIN net \cup {VoteRequest(i, j) : j \in reached}
           /\ votes' = [votes EXCEPT ![i] = {i}]
           /\ votes' \in [Server -> SUBSET Server]
<1>1. log[i] \in Seq(Entry) /\ Len(log[i]) \in Nat
  BY LenProperties DEF TypeOK
<1>2. LastTerm(log[i]) \in Nat
  BY <1>1, TermAtType DEF LastTerm
<1>3. \A j \in reached : VoteRequest(i, j) \in RequestVoteArgs
  <2>1. currentTerm[i] + 1 \in Nat /\ boot[i] \in Nat
    BY DEF TypeOK
  <2> QED
    BY <1>1, <1>2, <2>1 DEF VoteRequest, RequestVoteArgs
<1>4. /\ IsABag(net')
      /\ DOMAIN net' = DOMAIN net \cup {VoteRequest(i, j) : j \in reached}
  BY BagUnionDomain DEF StartElection, TypeOK
<1>5. {VoteRequest(i, j) : j \in reached} \subseteq Message
  BY <1>3 DEF Message
<1> QED
  BY <1>4, <1>5 DEF StartElection, TypeOK, NetOK

\* Make() restores values of the right type.
LEMMA RebootType ==
    ASSUME TypeOK, NEW i \in Server,
           NEW disk \in Disk,
           Reboot(i, disk)
    PROVE  /\ currentTerm' \in [Server -> Nat]
           /\ votedFor' \in [Server -> Server \cup {Nil}]
           /\ log' \in [Server -> Seq(Entry)]
           /\ persister' \in [Server -> Disk]
           /\ state' \in [Server -> {Follower, Candidate, Leader}]
           /\ state'[i] = Follower /\ \A j \in Server : j # i => state'[j] = state[j]
           /\ votes' \in [Server -> SUBSET Server]
           /\ commitIndex' \in [Server -> Nat]
           /\ nextIndex' \in Matrix
           /\ \A j \in Server : j # i => nextIndex'[j] = nextIndex[j]
           /\ matchIndex' \in Matrix
           /\ ticker' \in [Server -> Nat \cup {Nil}]
           /\ boot' \in [Server -> Nat]
<1>1. /\ disk.currentTerm \in Nat /\ disk.votedFor \in Server \cup {Nil}
      /\ disk.log \in Seq(Entry)
  BY DEF Disk
<1>2. [j \in Server |-> 0] \in [Server -> Nat]
  OBVIOUS
<1>3. /\ currentTerm' \in [Server -> Nat]
      /\ votedFor' \in [Server -> Server \cup {Nil}]
      /\ log' \in [Server -> Seq(Entry)]
      /\ persister' \in [Server -> Disk]
  BY <1>1, TypeFacts DEF Reboot
<1>4. /\ state' \in [Server -> {Follower, Candidate, Leader}]
      /\ state'[i] = Follower /\ \A j \in Server : j # i => state'[j] = state[j]
      /\ votes' \in [Server -> SUBSET Server]
  BY DEF TypeOK, Reboot, Follower
<1>5. /\ commitIndex' \in [Server -> Nat]
      /\ ticker' \in [Server -> Nat \cup {Nil}]
      /\ boot' \in [Server -> Nat]
  <2>1. /\ commitIndex \in [Server -> Nat] /\ ticker \in [Server -> Nat \cup {Nil}]
        /\ boot \in [Server -> Nat] /\ boot[i] + 1 \in Nat
    BY DEF TypeOK
  <2> QED
    BY <2>1 DEF Reboot
<1>6. /\ nextIndex' \in Matrix
      /\ \A j \in Server : j # i => nextIndex'[j] = nextIndex[j]
      /\ matchIndex' \in Matrix
  <2>1. nextIndex \in Matrix /\ matchIndex \in Matrix
    BY TypeFacts
  <2>2. /\ nextIndex' = [nextIndex EXCEPT ![i] = [j \in Server |-> 0]]
        /\ matchIndex' = [matchIndex EXCEPT ![i] = [j \in Server |-> 0]]
    BY DEF Reboot
  <2> QED
    BY <1>2, <2>1, <2>2 DEF Matrix
<1> QED
  BY <1>3, <1>4, <1>5, <1>6

\* Every variable keeps its type, and nextIndex stays above the sentinel: no
\* handler stores half a record, no reply or request is malformed.
THEOREM RaftTypeInv == Spec => []TypeInv
<1> USE ServerAssumption, BoundAssumption
<1>1. Init => TypeInv
  <2> SUFFICES ASSUME Init PROVE TypeInv
    OBVIOUS
  <2>1. IsABag(net) /\ DOMAIN net \subseteq Message
    BY DEF Init, EmptyBag, SetToBag, IsABag
  <2>2. <<>> \in Seq(Entry)
    BY EmptySeq
  <2>3. state \in [Server -> {Follower, Candidate, Leader}] /\ NextPositive
    BY DEF Init, NextPositive, Follower, Leader
  <2> QED
    BY <2>1, <2>2, <2>3 DEF Init, TypeInv, TypeOK
<1>2. TypeInv /\ [Next]_vars => TypeInv'
  <2> SUFFICES ASSUME TypeInv, [Next]_vars PROVE TypeInv'
    OBVIOUS
  <2> USE DEF TypeInv
  <2>0. /\ NetOK(net)
        /\ \A i \in Server : log[i] \in Seq(Entry) /\ Len(log[i]) \in Nat
                             /\ LastTerm(log[i]) \in Nat
    BY LenProperties, TermAtType DEF TypeOK, NetOK, LastTerm
  <2>1. CASE UNCHANGED vars
    BY <2>1 DEF TypeOK, NextPositive, vars
  <2>2. ASSUME NEW i \in Server, ElectionTimeout(i) PROVE TypeInv'
    <3>1. PICK reached \in SUBSET (Server \ {i}) : StartElection(i, reached)
      BY <2>2 DEF ElectionTimeout
    <3>2. NetOK(net') /\ votes' \in [Server -> SUBSET Server]
      BY <3>1, StartElectionType
    <3> QED
      BY <2>2, <3>2, BecomeCandidateType DEF ElectionTimeout, TypeOK, NextPositive, NetOK, Disk, Matrix
  <2>3. ASSUME NEW i \in Server, TickerPause(i) PROVE TypeInv'
    BY <2>3 DEF TickerPause, volatile, TypeOK, NextPositive
  <2>4. ASSUME NEW i \in Server, StaleTimeout(i) PROVE TypeInv'
    <3>1. NetOK(net') /\ votes' \in [Server -> SUBSET Server]
      <4>1. CASE votes' = [votes EXCEPT ![i] = {}] /\ net' = net
        BY <2>0, <4>1 DEF TypeOK
      <4>2. CASE \E reached \in SUBSET (Server \ {i}) : StartElection(i, reached)
        BY <4>2, StartElectionType
      <4> QED
        BY <2>4, <4>1, <4>2 DEF StaleTimeout
    <3>2. ticker' \in [Server -> Nat \cup {Nil}]
      BY <2>4 DEF StaleTimeout, TypeOK
    <3> QED
      BY <2>4, <3>1, <3>2, BecomeCandidateType DEF StaleTimeout, TypeOK, NextPositive, NetOK, Disk, Matrix
  <2>5. ASSUME NEW i \in Server, StaleRest(i) PROVE TypeInv'
    BY <2>5 DEF StaleRest, volatile, TypeOK, NextPositive
  <2>6. ASSUME NEW i \in Server, WinElection(i) PROVE TypeInv'
    <3>1. NetOK(net')
      BY <2>0, <2>6, WithoutDomain DEF WinElection, NetOK
    <3>2. /\ [j \in Server |-> Len(log[i]) + 1] \in [Server -> Nat]
          /\ [j \in Server |-> 0] \in [Server -> Nat]
      BY <2>0
    <3>3. /\ nextIndex' \in Matrix
          /\ matchIndex' \in Matrix
      BY <2>6, <3>2, TypeFacts DEF WinElection, Matrix
    <3>4. state' \in [Server -> {Follower, Candidate, Leader}] /\ won' \in [Server -> SUBSET Nat]
      BY <2>6 DEF WinElection, TypeOK
    <3>5. NextPositive'
      <4> SUFFICES ASSUME NEW k \in Server, NEW j \in Server, state'[k] = Leader
                   PROVE  nextIndex'[k][j] >= 1
        BY DEF NextPositive
      <4>1. CASE k = i
        BY <2>0, <2>6, <4>1 DEF WinElection, TypeOK
      <4>2. CASE k # i
        BY <2>6, <4>2 DEF WinElection, TypeOK, NextPositive
      <4> QED
        BY <4>1, <4>2
    <3> QED
      BY <2>6, <3>1, <3>3, <3>4, <3>5 DEF WinElection, TypeOK, NetOK, Matrix
  <2>7. ASSUME NEW i \in Server, NEW c \in Command, Start(i, c) PROVE TypeInv'
    <3>1. log' \in [Server -> Seq(Entry)]
      <4>1. [term |-> currentTerm[i], cmd |-> c] \in Entry
        BY DEF Entry, TypeOK
      <4>2. Append(log[i], [term |-> currentTerm[i], cmd |-> c]) \in Seq(Entry)
        BY <2>0, <4>1, AppendProperties
      <4> QED
        BY <2>7, <4>2 DEF Start, TypeOK
    <3>2. persister' \in [Server -> Disk]
      BY <2>7, <3>1, TypeFacts, PersistType DEF Start
    <3>3. matchIndex' \in Matrix
      <4>1. Max2(matchIndex[i][i], Len(log[i]) + 1) \in Nat
        BY <2>0 DEF Max2, TypeOK
      <4> QED
        BY <2>7, <4>1, TypeFacts DEF Start, Matrix
    <3>4. nextIndex' \in Matrix /\ NextPositive'
      <4>1. /\ Max2(nextIndex[i][i], Len(log[i]) + 2) \in Nat
            /\ Max2(nextIndex[i][i], Len(log[i]) + 2) >= 1
        BY <2>0 DEF Max2, TypeOK
      <4>2. /\ nextIndex' \in Matrix
            /\ nextIndex'[i][i] >= 1
            /\ \A k, l \in Server : k # i \/ l # i => nextIndex'[k][l] = nextIndex[k][l]
        <5>1. /\ nextIndex \in Matrix
              /\ nextIndex' = [nextIndex EXCEPT ![i][i] = Max2(@, Len(log[i]) + 2)]
          BY <2>7, TypeFacts DEF Start
        <5> QED
          BY <4>1, <5>1 DEF Matrix
      <4> QED
        BY <2>7, <4>2 DEF Start, NextPositive
    <3>5. replicators' \in Matrix
      <4>1. replicators \in Matrix
        BY TypeFacts
      <4>2. [j \in Server |-> IF j = i THEN replicators[i][j] ELSE replicators[i][j] + 1]
              \in [Server -> Nat]
        BY <4>1 DEF Matrix
      <4> QED
        BY <2>7, <4>1, <4>2 DEF Start, Matrix
    <3> QED
      BY <2>7, <3>1, <3>2, <3>3, <3>4, <3>5 DEF Start, TypeOK, Matrix, Disk
  <2>8. ASSUME NEW i \in Server, NEW j \in Server, Heartbeat(i, j) PROVE TypeInv'
    <3>1. HeartbeatArgs(i, j) \in Message
      <4>1. <<>> \in Seq(Entry)
        BY EmptySeq
      <4> QED
        BY <2>0, <4>1 DEF HeartbeatArgs, Message, AppendEntriesArgs, TypeOK
    <3>2. NetOK(net')
      BY <2>0, <2>8, <3>1, SendNet DEF Heartbeat
    <3> QED
      BY <2>8, <3>2 DEF Heartbeat, volatile, TypeOK, NextPositive, NetOK
  <2>9. ASSUME NEW i \in Server, NEW j \in Server, SendEntries(i, j) PROVE TypeInv'
    <3> DEFINE next == nextIndex[i][j]
               last == Min2(Len(log[i]), next + MaxEntries - 1)
               msg == [type |-> "AppendEntries", from |-> i, to |-> j, boot |-> boot[i],
                       term |-> currentTerm[i],
                       prevLogIndex |-> next - 1, prevLogTerm |-> TermAt(log[i], next - 1),
                       entries |-> SubSeq(log[i], next, last),
                       leaderCommit |-> commitIndex[i], hb |-> FALSE]
    <3>1. next \in Nat /\ next >= 1 /\ next <= Len(log[i])
      BY <2>9 DEF SendEntries, TypeOK, NextPositive
    <3>2. last \in Nat /\ last <= Len(log[i])
      BY <2>0, <3>1 DEF Min2
    <3>3. TermAt(log[i], next - 1) \in Nat
      BY <2>0, <3>1, TermAtType
    <3>4. SubSeq(log[i], next, last) \in Seq(Entry)
      BY <2>0, <3>1, <3>2, SubSeqProperties
    <3> HIDE DEF last
    <3>5. msg \in Message
      <4> HIDE DEF next
      <4>1. boot[i] \in Nat /\ currentTerm[i] \in Nat /\ commitIndex[i] \in Nat
        BY DEF TypeOK
      <4>2. next - 1 \in Nat
        BY <3>1
      <4> QED
        BY <3>3, <3>4, <4>1, <4>2 DEF Message, AppendEntriesArgs
    <3>6. net' = BagAdd(net, msg)
      BY <2>9 DEF SendEntries, last
    <3> HIDE DEF msg, next
    <3>7. NetOK(net')
      BY <2>0, <3>5, <3>6, SendNet
    <3>8. replicators' \in Matrix
      BY <2>9, ReplicatorLeaves DEF SendEntries
    <3> QED
      BY <2>9, <3>7, <3>8 DEF SendEntries, volatile, TypeOK, NextPositive, NetOK, Matrix
  <2>10. ASSUME NEW i \in Server, NEW j \in Server, ReplicatorDone(i, j) PROVE TypeInv'
    <3>1. replicators' \in Matrix
      BY <2>10, ReplicatorLeaves DEF ReplicatorDone
    <3> QED
      BY <2>10, <3>1 DEF ReplicatorDone, volatile, TypeOK, NextPositive, Matrix
  <2>11. ASSUME NEW m \in DOMAIN net, RejectStaleVote(m) PROVE TypeInv'
    <3>1. m \in RequestVoteArgs
      BY <2>0, <2>11, MessageKinds DEF RejectStaleVote, NetOK
    <3>2. currentTerm[m.to] \in Nat
      BY <3>1 DEF RequestVoteArgs, TypeOK
    <3>3. NetOK(net')
      BY <2>0, <2>11, <3>1, <3>2, VoteReplyNet DEF RejectStaleVote
    <3> QED
      BY <2>11, <3>3 DEF RejectStaleVote, volatile, TypeOK, NextPositive, NetOK
  <2>12. ASSUME NEW m \in DOMAIN net, RequestVote(m) PROVE TypeInv'
    <3> DEFINE i == m.to
               grant == VoteBefore(m) \in {Nil, m.from} /\ CandidateUpToDate(m, log[i])
    <3>1. m \in RequestVoteArgs
      BY <2>0, <2>12, MessageKinds DEF RequestVote, NetOK
    <3>2. i \in Server /\ m.from \in Server /\ m.term \in Nat /\ currentTerm[i] \in Nat
      BY <3>1 DEF RequestVoteArgs, TypeOK
    <3>3. VoteBefore(m) \in Server \cup {Nil}
      BY <3>2 DEF VoteBefore, TypeOK
    <3>4. grant \in BOOLEAN
      BY DEF CandidateUpToDate
    <3>5. /\ currentTerm' = [currentTerm EXCEPT ![i] = m.term]
          /\ votedFor' = [votedFor EXCEPT ![i] = IF grant THEN m.from ELSE VoteBefore(m)]
          /\ log' = log
          /\ cast' = IF grant THEN cast \cup {<<i, m.term, m.from>>} ELSE cast
          /\ VoteReplyTo(m, currentTerm[i], grant)
      BY <2>12 DEF RequestVote
    <3> HIDE DEF grant
    <3>6. NetOK(net')
      BY <2>0, <3>1, <3>2, <3>4, <3>5, VoteReplyNet
    <3>7. /\ currentTerm' \in [Server -> Nat]
          /\ votedFor' \in [Server -> Server \cup {Nil}]
          /\ cast' \subseteq Server \X Nat \X Server
      <4>1. /\ currentTerm \in [Server -> Nat]
            /\ votedFor \in [Server -> Server \cup {Nil}]
            /\ cast \subseteq Server \X Nat \X Server
        BY TypeFacts
      <4> QED
        BY <3>2, <3>3, <3>5, <4>1
    <3>8. persister' \in [Server -> Disk]
      BY <2>12, <3>2, <3>5, <3>7, TypeFacts, PersistType DEF RequestVote
    <3>9. /\ state' \in [Server -> {Follower, Candidate, Leader}]
          /\ \A j \in Server : state'[j] = state[j] \/ state'[j] = Follower
          /\ replicators' \in Matrix
      <4>1. CASE m.term > currentTerm[i]
        <5>1. state' = [state EXCEPT ![i] = Follower] /\ StopReplicators(i)
          BY <2>12, <4>1 DEF RequestVote
        <5> QED
          BY <3>2, <5>1, TypeFacts, StopReplicatorsType
      <4>2. CASE ~(m.term > currentTerm[i])
        <5>1. state' = state /\ replicators' = replicators
          BY <2>12, <4>2 DEF RequestVote
        <5> QED
          BY <5>1, TypeFacts
      <4> QED
        BY <4>1, <4>2
    <3>10. NextPositive'
      BY <2>12, <3>9 DEF RequestVote, NextPositive, Leader, Follower
    <3> QED
      BY <2>12, <3>5, <3>6, <3>7, <3>8, <3>9, <3>10 DEF RequestVote, TypeOK, NetOK, Disk, Matrix
  <2>13. ASSUME NEW m \in DOMAIN net, VoteReply(m) PROVE TypeInv'
    <3>1. m \in RequestVoteReply
      BY <2>0, <2>13, MessageKinds DEF VoteReply, NetOK
    <3>2. m.to \in Server /\ m.from \in Server /\ m.replyTerm \in Nat
      BY <3>1 DEF RequestVoteReply
    <3>3. NetOK(net')
      BY <2>0, <2>13, ConsumeNet DEF VoteReply
    <3>4. votes' \in [Server -> SUBSET Server]
      BY <2>13, <3>2 DEF VoteReply, TypeOK
    <3>5. StepDownIfAbove(m.to, m.replyTerm)
      BY <2>13 DEF VoteReply
    <3>6. NextPositive'
      BY <2>13, <3>2, <3>5, StepDownType DEF VoteReply, NextPositive, Leader, Follower
    <3> QED
      BY <2>13, <3>2, <3>3, <3>4, <3>5, <3>6, StepDownType DEF VoteReply, TypeOK, NetOK, Disk, Matrix
  <2>14. ASSUME NEW m \in DOMAIN net, RejectStaleAppend(m) PROVE TypeInv'
    <3>1. m \in AppendEntriesArgs
      BY <2>0, <2>14, MessageKinds DEF RejectStaleAppend, NetOK
    <3>2. currentTerm[m.to] \in Nat /\ replicators \in Matrix
      BY <3>1 DEF AppendEntriesArgs, TypeOK, Matrix
    <3>3. NetOK(net') /\ replicators' \in Matrix
      BY <2>0, <2>14, <3>1, <3>2, AppendReplyNet DEF RejectStaleAppend
    <3> QED
      BY <2>14, <3>3 DEF RejectStaleAppend, volatile, TypeOK, NextPositive, NetOK, Matrix
  <2>15. ASSUME NEW m \in DOMAIN net, AppendEntries(m) PROVE TypeInv'
    <3> DEFINE i == m.to
               ok == PrevMatches(m, log[i])
               idle == [replicators EXCEPT ![i] = [j \in Server |-> 0]]
    <3>1. m \in AppendEntriesArgs
      BY <2>0, <2>15, MessageKinds DEF AppendEntries, NetOK
    <3>2. /\ i \in Server /\ m.term \in Nat /\ m.prevLogIndex \in Nat
          /\ m.entries \in Seq(Entry) /\ m.leaderCommit \in Nat /\ currentTerm[i] \in Nat
      BY <3>1 DEF AppendEntriesArgs, TypeOK
    <3>3. /\ currentTerm' \in [Server -> Nat]
          /\ votedFor' \in [Server -> Server \cup {Nil}]
          /\ state' \in [Server -> {Follower, Candidate, Leader}]
          /\ \A j \in Server : state'[j] = state[j] \/ state'[j] = Follower
          /\ heard' \subseteq Server \X Nat
      BY <2>15, <3>2, TypeFacts DEF AppendEntries
    <3>4. log' \in [Server -> Seq(Entry)]
      <4>1. CASE ok
        <5>1. MergedLog(log[i], m.prevLogIndex, m.entries) \in Seq(Entry)
          BY <2>0, <3>2, <4>1, MergedLogType DEF PrevMatches
        <5> QED
          BY <2>15, <3>2, <4>1, <5>1 DEF AppendEntries, TypeOK
      <4>2. CASE ~ok
        BY <2>15, <4>2 DEF AppendEntries, TypeOK
      <4> QED
        BY <4>1, <4>2
    <3>5. persister' \in [Server -> Disk]
      BY <2>15, <3>2, <3>3, <3>4, TypeFacts, PersistType DEF AppendEntries
    <3>6. commitIndex' \in [Server -> Nat]
      <4>1. Len(log'[i]) \in Nat
        BY <3>2, <3>4, LenProperties
      <4> QED
        BY <2>15, <3>2, <4>1 DEF AppendEntries, Min2, TypeOK
    <3>7. idle \in Matrix /\ ok \in BOOLEAN
      <4>1. [j \in Server |-> 0] \in [Server -> Nat]
        OBVIOUS
      <4> QED
        BY <3>2, <4>1, TypeFacts DEF PrevMatches, Matrix
    <3>8. AppendReplyTo(m, currentTerm[i], ok, idle)
      BY <2>15 DEF AppendEntries
    <3> HIDE DEF ok, idle
    <3>9. NetOK(net') /\ replicators' \in Matrix
      BY <2>0, <3>1, <3>2, <3>7, <3>8, AppendReplyNet
    <3>10. NextPositive'
      BY <2>15, <3>3 DEF AppendEntries, NextPositive, Leader, Follower
    <3> QED
      BY <2>15, <3>3, <3>4, <3>5, <3>6, <3>9, <3>10 DEF AppendEntries, TypeOK, NetOK, Disk, Matrix
  <2>16. ASSUME NEW m \in DOMAIN net, AppendReply(m) PROVE TypeInv'
    <3>0. nextIndex \in Matrix /\ matchIndex \in Matrix /\ replicators \in Matrix
      BY TypeFacts
    <3>1. m \in AppendEntriesReply
      BY <2>0, <2>16, MessageKinds DEF AppendReply, NetOK
    <3>2. /\ m.to \in Server /\ m.from \in Server /\ m.replyTerm \in Nat /\ m.match \in Nat
          /\ m.success \in BOOLEAN
      BY <3>1 DEF AppendEntriesReply
    <3>3. NetOK(net')
      BY <2>0, <2>16, ConsumeNet DEF AppendReply
    <3>4. CASE UNCHANGED <<currentTerm, votedFor, log, persister, state, commitIndex,
                           nextIndex, matchIndex, replicators>>
      BY <2>16, <3>3, <3>4 DEF AppendReply, TypeOK, NextPositive, NetOK
    <3>5. CASE BecomeFollower(m.to, m.replyTerm) /\ UNCHANGED <<commitIndex, nextIndex, matchIndex>>
      <4>1. NextPositive'
        BY <3>2, <3>5, BecomeFollowerType DEF NextPositive, Leader, Follower
      <4> QED
        BY <2>16, <3>2, <3>3, <3>5, <4>1, BecomeFollowerType DEF AppendReply, TypeOK, NetOK, Disk, Matrix
    <3>6. CASE /\ matchIndex' = [matchIndex EXCEPT ![m.to][m.from] = Max2(@, m.match)]
               /\ nextIndex' = [nextIndex EXCEPT ![m.to][m.from] = matchIndex'[m.to][m.from] + 1]
               /\ \E n \in Committable(m.to, matchIndex'[m.to]) \cup {commitIndex[m.to]} :
                     commitIndex' = [commitIndex EXCEPT ![m.to] = n]
               /\ replicators' = [replicators EXCEPT ![m.to][m.from] = @ + 1]
               /\ UNCHANGED <<currentTerm, votedFor, log, persister, state>>
      <4>1. /\ matchIndex' \in Matrix
            /\ replicators' \in Matrix
        <5>1. Max2(matchIndex[m.to][m.from], m.match) \in Nat
          BY <3>0, <3>2 DEF Max2, Matrix
        <5> QED
          BY <3>0, <3>2, <3>6, <5>1, ReplicatorReturns DEF Matrix
      <4>2. nextIndex' \in Matrix /\ NextPositive'
        <5>1. matchIndex'[m.to][m.from] + 1 \in Nat /\ matchIndex'[m.to][m.from] + 1 >= 1
          BY <3>2, <4>1 DEF Matrix
        <5>2. /\ nextIndex' \in Matrix
              /\ nextIndex'[m.to][m.from] >= 1
              /\ \A k, l \in Server :
                    k # m.to \/ l # m.from => nextIndex'[k][l] = nextIndex[k][l]
          BY <3>0, <3>2, <3>6, <5>1 DEF Matrix
        <5> QED
          BY <3>2, <3>6, <5>2 DEF NextPositive
      <4>3. Committable(m.to, matchIndex'[m.to]) \subseteq Nat /\ commitIndex[m.to] \in Nat
        <5>1. commitIndex[m.to] \in Nat /\ Len(log[m.to]) \in Nat
          BY <2>0, <3>2, TypeFacts
        <5> QED
          BY <5>1 DEF Committable
      <4>4. commitIndex' \in [Server -> Nat]
        <5>1. PICK n \in Nat : commitIndex' = [commitIndex EXCEPT ![m.to] = n]
          BY <3>6, <4>3
        <5> QED
          BY <5>1, TypeFacts
      <4> QED
        BY <2>16, <3>3, <3>6, <4>1, <4>2, <4>4 DEF AppendReply, TypeOK, NetOK, Matrix
    <3>7. CASE /\ nextIndex' = [nextIndex EXCEPT ![m.to][m.from] = BackOff(@)]
               /\ replicators' = [replicators EXCEPT ![m.to][m.from] = @ + 1]
               /\ UNCHANGED <<currentTerm, votedFor, log, persister, state, commitIndex,
                              matchIndex>>
      <4>1. nextIndex' \in Matrix /\ NextPositive'
        <5>1. BackOff(nextIndex[m.to][m.from]) \in Nat
          BY <3>0, <3>2 DEF BackOff, Matrix
        <5>2. nextIndex[m.to][m.from] >= 1 => BackOff(nextIndex[m.to][m.from]) >= 1
          BY <3>0, <3>2 DEF BackOff, Matrix
        <5>3. /\ nextIndex' \in Matrix
              /\ nextIndex'[m.to][m.from] = BackOff(nextIndex[m.to][m.from])
              /\ \A k, l \in Server :
                    k # m.to \/ l # m.from => nextIndex'[k][l] = nextIndex[k][l]
          BY <3>0, <3>2, <3>7, <5>1 DEF Matrix
        <5> QED
          BY <3>2, <3>7, <5>2, <5>3 DEF NextPositive
      <4>2. replicators' \in Matrix
        BY <3>0, <3>2, <3>7, ReplicatorReturns
      <4> QED
        BY <2>16, <3>3, <3>7, <4>1, <4>2 DEF AppendReply, TypeOK, NetOK, Matrix
    <3> QED
      BY <2>16, <3>4, <3>5, <3>6, <3>7 DEF AppendReply
  <2>17. ASSUME NEW m \in DOMAIN net, HeartbeatReplied(m) PROVE TypeInv'
    <3>1. m \in HeartbeatReply
      BY <2>0, <2>17, MessageKinds DEF HeartbeatReplied, NetOK
    <3>2. m.to \in Server /\ m.replyTerm \in Nat /\ StepDownIfAbove(m.to, m.replyTerm)
      BY <2>17, <3>1 DEF HeartbeatReplied, HeartbeatReply
    <3>3. NetOK(net')
      BY <2>0, <2>17, ConsumeNet DEF HeartbeatReplied
    <3>4. NextPositive'
      BY <2>17, <3>2, StepDownType DEF HeartbeatReplied, NextPositive, Leader, Follower
    <3> QED
      BY <2>17, <3>2, <3>3, <3>4, StepDownType DEF HeartbeatReplied, TypeOK, NetOK, Disk, Matrix
  <2>18. ASSUME NEW i \in Server, Restart(i) PROVE TypeInv'
    <3>1. NetOK(net')
      BY <2>0, <2>18, WithoutDomain DEF Restart, WithoutRepliesTo, NetOK
    <3>2. replicators' \in Matrix
      BY <2>18 DEF Restart, StopReplicators, TypeOK, Matrix
    <3>3. Reboot(i, persister[i]) /\ persister[i] \in Disk
      BY <2>18 DEF Restart, TypeOK, Disk
    <3>4. NextPositive'
      BY <3>3, RebootType DEF NextPositive, Leader, Follower
    <3> QED
      BY <2>18, <3>1, <3>2, <3>3, <3>4, RebootType DEF Restart, Reboot, TypeOK, NetOK, Disk, Matrix
  <2>19. ASSUME NEW m \in DOMAIN net, CrashInHandler(m) PROVE TypeInv'
    <3> DEFINE disk == [currentTerm |-> m.term, votedFor |-> Nil, log |-> persister[m.to].log]
               idle == [replicators EXCEPT ![m.to] = [j \in Server |-> 0]]
    <3>1. m \in RequestVoteArgs \/ m \in AppendEntriesArgs
      BY <2>0, <2>19, MessageKinds DEF CrashInHandler, NetOK
    <3>2. m.to \in Server /\ m.from \in Server /\ m.term \in Nat
      BY <3>1 DEF RequestVoteArgs, AppendEntriesArgs
    <3>3. disk \in Disk
      BY <3>2 DEF TypeOK, Disk
    <3>4. Reboot(m.to, disk)
      BY <2>19 DEF CrashInHandler
    <3>5. IsABag(BagRemove(net, m)) /\ DOMAIN BagRemove(net, m) \subseteq DOMAIN net
      BY <2>0, BagRemoveDomain DEF NetOK
    <3>6. NetOK(net')
      BY <2>0, <2>19, <3>5, WithoutDomain DEF CrashInHandler, WithoutRepliesTo, NetOK
    <3>7. idle \in Matrix
      <4>1. [j \in Server |-> 0] \in [Server -> Nat]
        OBVIOUS
      <4> QED
        BY <3>2, <4>1, TypeFacts DEF Matrix
    <3>8. replicators' = idle \/ replicators' = [idle EXCEPT ![m.from][m.to] = @ + 1]
      BY <2>19 DEF CrashInHandler
    <3> HIDE DEF idle, disk
    <3>9. replicators' \in Matrix
      BY <3>2, <3>7, <3>8, ReplicatorReturns
    <3>10. heard' \subseteq Server \X Nat
      <4>1. heard \subseteq Server \X Nat
        BY TypeFacts
      <4> QED
        BY <2>19, <3>2, <4>1 DEF CrashInHandler
    <3>11. won' = won /\ cast' = cast
      BY <3>4 DEF Reboot
    <3>12. NextPositive'
      BY <3>2, <3>3, <3>4, RebootType DEF NextPositive, Leader, Follower
    <3> QED
      BY <3>2, <3>3, <3>4, <3>6, <3>9, <3>10, <3>11, <3>12, RebootType DEF TypeOK, NetOK, Disk, Matrix
  <2> QED
    BY <2>1, <2>2, <2>3, <2>4, <2>5, <2>6, <2>7, <2>8, <2>9, <2>10, <2>11, <2>12,
       <2>13, <2>14, <2>15, <2>16, <2>17, <2>18, <2>19 DEF Next
<1> QED
  BY <1>1, <1>2, PTL DEF Spec

\* Every variable of every peer, and every RPC under way, has its type.
THEOREM RaftTypeCorrect == Spec => []TypeOK
BY RaftTypeInv, PTL DEF TypeInv

-----------------------------------------------------------------------------
(* Votes *)

\* persist() at the end of a handler makes the Persister agree again.
LEMMA PersistAgrees ==
    ASSUME TypeOK, PersistedAgrees, NEW i \in Server, Persist(i),
           \A k \in Server \ {i} : /\ currentTerm'[k] = currentTerm[k]
                                   /\ votedFor'[k] = votedFor[k]
                                   /\ log'[k] = log[k]
    PROVE  PersistedAgrees'
<1>1. persister \in [Server -> Disk]
  BY TypeFacts
<1>2. /\ persister'[i] = [currentTerm |-> currentTerm'[i], votedFor |-> votedFor'[i],
                          log |-> log'[i]]
      /\ \A k \in Server \ {i} : persister'[k] = persister[k]
  BY <1>1 DEF Persist
<1> QED
  BY <1>2 DEF PersistedAgrees

\* What any step of any peer may do to terms and votes: a term never goes back;
\* within a term votedFor changes only from Nil, or because of an AppendEntries
\* of that term; a new vote is for the current term and is the one recorded in
\* votedFor, which was free or the same before unless the term is new.
VoteEffects ==
    /\ PersistedAgrees'
    /\ \A k \in Server : currentTerm[k] <= currentTerm'[k]
    /\ cast \subseteq cast'
    /\ heard \subseteq heard'
    /\ \A k \in Server :
          currentTerm'[k] = currentTerm[k] =>
              \/ votedFor'[k] = votedFor[k] \/ votedFor[k] = Nil
              \/ <<k, currentTerm[k]>> \in heard'
    /\ \A k \in Server, t \in Nat, c \in Server :
          <<k, t, c>> \in cast' /\ <<k, t, c>> \notin cast =>
              /\ t = currentTerm'[k] /\ votedFor'[k] = c
              /\ t > currentTerm[k] \/ votedFor[k] \in {Nil, c}

\* Adopting a higher term without a vote is such an effect.
LEMMA HigherTermEffects ==
    ASSUME TypeOK, PersistedAgrees, NEW i \in Server, NEW t \in Nat, t > currentTerm[i],
           BecomeFollower(i, t), cast' = cast, heard' = heard
    PROVE  VoteEffects
<1>1. currentTerm \in [Server -> Nat] /\ votedFor \in [Server -> Server \cup {Nil}]
  BY TypeFacts
<1>2. /\ currentTerm' = [currentTerm EXCEPT ![i] = t]
      /\ votedFor' = [votedFor EXCEPT ![i] = Nil]
      /\ log' = log /\ Persist(i)
  BY DEF BecomeFollower
<1>3. PersistedAgrees'
  BY <1>1, <1>2, PersistAgrees
<1> QED
  BY <1>1, <1>2, <1>3 DEF VoteEffects

\* Starting an election is one too.
LEMMA CandidateEffects ==
    ASSUME TypeOK, PersistedAgrees, NEW i \in Server, BecomeCandidate(i), heard' = heard
    PROVE  VoteEffects
<1>1. currentTerm \in [Server -> Nat] /\ votedFor \in [Server -> Server \cup {Nil}]
  BY TypeFacts
<1>2. /\ currentTerm' = [currentTerm EXCEPT ![i] = @ + 1]
      /\ votedFor' = [votedFor EXCEPT ![i] = i]
      /\ log' = log /\ Persist(i)
      /\ cast' = cast \cup {<<i, currentTerm[i] + 1, i>>}
  BY DEF BecomeCandidate
<1>3. PersistedAgrees'
  BY <1>1, <1>2, PersistAgrees
<1>4. ASSUME NEW k \in Server, NEW t \in Nat, NEW c \in Server,
             <<k, t, c>> \in cast', <<k, t, c>> \notin cast
      PROVE  /\ t = currentTerm'[k] /\ votedFor'[k] = c
             /\ t > currentTerm[k]
  <2>1. k = i /\ t = currentTerm[i] + 1 /\ c = i
    BY <1>2, <1>4
  <2> QED
    BY <1>1, <1>2, <2>1
<1> QED
  BY <1>1, <1>2, <1>3, <1>4 DEF VoteEffects

\* A step that leaves terms, votes and logs alone is one.
LEMMA QuietEffects ==
    ASSUME TypeOK, PersistedAgrees, currentTerm' = currentTerm, votedFor' = votedFor,
           log' = log, persister' = persister, cast' = cast, heard' = heard
    PROVE  VoteEffects
<1>1. currentTerm \in [Server -> Nat]
  BY TypeFacts
<1> QED
  BY <1>1 DEF VoteEffects, PersistedAgrees

\* The RequestVote handler is one.
LEMMA RequestVoteEffects ==
    ASSUME TypeOK, PersistedAgrees, NEW m \in DOMAIN net, RequestVote(m)
    PROVE  VoteEffects
<1> DEFINE i == m.to
           grant == VoteBefore(m) \in {Nil, m.from} /\ CandidateUpToDate(m, log[i])
<1>1. currentTerm \in [Server -> Nat] /\ votedFor \in [Server -> Server \cup {Nil}]
  BY TypeFacts
<1>2. m \in RequestVoteArgs
  BY TypeFacts, MessageKinds DEF RequestVote, NetOK
<1>3. i \in Server /\ m.from \in Server /\ m.term \in Nat
  BY <1>2 DEF RequestVoteArgs
<1>4. /\ m.term >= currentTerm[i]
      /\ currentTerm' = [currentTerm EXCEPT ![i] = m.term]
      /\ votedFor' = [votedFor EXCEPT ![i] = IF grant THEN m.from ELSE VoteBefore(m)]
      /\ log' = log /\ Persist(i)
      /\ cast' = IF grant THEN cast \cup {<<i, m.term, m.from>>} ELSE cast
      /\ heard' = heard
  BY DEF RequestVote
<1>5. PersistedAgrees'
  BY <1>1, <1>3, <1>4, PersistAgrees
<1>6. grant => VoteBefore(m) \in {Nil, m.from}
  OBVIOUS
<1>7. VoteBefore(m) = IF m.term > currentTerm[i] THEN Nil ELSE votedFor[i]
  BY DEF VoteBefore
<1> HIDE DEF grant, i
<1>8. \A k \in Server : currentTerm[k] <= currentTerm'[k]
  BY <1>1, <1>3, <1>4
<1>9. ASSUME NEW k \in Server, currentTerm'[k] = currentTerm[k]
      PROVE  votedFor'[k] = votedFor[k] \/ votedFor[k] = Nil
  <2>1. CASE k # i
    BY <1>1, <1>3, <1>4, <2>1
  <2>2. CASE k = i
    <3>1. m.term = currentTerm[i]
      BY <1>1, <1>3, <1>4, <1>9, <2>2
    <3>2. VoteBefore(m) = votedFor[i]
      BY <1>1, <1>3, <1>7, <3>1
    <3>3. votedFor'[i] = IF grant THEN m.from ELSE VoteBefore(m)
      BY <1>1, <1>3, <1>4
    <3> QED
      BY <1>6, <2>2, <3>2, <3>3
  <2> QED
    BY <2>1, <2>2
<1>10. ASSUME NEW k \in Server, NEW t \in Nat, NEW c \in Server,
              <<k, t, c>> \in cast', <<k, t, c>> \notin cast
       PROVE  /\ t = currentTerm'[k] /\ votedFor'[k] = c
              /\ t > currentTerm[k] \/ votedFor[k] \in {Nil, c}
  <2>1. grant /\ k = i /\ t = m.term /\ c = m.from
    BY <1>4, <1>10
  <2>2. currentTerm'[i] = m.term /\ votedFor'[i] = m.from
    BY <1>1, <1>3, <1>4, <2>1
  <2>3. m.term > currentTerm[i] \/ votedFor[i] \in {Nil, m.from}
    BY <1>6, <1>7, <2>1
  <2> QED
    BY <2>1, <2>2, <2>3
<1> QED
  BY <1>4, <1>5, <1>8, <1>9, <1>10 DEF VoteEffects

\* The AppendEntries handler is one: it is heard.
LEMMA AppendEntriesEffects ==
    ASSUME TypeOK, PersistedAgrees, NEW m \in DOMAIN net, AppendEntries(m)
    PROVE  VoteEffects
<1>1. /\ currentTerm \in [Server -> Nat] /\ votedFor \in [Server -> Server \cup {Nil}]
      /\ log \in [Server -> Seq(Entry)]
  BY TypeFacts
<1>2. m \in AppendEntriesArgs
  BY TypeFacts, MessageKinds DEF AppendEntries, NetOK
<1>3. m.to \in Server /\ m.term \in Nat
  BY <1>2 DEF AppendEntriesArgs
<1>4. /\ m.term >= currentTerm[m.to]
      /\ currentTerm' = [currentTerm EXCEPT ![m.to] = m.term]
      /\ votedFor' = [votedFor EXCEPT ![m.to] = Nil]
      /\ Persist(m.to)
      /\ cast' = cast
      /\ heard' = heard \cup {<<m.to, m.term>>}
  BY DEF AppendEntries
<1>5. \A k \in Server \ {m.to} : log'[k] = log[k]
  BY <1>1, <1>3 DEF AppendEntries
<1>6. PersistedAgrees'
  BY <1>1, <1>3, <1>4, <1>5, PersistAgrees
<1>7. ASSUME NEW k \in Server, currentTerm'[k] = currentTerm[k]
      PROVE  votedFor'[k] = votedFor[k] \/ <<k, currentTerm[k]>> \in heard'
  <2>1. CASE k # m.to
    BY <1>1, <1>3, <1>4, <2>1
  <2>2. CASE k = m.to
    BY <1>1, <1>3, <1>4, <1>7, <2>2
  <2> QED
    BY <2>1, <2>2
<1>8. \A k \in Server : currentTerm[k] <= currentTerm'[k]
  BY <1>1, <1>3, <1>4
<1> QED
  BY <1>4, <1>6, <1>7, <1>8 DEF VoteEffects

\* A restart is one: Make() reads back the values that were there.
LEMMA RestartEffects ==
    ASSUME TypeOK, PersistedAgrees, NEW i \in Server, Restart(i)
    PROVE  VoteEffects
<1>1. /\ currentTerm \in [Server -> Nat] /\ votedFor \in [Server -> Server \cup {Nil}]
      /\ log \in [Server -> Seq(Entry)] /\ persister \in [Server -> Disk]
  BY TypeFacts
<1>2. /\ persister[i].currentTerm = currentTerm[i]
      /\ persister[i].votedFor = votedFor[i]
      /\ persister[i].log = log[i]
  <2>1. persister[i] = [currentTerm |-> currentTerm[i], votedFor |-> votedFor[i],
                        log |-> log[i]]
    BY DEF PersistedAgrees
  <2> QED
    BY <2>1
<1>3. /\ persister' = persister /\ currentTerm' = currentTerm
      /\ votedFor' = votedFor /\ log' = log
      /\ cast' = cast /\ heard' = heard
  BY <1>1, <1>2 DEF Restart, Reboot
<1> QED
  BY <1>3, QuietEffects

\* A crash in a handler is one: what becomeFollowerLocked saved is a new term,
\* or an AppendEntries of this term was heard.
LEMMA CrashEffects ==
    ASSUME TypeOK, PersistedAgrees, NEW m \in DOMAIN net, CrashInHandler(m)
    PROVE  VoteEffects
<1>1. /\ currentTerm \in [Server -> Nat] /\ votedFor \in [Server -> Server \cup {Nil}]
      /\ log \in [Server -> Seq(Entry)] /\ persister \in [Server -> Disk]
  BY TypeFacts
<1>2. m \in RequestVoteArgs \/ m \in AppendEntriesArgs
  BY TypeFacts, MessageKinds DEF CrashInHandler, NetOK
<1>3. m.to \in Server /\ m.term \in Nat
  BY <1>2 DEF RequestVoteArgs, AppendEntriesArgs
<1>4. persister[m.to].log = log[m.to]
  <2>1. persister[m.to] = [currentTerm |-> currentTerm[m.to], votedFor |-> votedFor[m.to],
                           log |-> log[m.to]]
    BY <1>3 DEF PersistedAgrees
  <2> QED
    BY <2>1
<1>5. /\ persister' = [persister EXCEPT ![m.to] =
                          [currentTerm |-> m.term, votedFor |-> Nil, log |-> log[m.to]]]
      /\ currentTerm' = [currentTerm EXCEPT ![m.to] = m.term]
      /\ votedFor' = [votedFor EXCEPT ![m.to] = Nil]
      /\ log' = [log EXCEPT ![m.to] = log[m.to]]
      /\ cast' = cast
  BY <1>4 DEF CrashInHandler, Reboot
<1>6. \/ m.term > currentTerm[m.to] /\ heard' \in {heard, heard \cup {<<m.to, m.term>>}}
      \/ m.term >= currentTerm[m.to] /\ heard' = heard \cup {<<m.to, m.term>>}
  BY DEF CrashInHandler
<1>7. PersistedAgrees'
  BY <1>1, <1>3, <1>5 DEF PersistedAgrees
<1>8. ASSUME NEW k \in Server, currentTerm'[k] = currentTerm[k]
      PROVE  votedFor'[k] = votedFor[k] \/ <<k, currentTerm[k]>> \in heard'
  <2>1. CASE k # m.to
    BY <1>1, <1>3, <1>5, <2>1
  <2>2. CASE k = m.to
    BY <1>1, <1>3, <1>5, <1>6, <1>8, <2>2
  <2> QED
    BY <2>1, <2>2
<1>9. \A k \in Server : currentTerm[k] <= currentTerm'[k]
  BY <1>1, <1>3, <1>5, <1>6
<1> QED
  BY <1>5, <1>6, <1>7, <1>8, <1>9 DEF VoteEffects

\* Every step has only such effects.
LEMMA StepEffects ==
    ASSUME TypeOK, PersistedAgrees, [Next]_vars
    PROVE  VoteEffects
<1>1. CASE UNCHANGED vars
  BY <1>1, QuietEffects DEF vars
<1>2. ASSUME NEW i \in Server, ElectionTimeout(i) \/ StaleTimeout(i) PROVE VoteEffects
  BY <1>2, CandidateEffects DEF ElectionTimeout, StaleTimeout
<1>3. ASSUME NEW i \in Server, TickerPause(i) \/ StaleRest(i) \/ WinElection(i)
      PROVE  VoteEffects
  BY <1>3, QuietEffects DEF TickerPause, StaleRest, WinElection
<1>4. ASSUME NEW i \in Server, Restart(i) PROVE VoteEffects
  BY <1>4, RestartEffects
<1>5. ASSUME NEW i \in Server, NEW c \in Command, Start(i, c) PROVE VoteEffects
  <2>1. /\ currentTerm' = currentTerm /\ votedFor' = votedFor /\ Persist(i)
        /\ cast' = cast /\ heard' = heard
    BY <1>5 DEF Start
  <2>2. currentTerm \in [Server -> Nat] /\ log \in [Server -> Seq(Entry)]
    BY TypeFacts
  <2>3. \A k \in Server \ {i} : log'[k] = log[k]
    BY <1>5, <2>2 DEF Start
  <2>4. PersistedAgrees'
    BY <2>1, <2>3, PersistAgrees
  <2> QED
    BY <2>1, <2>2, <2>4 DEF VoteEffects
<1>6. ASSUME NEW i \in Server, NEW j \in Server,
             Heartbeat(i, j) \/ SendEntries(i, j) \/ ReplicatorDone(i, j)
      PROVE  VoteEffects
  BY <1>6, QuietEffects DEF Heartbeat, SendEntries, ReplicatorDone
<1>7. ASSUME NEW m \in DOMAIN net, RejectStaleVote(m) \/ RejectStaleAppend(m)
      PROVE  VoteEffects
  BY <1>7, QuietEffects DEF RejectStaleVote, RejectStaleAppend
<1>8. ASSUME NEW m \in DOMAIN net, RequestVote(m) PROVE VoteEffects
  BY <1>8, RequestVoteEffects
<1>9. ASSUME NEW m \in DOMAIN net, AppendEntries(m) PROVE VoteEffects
  BY <1>9, AppendEntriesEffects
<1>10. ASSUME NEW m \in DOMAIN net, VoteReply(m) \/ HeartbeatReplied(m) PROVE VoteEffects
  <2>1. m \in RequestVoteReply \/ m \in HeartbeatReply
    BY <1>10, TypeFacts, MessageKinds DEF VoteReply, HeartbeatReplied, NetOK
  <2>2. m.to \in Server /\ m.replyTerm \in Nat
    BY <2>1 DEF RequestVoteReply, HeartbeatReply
  <2>3. StepDownIfAbove(m.to, m.replyTerm) /\ cast' = cast /\ heard' = heard
    BY <1>10 DEF VoteReply, HeartbeatReplied
  <2>4. CASE m.replyTerm > currentTerm[m.to]
    BY <2>2, <2>3, <2>4, HigherTermEffects DEF StepDownIfAbove
  <2>5. CASE ~(m.replyTerm > currentTerm[m.to])
    BY <2>3, <2>5, QuietEffects DEF StepDownIfAbove
  <2> QED
    BY <2>4, <2>5
<1>11. ASSUME NEW m \in DOMAIN net, AppendReply(m) PROVE VoteEffects
  <2>1. m \in AppendEntriesReply
    BY <1>11, TypeFacts, MessageKinds DEF AppendReply, NetOK
  <2>2. m.to \in Server /\ m.replyTerm \in Nat
    BY <2>1 DEF AppendEntriesReply
  <2>3. cast' = cast /\ heard' = heard
    BY <1>11 DEF AppendReply
  <2>4. CASE m.replyTerm > currentTerm[m.to] /\ BecomeFollower(m.to, m.replyTerm)
    BY <2>2, <2>3, <2>4, HigherTermEffects
  <2>5. CASE UNCHANGED <<currentTerm, votedFor, log, persister>>
    BY <2>3, <2>5, QuietEffects
  <2> QED
    BY <1>11, <2>4, <2>5 DEF AppendReply
<1>12. ASSUME NEW m \in DOMAIN net, CrashInHandler(m) PROVE VoteEffects
  BY <1>12, CrashEffects
<1> QED
  BY <1>1, <1>2, <1>3, <1>4, <1>5, <1>6, <1>7, <1>8, <1>9, <1>10, <1>11, <1>12 DEF Next

\* The vote a peer gave in its current term is the one in votedFor, unless an
\* AppendEntries of that term has cleared it; and it gave none in a later term.
LastVote ==
    \A k \in Server, t \in Nat, c \in Server :
        <<k, t, c>> \in cast =>
            /\ t <= currentTerm[k]
            /\ t = currentTerm[k] => votedFor[k] = c \/ <<k, t>> \in heard

\* RevoteNeedsAppend, the components of a vote named.
TwoVotesHeard ==
    \A k \in Server, t \in Nat, c, d \in Server :
        <<k, t, c>> \in cast /\ <<k, t, d>> \in cast /\ c # d => <<k, t>> \in heard

VoteInv == PersistedAgrees /\ LastVote /\ TwoVotesHeard

\* The inductive invariant behind RevoteNeedsAppend: for every set of peers the
\* Persister agrees with the peer, and votedFor records the vote of the term.
THEOREM RaftVoteInv == Spec => []VoteInv
<1> USE ServerAssumption
<1>1. Init => VoteInv
  BY DEF Init, VoteInv, PersistedAgrees, LastVote, TwoVotesHeard
<1>2. TypeOK /\ TypeOK' /\ VoteInv /\ [Next]_vars => VoteInv'
  <2> SUFFICES ASSUME TypeOK, TypeOK', VoteInv, [Next]_vars PROVE VoteInv'
    OBVIOUS
  <2>1. VoteEffects
    BY StepEffects DEF VoteInv
  <2>2. currentTerm \in [Server -> Nat] /\ currentTerm' \in [Server -> Nat]
    BY DEF TypeOK
  <2>3. LastVote'
    <3> SUFFICES ASSUME NEW k \in Server, NEW t \in Nat, NEW c \in Server, <<k, t, c>> \in cast'
                 PROVE  /\ t <= currentTerm'[k]
                        /\ t = currentTerm'[k] => votedFor'[k] = c \/ <<k, t>> \in heard'
      BY DEF LastVote
    <3>1. CASE <<k, t, c>> \notin cast
      BY <2>1, <2>2, <3>1 DEF VoteEffects
    <3>2. CASE <<k, t, c>> \in cast
      <4>1. t <= currentTerm[k] /\ currentTerm[k] <= currentTerm'[k]
        BY <2>1, <3>2 DEF VoteEffects, VoteInv, LastVote
      <4>2. ASSUME t = currentTerm'[k] PROVE votedFor'[k] = c \/ <<k, t>> \in heard'
        <5>1. t = currentTerm[k]
          BY <2>2, <4>1, <4>2
        <5>2. votedFor[k] = c \/ <<k, t>> \in heard'
          BY <2>1, <3>2, <5>1 DEF VoteEffects, VoteInv, LastVote
        <5>3. \/ votedFor'[k] = votedFor[k] \/ votedFor[k] = Nil \/ <<k, t>> \in heard'
          BY <2>1, <4>2, <5>1 DEF VoteEffects
        <5> QED
          BY <5>2, <5>3
      <4> QED
        BY <2>2, <4>1, <4>2
    <3> QED
      BY <3>1, <3>2
  <2>4. TwoVotesHeard'
    <3> SUFFICES ASSUME NEW k \in Server, NEW t \in Nat, NEW c \in Server, NEW d \in Server,
                        <<k, t, c>> \in cast', <<k, t, d>> \in cast', c # d
                 PROVE  <<k, t>> \in heard'
      BY DEF TwoVotesHeard
    <3>1. CASE <<k, t, c>> \in cast /\ <<k, t, d>> \in cast
      BY <2>1, <3>1 DEF VoteEffects, VoteInv, TwoVotesHeard
    <3>2. ASSUME NEW x \in Server, NEW y \in Server, x # y,
                 <<k, t, x>> \in cast', <<k, t, x>> \notin cast, <<k, t, y>> \in cast
          PROVE  <<k, t>> \in heard'
      <4>1. t > currentTerm[k] \/ votedFor[k] \in {Nil, x}
        BY <2>1, <3>2 DEF VoteEffects
      <4>2. t <= currentTerm[k] /\ (t = currentTerm[k] => votedFor[k] = y \/ <<k, t>> \in heard)
        BY <3>2 DEF VoteInv, LastVote
      <4>3. t = currentTerm'[k] /\ currentTerm[k] <= currentTerm'[k]
        BY <2>1, <3>2 DEF VoteEffects
      <4>4. t = currentTerm[k] /\ votedFor[k] \in {Nil, x}
        BY <2>2, <4>1, <4>2, <4>3
      <4>5. <<k, t>> \in heard
        BY <3>2, <4>2, <4>4
      <4> QED
        BY <2>1, <4>5 DEF VoteEffects
    <3>3. CASE <<k, t, c>> \notin cast /\ <<k, t, d>> \notin cast
      BY <2>1, <3>3 DEF VoteEffects
    <3> QED
      BY <3>1, <3>2, <3>3
  <2> QED
    BY <2>1, <2>3, <2>4 DEF VoteInv, VoteEffects
<1> QED
  BY <1>1, <1>2, RaftTypeCorrect, PTL DEF Spec

\* A second vote in a term needs an AppendEntries accepted in that term: no
\* crash, restart, or repeated RequestVote is enough.
THEOREM RaftRevote == Spec => []RevoteNeedsAppend
<1>1. TypeOK /\ VoteInv => RevoteNeedsAppend
  <2> SUFFICES ASSUME TypeOK, VoteInv, NEW v \in cast, NEW w \in cast,
                      v[1] = w[1], v[2] = w[2], v[3] # w[3]
               PROVE  <<v[1], v[2]>> \in heard
    BY DEF RevoteNeedsAppend
  <2>1. v \in Server \X Nat \X Server /\ w \in Server \X Nat \X Server
    BY DEF TypeOK
  <2>2. v = <<v[1], v[2], v[3]>> /\ w = <<v[1], v[2], w[3]>>
    BY <2>1
  <2>3. v[1] \in Server /\ v[2] \in Nat /\ v[3] \in Server /\ w[3] \in Server
    BY <2>1
  <2> QED
    BY <2>2, <2>3 DEF VoteInv, TwoVotesHeard
<1> QED
  BY <1>1, RaftTypeCorrect, RaftVoteInv, PTL

-----------------------------------------------------------------------------
(* Elections *)

\* Two majorities of the peers have a peer in common.
LEMMA MajoritiesMeet ==
    ASSUME NEW P \in SUBSET Server, NEW Q \in SUBSET Server, Majority(P), Majority(Q)
    PROVE  \E v \in P : v \in Q
<1> SUFFICES ASSUME P \cap Q = {} PROVE FALSE
  OBVIOUS
<1>1. IsFiniteSet(Server) /\ IsFiniteSet(P) /\ IsFiniteSet(Q) /\ IsFiniteSet(P \cup Q)
  BY ServerAssumption, FS_Subset
<1>2. /\ Cardinality(Server) \in Nat /\ Cardinality(P) \in Nat /\ Cardinality(Q) \in Nat
      /\ Cardinality(P \cup Q) \in Nat
  BY <1>1, FS_CardinalityType
<1>3. Cardinality(P \cup Q) = Cardinality(P) + Cardinality(Q) - Cardinality(P \cap Q)
  BY <1>1, FS_Union
<1>4. Cardinality(P \cap Q) = 0
  BY FS_EmptySet
<1>5. Cardinality(P \cup Q) <= Cardinality(Server)
  <2>1. P \cup Q \in SUBSET Server
    OBVIOUS
  <2> QED
    BY <1>1, <2>1, FS_Subset
<1> QED
  BY <1>2, <1>3, <1>4, <1>5 DEF Majority

\* A granted vote that startElection may still count.
Granted(m) == m.type = "VoteReply" /\ m.granted

\* What any step may do to an election: a granted vote on the network is in
\* cast; a candidate's set of votes grows by a granted vote of its term, or is
\* a new election's; and only a majority of them wins the term.
ElectionEffects ==
    /\ \A m \in DOMAIN net' :
          Granted(m) => m \in DOMAIN net \/ <<m.from, m.term, m.to>> \in cast'
    /\ \A i \in Server :
          state'[i] = Candidate =>
              \/ /\ state[i] = Candidate /\ currentTerm'[i] = currentTerm[i]
                 /\ \A v \in votes'[i] :
                       \/ v \in votes[i]
                       \/ \E m \in DOMAIN net : /\ Granted(m) /\ m.from = v /\ m.to = i
                                                /\ m.term = currentTerm[i]
              \/ \A v \in votes'[i] : <<v, currentTerm'[i], i>> \in cast'
    /\ \A i \in Server :
          \/ won'[i] = won[i]
          \/ /\ state[i] = Candidate /\ Majority(votes[i])
             /\ won'[i] = won[i] \cup {currentTerm[i]}

\* A step that sends no granted vote and leaves each candidate alone, or makes
\* it no candidate, has only such effects.
LEMMA NoCampaign ==
    ASSUME \A m \in DOMAIN net' : Granted(m) => m \in DOMAIN net,
           \A i \in Server : \/ state'[i] # Candidate
                             \/ /\ state'[i] = state[i] /\ currentTerm'[i] = currentTerm[i]
                                /\ votes'[i] = votes[i],
           won' = won
    PROVE  ElectionEffects
BY DEF ElectionEffects

\* So has a peer's step down on a higher term.
LEMMA StepDownFrame ==
    ASSUME TypeOK, NEW i \in Server, NEW t \in Nat,
           BecomeFollower(i, t) \/ StepDownIfAbove(i, t)
    PROVE  \A k \in Server : \/ state'[k] = Follower
                             \/ state'[k] = state[k] /\ currentTerm'[k] = currentTerm[k]
<1>1. /\ state \in [Server -> {Follower, Candidate, Leader}]
      /\ currentTerm \in [Server -> Nat]
  BY TypeFacts
<1>2. CASE BecomeFollower(i, t)
  BY <1>1, <1>2 DEF BecomeFollower
<1>3. CASE ~BecomeFollower(i, t)
  BY <1>3 DEF StepDownIfAbove
<1> QED
  BY <1>2, <1>3

\* The start of an election: the one vote is the candidate's own.
LEMMA CampaignEffects ==
    ASSUME TypeOK, NEW i \in Server, BecomeCandidate(i), won' = won,
           \/ \E reached \in SUBSET (Server \ {i}) : StartElection(i, reached)
           \/ votes' = [votes EXCEPT ![i] = {}] /\ net' = net
    PROVE  ElectionEffects
<1>1. /\ state \in [Server -> {Follower, Candidate, Leader}]
      /\ currentTerm \in [Server -> Nat] /\ votes \in [Server -> SUBSET Server]
  BY TypeFacts
<1>2. \A m \in DOMAIN net' : Granted(m) => m \in DOMAIN net
  <2>1. CASE net' = net
    BY <2>1
  <2>2. ASSUME NEW reached \in SUBSET (Server \ {i}), StartElection(i, reached)
        PROVE  \A m \in DOMAIN net' : Granted(m) => m \in DOMAIN net
    <3>1. DOMAIN net' = DOMAIN net \cup {VoteRequest(i, j) : j \in reached}
      BY <2>2, StartElectionType
    <3>2. \A j \in reached : ~Granted(VoteRequest(i, j))
      BY DEF Granted, VoteRequest
    <3> QED
      BY <3>1, <3>2
  <2> QED
    BY <2>1, <2>2
<1>3. votes' = [votes EXCEPT ![i] = {i}] \/ votes' = [votes EXCEPT ![i] = {}]
  BY DEF StartElection
<1>4. /\ state' = [state EXCEPT ![i] = Candidate]
      /\ currentTerm' = [currentTerm EXCEPT ![i] = @ + 1]
      /\ <<i, currentTerm[i] + 1, i>> \in cast'
  BY DEF BecomeCandidate
<1>5. \A v \in votes'[i] : <<v, currentTerm'[i], i>> \in cast'
  BY <1>1, <1>3, <1>4
<1>6. \A k \in Server : k # i => /\ state'[k] = state[k] /\ currentTerm'[k] = currentTerm[k]
                                 /\ votes'[k] = votes[k]
  BY <1>1, <1>3, <1>4
<1> QED
  BY <1>2, <1>5, <1>6 DEF ElectionEffects

\* The RequestVote handler: a granted vote it answers with is in cast.
LEMMA RequestVoteElection ==
    ASSUME TypeOK, NEW m \in DOMAIN net, RequestVote(m)
    PROVE  ElectionEffects
<1> DEFINE i == m.to
           grant == VoteBefore(m) \in {Nil, m.from} /\ CandidateUpToDate(m, log[i])
<1>1. /\ state \in [Server -> {Follower, Candidate, Leader}]
      /\ currentTerm \in [Server -> Nat] /\ NetOK(net)
  BY TypeFacts
<1>2. m \in RequestVoteArgs
  BY <1>1, MessageKinds DEF RequestVote, NetOK
<1>3. i \in Server /\ m.from \in Server /\ m.term \in Nat
  BY <1>2 DEF RequestVoteArgs
<1>4. /\ m.term >= currentTerm[i]
      /\ currentTerm' = [currentTerm EXCEPT ![i] = m.term]
      /\ cast' = IF grant THEN cast \cup {<<i, m.term, m.from>>} ELSE cast
      /\ VoteReplyTo(m, currentTerm[i], grant)
      /\ votes' = votes /\ won' = won
      /\ IF m.term > currentTerm[i] THEN state' = [state EXCEPT ![i] = Follower]
                                    ELSE state' = state
  BY DEF RequestVote
<1>5. grant \in BOOLEAN
  BY DEF CandidateUpToDate
<1> HIDE DEF grant, i
<1>6. DOMAIN net' \subseteq DOMAIN net \cup {VoteReplyMsg(m, currentTerm[i], grant)}
  BY <1>1, <1>2, <1>3, <1>4, <1>5, VoteReplyNet
<1>7. ASSUME NEW r \in DOMAIN net', Granted(r)
      PROVE  r \in DOMAIN net \/ <<r.from, r.term, r.to>> \in cast'
  <2>1. CASE r = VoteReplyMsg(m, currentTerm[i], grant)
    <3>1. grant /\ r.from = i /\ r.term = m.term /\ r.to = m.from
      BY <1>7, <2>1 DEF VoteReplyMsg, Granted, i
    <3> QED
      BY <1>4, <3>1
  <2> QED
    BY <1>6, <2>1
<1>8. ASSUME NEW k \in Server, state'[k] = Candidate
      PROVE  state[k] = Candidate /\ currentTerm'[k] = currentTerm[k] /\ votes'[k] = votes[k]
  <2>1. CASE m.term > currentTerm[i]
    BY <1>1, <1>3, <1>4, <1>8, <2>1 DEF Follower, Candidate
  <2>2. CASE ~(m.term > currentTerm[i])
    BY <1>1, <1>3, <1>4, <1>8, <2>2
  <2> QED
    BY <2>1, <2>2
<1> QED
  BY <1>4, <1>7, <1>8 DEF ElectionEffects

\* startElection counts a granted vote of its own term, and no other.
LEMMA VoteReplyElection ==
    ASSUME TypeOK, NEW m \in DOMAIN net, VoteReply(m)
    PROVE  ElectionEffects
<1>1. NetOK(net) /\ votes \in [Server -> SUBSET Server]
  BY TypeFacts
<1>2. m \in RequestVoteReply
  BY <1>1, MessageKinds DEF VoteReply, NetOK
<1>3. m.to \in Server /\ m.from \in Server /\ m.term \in Nat /\ m.replyTerm \in Nat
  BY <1>2 DEF RequestVoteReply
<1>4. /\ StepDownIfAbove(m.to, m.replyTerm) /\ Consume(m) /\ won' = won
      /\ m.type = "VoteReply"
      /\ votes' = IF CountsVote(m) THEN [votes EXCEPT ![m.to] = @ \cup {m.from}] ELSE votes
  BY DEF VoteReply
<1>5. DOMAIN net' \subseteq DOMAIN net
  BY <1>1, <1>4, ConsumeNet
<1>6. \A k \in Server : \/ state'[k] = Follower
                        \/ state'[k] = state[k] /\ currentTerm'[k] = currentTerm[k]
  BY <1>3, <1>4, StepDownFrame
<1>7. ASSUME NEW k \in Server, state'[k] = Candidate, NEW v \in votes'[k]
      PROVE  \/ v \in votes[k]
             \/ \E r \in DOMAIN net : /\ Granted(r) /\ r.from = v /\ r.to = k
                                      /\ r.term = currentTerm[k]
  <2>1. CASE CountsVote(m) /\ k = m.to /\ v = m.from
    BY <1>4, <2>1 DEF CountsVote, Granted
  <2>2. CASE ~(CountsVote(m) /\ k = m.to /\ v = m.from)
    BY <1>1, <1>3, <1>4, <1>7, <2>2
  <2> QED
    BY <2>1, <2>2
<1> QED
  BY <1>4, <1>5, <1>6, <1>7 DEF ElectionEffects, Follower, Candidate

\* The AppendEntries handler grants no vote.
LEMMA AppendNotGranted ==
    ASSUME TypeOK, NEW m \in DOMAIN net, RejectStaleAppend(m) \/ AppendEntries(m)
    PROVE  \A r \in DOMAIN net' : Granted(r) => r \in DOMAIN net
<1>1. NetOK(net) /\ replicators \in Matrix
  BY TypeFacts
<1>2. m \in AppendEntriesArgs
  BY <1>1, MessageKinds DEF RejectStaleAppend, AppendEntries, NetOK
<1>3. m.to \in Server /\ currentTerm[m.to] \in Nat
  BY <1>2 DEF AppendEntriesArgs, TypeOK
<1> DEFINE idle == [replicators EXCEPT ![m.to] = [j \in Server |-> 0]]
<1>4. idle \in Matrix
  BY <1>1, <1>3 DEF Matrix
<1>5. \/ AppendReplyTo(m, currentTerm[m.to], FALSE, replicators)
      \/ AppendReplyTo(m, currentTerm[m.to], PrevMatches(m, log[m.to]), idle)
  BY DEF RejectStaleAppend, AppendEntries
<1>6. PrevMatches(m, log[m.to]) \in BOOLEAN
  BY DEF PrevMatches
<1> HIDE DEF idle
<1>7. PICK ok \in BOOLEAN :
        DOMAIN net' \subseteq DOMAIN net \cup {AppendReplyMsg(m, currentTerm[m.to], ok),
                                              HeartbeatReplyMsg(m, currentTerm[m.to])}
  <2>1. CASE AppendReplyTo(m, currentTerm[m.to], FALSE, replicators)
    BY <1>1, <1>2, <1>3, <2>1, AppendReplyNet
  <2>2. CASE AppendReplyTo(m, currentTerm[m.to], PrevMatches(m, log[m.to]), idle)
    BY <1>1, <1>2, <1>3, <1>4, <1>6, <2>2, AppendReplyNet
  <2> QED
    BY <1>5, <2>1, <2>2
<1>8. /\ ~Granted(AppendReplyMsg(m, currentTerm[m.to], ok))
      /\ ~Granted(HeartbeatReplyMsg(m, currentTerm[m.to]))
  BY DEF AppendReplyMsg, HeartbeatReplyMsg, Granted
<1> QED
  BY <1>7, <1>8

\* Nor does a restart.
LEMMA RebootElection ==
    ASSUME TypeOK, NEW i \in Server, NEW disk, Reboot(i, disk), DOMAIN net' \subseteq DOMAIN net
    PROVE  ElectionEffects
<1>1. /\ state \in [Server -> {Follower, Candidate, Leader}]
      /\ currentTerm \in [Server -> Nat] /\ votes \in [Server -> SUBSET Server]
  BY TypeFacts
<1>2. /\ state' = [state EXCEPT ![i] = Follower]
      /\ currentTerm' = [currentTerm EXCEPT ![i] = disk.currentTerm]
      /\ votes' = [votes EXCEPT ![i] = {}]
      /\ won' = won
  BY DEF Reboot
<1>3. \A k \in Server : \/ state'[k] # Candidate
                        \/ /\ state'[k] = state[k] /\ currentTerm'[k] = currentTerm[k]
                           /\ votes'[k] = votes[k]
  BY <1>1, <1>2 DEF Follower, Candidate
<1> QED
  BY <1>2, <1>3, NoCampaign

\* Every step has only such effects.
LEMMA StepElection ==
    ASSUME TypeOK, [Next]_vars
    PROVE  ElectionEffects
<1>0. NetOK(net) /\ state \in [Server -> {Follower, Candidate, Leader}]
  BY TypeFacts
<1>1. CASE UNCHANGED vars
  BY <1>1, NoCampaign DEF vars
<1>2. ASSUME NEW i \in Server, ElectionTimeout(i) PROVE ElectionEffects
  BY <1>2, CampaignEffects DEF ElectionTimeout
<1>3. ASSUME NEW i \in Server, StaleTimeout(i) PROVE ElectionEffects
  BY <1>3, CampaignEffects DEF StaleTimeout
<1>4. ASSUME NEW i \in Server, TickerPause(i) \/ StaleRest(i) PROVE ElectionEffects
  BY <1>4, NoCampaign DEF TickerPause, StaleRest, volatile
<1>5. ASSUME NEW i \in Server, WinElection(i) PROVE ElectionEffects
  <2>1. DOMAIN net' \subseteq DOMAIN net
    BY <1>0, <1>5, WithoutDomain DEF WinElection, NetOK
  <2>2. /\ state[i] = Candidate /\ Majority(votes[i])
        /\ state' = [state EXCEPT ![i] = Leader]
        /\ won' = [won EXCEPT ![i] = @ \cup {currentTerm[i]}]
        /\ votes' = votes /\ currentTerm' = currentTerm
    BY <1>5 DEF WinElection
  <2>3. won \in [Server -> SUBSET Nat]
    BY TypeFacts
  <2>4. \A k \in Server : state'[k] = Candidate => state[k] = Candidate
    BY <1>0, <2>2 DEF Leader, Candidate
  <2>5. \A k \in Server : won'[k] = won[k] \/ (k = i /\ won'[k] = won[k] \cup {currentTerm[k]})
    BY <2>2, <2>3
  <2> QED
    BY <2>1, <2>2, <2>4, <2>5 DEF ElectionEffects
<1>6. ASSUME NEW i \in Server, Restart(i) PROVE ElectionEffects
  <2>1. DOMAIN net' \subseteq DOMAIN net
    BY <1>0, <1>6, WithoutDomain DEF Restart, WithoutRepliesTo, NetOK
  <2>2. Reboot(i, persister[i])
    BY <1>6 DEF Restart
  <2> QED
    BY <2>1, <2>2, RebootElection
<1>7. ASSUME NEW i \in Server, NEW c \in Command, Start(i, c) PROVE ElectionEffects
  BY <1>7, NoCampaign DEF Start
<1>8. ASSUME NEW i \in Server, NEW j \in Server, Heartbeat(i, j) PROVE ElectionEffects
  <2>1. DOMAIN net' = DOMAIN net \cup {HeartbeatArgs(i, j)}
    BY <1>0, <1>8, BagAddDomain DEF Heartbeat, NetOK
  <2>2. ~Granted(HeartbeatArgs(i, j))
    BY DEF HeartbeatArgs, Granted
  <2> QED
    BY <1>8, <2>1, <2>2, NoCampaign DEF Heartbeat, volatile
<1>9. ASSUME NEW i \in Server, NEW j \in Server, SendEntries(i, j) PROVE ElectionEffects
  <2>1. PICK e : net' = BagAdd(net, e) /\ e.type = "AppendEntries"
    BY <1>9 DEF SendEntries
  <2>2. DOMAIN net' = DOMAIN net \cup {e}
    BY <1>0, <2>1, BagAddDomain DEF NetOK
  <2>3. ~Granted(e)
    BY <2>1 DEF Granted
  <2> QED
    BY <1>9, <2>2, <2>3, NoCampaign DEF SendEntries, volatile
<1>10. ASSUME NEW i \in Server, NEW j \in Server, ReplicatorDone(i, j) PROVE ElectionEffects
  BY <1>10, NoCampaign DEF ReplicatorDone, volatile
<1>11. ASSUME NEW m \in DOMAIN net, RejectStaleVote(m) PROVE ElectionEffects
  <2>1. m \in RequestVoteArgs
    BY <1>0, <1>11, MessageKinds DEF RejectStaleVote, NetOK
  <2>2. currentTerm[m.to] \in Nat
    BY <2>1 DEF RequestVoteArgs, TypeOK
  <2>3. DOMAIN net' \subseteq DOMAIN net \cup {VoteReplyMsg(m, currentTerm[m.to], FALSE)}
    BY <1>0, <1>11, <2>1, <2>2, VoteReplyNet DEF RejectStaleVote
  <2>4. ~Granted(VoteReplyMsg(m, currentTerm[m.to], FALSE))
    BY DEF VoteReplyMsg, Granted
  <2> QED
    BY <1>11, <2>3, <2>4, NoCampaign DEF RejectStaleVote, volatile
<1>12. ASSUME NEW m \in DOMAIN net, RequestVote(m) PROVE ElectionEffects
  BY <1>12, RequestVoteElection
<1>13. ASSUME NEW m \in DOMAIN net, VoteReply(m) PROVE ElectionEffects
  BY <1>13, VoteReplyElection
<1>14. ASSUME NEW m \in DOMAIN net, RejectStaleAppend(m) PROVE ElectionEffects
  <2>1. \A r \in DOMAIN net' : Granted(r) => r \in DOMAIN net
    BY <1>14, AppendNotGranted
  <2> QED
    BY <1>14, <2>1, NoCampaign DEF RejectStaleAppend, volatile
<1>15. ASSUME NEW m \in DOMAIN net, AppendEntries(m) PROVE ElectionEffects
  <2>1. \A r \in DOMAIN net' : Granted(r) => r \in DOMAIN net
    BY <1>15, AppendNotGranted
  <2>2. m \in AppendEntriesArgs
    BY <1>0, <1>15, MessageKinds DEF AppendEntries, NetOK
  <2>3. /\ state' = [state EXCEPT ![m.to] = Follower] /\ m.to \in Server
        /\ currentTerm' = [currentTerm EXCEPT ![m.to] = m.term]
        /\ currentTerm \in [Server -> Nat]
        /\ votes' = votes /\ won' = won
    BY <1>15, <2>2, TypeFacts DEF AppendEntries, AppendEntriesArgs
  <2>4. \A k \in Server : \/ state'[k] # Candidate
                          \/ state'[k] = state[k] /\ currentTerm'[k] = currentTerm[k]
    BY <1>0, <2>3 DEF Candidate, Follower
  <2> QED
    BY <2>1, <2>3, <2>4, NoCampaign
<1>16. ASSUME NEW m \in DOMAIN net, AppendReply(m) PROVE ElectionEffects
  <2>1. m \in AppendEntriesReply
    BY <1>0, <1>16, MessageKinds DEF AppendReply, NetOK
  <2>2. m.to \in Server /\ m.replyTerm \in Nat
    BY <2>1 DEF AppendEntriesReply
  <2>3. DOMAIN net' \subseteq DOMAIN net /\ votes' = votes /\ won' = won
    BY <1>0, <1>16, ConsumeNet DEF AppendReply
  <2>4. CASE BecomeFollower(m.to, m.replyTerm)
    BY <2>2, <2>3, <2>4, StepDownFrame, NoCampaign DEF Follower, Candidate
  <2>5. CASE state' = state /\ currentTerm' = currentTerm
    BY <2>3, <2>5, NoCampaign
  <2> QED
    BY <1>16, <2>4, <2>5 DEF AppendReply
<1>17. ASSUME NEW m \in DOMAIN net, HeartbeatReplied(m) PROVE ElectionEffects
  <2>1. m \in HeartbeatReply
    BY <1>0, <1>17, MessageKinds DEF HeartbeatReplied, NetOK
  <2>2. /\ m.to \in Server /\ m.replyTerm \in Nat /\ StepDownIfAbove(m.to, m.replyTerm)
        /\ votes' = votes /\ won' = won
    BY <1>17, <2>1 DEF HeartbeatReplied, HeartbeatReply
  <2>3. DOMAIN net' \subseteq DOMAIN net
    BY <1>0, <1>17, ConsumeNet DEF HeartbeatReplied
  <2> QED
    BY <2>2, <2>3, StepDownFrame, NoCampaign DEF Follower, Candidate
<1>18. ASSUME NEW m \in DOMAIN net, CrashInHandler(m) PROVE ElectionEffects
  <2>1. m \in RequestVoteArgs \/ m \in AppendEntriesArgs
    BY <1>0, <1>18, MessageKinds DEF CrashInHandler, NetOK
  <2>2. m.to \in Server
    BY <2>1 DEF RequestVoteArgs, AppendEntriesArgs
  <2>3. IsABag(BagRemove(net, m)) /\ DOMAIN BagRemove(net, m) \subseteq DOMAIN net
    BY <1>0, BagRemoveDomain DEF NetOK
  <2>4. DOMAIN net' \subseteq DOMAIN net
    BY <1>18, <2>3, WithoutDomain DEF CrashInHandler, WithoutRepliesTo
  <2>5. PICK disk : Reboot(m.to, disk)
    BY <1>18 DEF CrashInHandler
  <2> QED
    BY <2>2, <2>4, <2>5, RebootElection
<1> QED
  BY <1>1, <1>2, <1>3, <1>4, <1>5, <1>6, <1>7, <1>8, <1>9, <1>10, <1>11, <1>12, <1>13,
     <1>14, <1>15, <1>16, <1>17, <1>18 DEF Next

\* A granted vote under way was given to the candidate it is for.
GrantsCast == \A m \in DOMAIN net : Granted(m) => <<m.from, m.term, m.to>> \in cast

\* What a candidate has counted was given to it in its term.
VotesCast ==
    \A i \in Server : state[i] = Candidate => \A v \in votes[i] : <<v, currentTerm[i], i>> \in cast

\* A term is won by the votes of a majority.
WonByMajority ==
    \A i \in Server : \A t \in won[i] :
        \E Q \in SUBSET Server : Majority(Q) /\ \A v \in Q : <<v, t, i>> \in cast

ElectionInv == GrantsCast /\ VotesCast /\ WonByMajority

\* The inductive invariant behind ElectionSafety: whoever won a term holds the
\* votes of a majority in that term.
THEOREM RaftElectionInv == Spec => []ElectionInv
<1>1. Init => ElectionInv
  BY DEF Init, ElectionInv, GrantsCast, VotesCast, WonByMajority, EmptyBag, SetToBag,
         Follower, Candidate
<1>2. TypeOK /\ VoteInv /\ ElectionInv /\ [Next]_vars => ElectionInv'
  <2> SUFFICES ASSUME TypeOK, VoteInv, ElectionInv, [Next]_vars PROVE ElectionInv'
    OBVIOUS
  <2>1. ElectionEffects
    BY StepElection
  <2>2. cast \subseteq cast'
    BY StepEffects DEF VoteEffects, VoteInv
  <2>3. GrantsCast'
    BY <2>1, <2>2 DEF ElectionEffects, ElectionInv, GrantsCast, Granted
  <2>4. VotesCast'
    <3> SUFFICES ASSUME NEW i \in Server, state'[i] = Candidate, NEW v \in votes'[i]
                 PROVE  <<v, currentTerm'[i], i>> \in cast'
      BY DEF VotesCast
    <3>1. CASE \A x \in votes'[i] : <<x, currentTerm'[i], i>> \in cast'
      BY <3>1
    <3>2. CASE /\ state[i] = Candidate /\ currentTerm'[i] = currentTerm[i]
               /\ \/ v \in votes[i]
                  \/ \E m \in DOMAIN net : /\ Granted(m) /\ m.from = v /\ m.to = i
                                           /\ m.term = currentTerm[i]
      BY <2>2, <3>2 DEF ElectionInv, VotesCast, GrantsCast
    <3> QED
      BY <2>1, <3>1, <3>2 DEF ElectionEffects
  <2>5. WonByMajority'
    <3> SUFFICES ASSUME NEW i \in Server, NEW t \in won'[i]
                 PROVE  \E Q \in SUBSET Server : Majority(Q) /\ \A v \in Q : <<v, t, i>> \in cast'
      BY DEF WonByMajority, Majority
    <3>1. CASE t \in won[i]
      BY <2>2, <3>1 DEF ElectionInv, WonByMajority
    <3>2. CASE t \notin won[i]
      <4>1. state[i] = Candidate /\ Majority(votes[i]) /\ t = currentTerm[i]
        BY <2>1, <3>2 DEF ElectionEffects
      <4>2. \A v \in votes[i] : <<v, t, i>> \in cast'
        BY <2>2, <4>1 DEF ElectionInv, VotesCast
      <4>3. votes[i] \in SUBSET Server
        BY DEF TypeOK
      <4> QED
        BY <4>1, <4>2, <4>3
    <3> QED
      BY <3>1, <3>2
  <2> QED
    BY <2>3, <2>4, <2>5 DEF ElectionInv
<1> QED
  BY <1>1, <1>2, RaftTypeCorrect, RaftVoteInv, PTL DEF Spec

\* At most one leader per term, among any number of peers, as long as no peer
\* votes twice in a term: late, lost and reordered votes, stale tickers and
\* restarts cannot elect a second one.
THEOREM RaftElectionSafety == Spec => []ElectionSafety
<1>1. ElectionInv => ElectionSafety
  <2> SUFFICES ASSUME ElectionInv, NoRevote, NEW i \in Server, NEW j \in Server, i # j,
                      NEW t \in won[i], t \in won[j]
               PROVE  FALSE
    BY DEF ElectionSafety
  <2>1. PICK P \in SUBSET Server : Majority(P) /\ \A v \in P : <<v, t, i>> \in cast
    BY DEF ElectionInv, WonByMajority
  <2>2. PICK Q \in SUBSET Server : Majority(Q) /\ \A v \in Q : <<v, t, j>> \in cast
    BY DEF ElectionInv, WonByMajority
  <2>3. PICK v \in P : v \in Q
    BY <2>1, <2>2, MajoritiesMeet
  <2>4. <<v, t, i>> \in cast /\ <<v, t, j>> \in cast
    BY <2>1, <2>2, <2>3
  <2>5. <<v, t, i>>[3] = <<v, t, j>>[3]
    BY <2>4 DEF NoRevote
  <2> QED
    BY <2>5
<1> QED
  BY <1>1, RaftElectionInv, PTL

-----------------------------------------------------------------------------
(* Leaders and the range of nextIndex *)

RangeOK(i) ==
    \A j \in Server : /\ nextIndex[i][j] \in 1..(Len(log[i]) + 1)
                      /\ matchIndex[i][j] <= Len(log[i])

\* What any step may do to peer i as a leader or candidate: it goes on leading
\* its term with no shorter log, wins the term it campaigns for, or campaigns
\* for a higher term.
LeaderStep(i) ==
    \/ /\ won'[i] = won[i]
       /\ state'[i] = Candidate =>
             \/ state[i] = Candidate /\ currentTerm'[i] = currentTerm[i]
             \/ currentTerm'[i] > currentTerm[i]
       /\ state'[i] = Leader =>
             /\ state[i] = Leader /\ currentTerm'[i] = currentTerm[i]
             /\ Len(log[i]) <= Len(log'[i])
             /\ RangeOK(i) => RangeOK(i)'
    \/ /\ state[i] = Candidate /\ state'[i] = Leader
       /\ currentTerm'[i] = currentTerm[i]
       /\ won'[i] = won[i] \cup {currentTerm[i]}
       /\ RangeOK(i)'

LeaderEffects == \A i \in Server : LeaderStep(i)

\* Nothing that leaves a peer alone, or makes a follower of it, is more.
LEMMA FollowerSteps ==
    ASSUME TypeOK, won' = won,
           \A k \in Server :
              \/ state'[k] = Follower
              \/ /\ state'[k] = state[k] /\ currentTerm'[k] = currentTerm[k]
                 /\ log'[k] = log[k] /\ nextIndex'[k] = nextIndex[k]
                 /\ matchIndex'[k] = matchIndex[k]
    PROVE  LeaderEffects
<1> SUFFICES ASSUME NEW k \in Server PROVE LeaderStep(k)
  BY DEF LeaderEffects
<1>1. CASE state'[k] = Follower
  BY <1>1 DEF LeaderStep, Follower, Candidate, Leader
<1>2. CASE /\ state'[k] = state[k] /\ currentTerm'[k] = currentTerm[k]
           /\ log'[k] = log[k] /\ nextIndex'[k] = nextIndex[k]
           /\ matchIndex'[k] = matchIndex[k]
  <2>1. Len(log[k]) \in Nat
    BY LenProperties, TypeFacts
  <2>2. RangeOK(k) => RangeOK(k)'
    BY <1>2 DEF RangeOK
  <2> QED
    BY <1>2, <2>1, <2>2 DEF LeaderStep
<1> QED
  BY <1>1, <1>2

\* becomeCandidateLocked makes a candidate of a new term.
LEMMA CandidateSteps ==
    ASSUME TypeOK, NEW i \in Server, BecomeCandidate(i), won' = won,
           nextIndex' = nextIndex, matchIndex' = matchIndex
    PROVE  LeaderEffects
<1> SUFFICES ASSUME NEW k \in Server PROVE LeaderStep(k)
  BY DEF LeaderEffects
<1>1. /\ state \in [Server -> {Follower, Candidate, Leader}]
      /\ currentTerm \in [Server -> Nat] /\ log \in [Server -> Seq(Entry)]
  BY TypeFacts
<1>2. /\ state' = [state EXCEPT ![i] = Candidate]
      /\ currentTerm' = [currentTerm EXCEPT ![i] = @ + 1]
      /\ log' = log
  BY DEF BecomeCandidate
<1>3. CASE k = i
  BY <1>1, <1>2, <1>3 DEF LeaderStep, Candidate, Leader
<1>4. CASE k # i
  <2>1. Len(log[k]) \in Nat
    BY <1>1, LenProperties
  <2>2. RangeOK(k) => RangeOK(k)'
    BY <1>2 DEF RangeOK
  <2> QED
    BY <1>1, <1>2, <1>4, <2>1, <2>2 DEF LeaderStep
<1> QED
  BY <1>3, <1>4

\* becomeLeaderLocked starts with nextIndex behind the end of the log.
LEMMA WinSteps ==
    ASSUME TypeOK, NEW i \in Server, WinElection(i)
    PROVE  LeaderEffects
<1> SUFFICES ASSUME NEW k \in Server PROVE LeaderStep(k)
  BY DEF LeaderEffects
<1>1. /\ state \in [Server -> {Follower, Candidate, Leader}]
      /\ nextIndex \in Matrix /\ matchIndex \in Matrix
      /\ won \in [Server -> SUBSET Nat] /\ log \in [Server -> Seq(Entry)]
  BY TypeFacts
<1>2. /\ state[i] = Candidate
      /\ nextIndex' = [nextIndex EXCEPT ![i] = [j \in Server |-> Len(log[i]) + 1]]
      /\ won' = [won EXCEPT ![i] = @ \cup {currentTerm[i]}]
      /\ state' = [state EXCEPT ![i] = Leader]
      /\ matchIndex' = [matchIndex EXCEPT ![i] = [j \in Server |-> 0]]
      /\ currentTerm' = currentTerm /\ log' = log
  BY DEF WinElection
<1>3. Len(log[k]) \in Nat
  BY <1>1, LenProperties
<1>4. CASE k = i
  <2>1. \A j \in Server : nextIndex'[i][j] = Len(log[i]) + 1 /\ matchIndex'[i][j] = 0
    BY <1>1, <1>2 DEF Matrix
  <2>2. RangeOK(i)'
    BY <1>2, <1>3, <1>4, <2>1 DEF RangeOK
  <2> QED
    BY <1>1, <1>2, <1>4, <2>2 DEF LeaderStep
<1>5. CASE k # i
  <2>1. nextIndex'[k] = nextIndex[k] /\ matchIndex'[k] = matchIndex[k]
    BY <1>1, <1>2, <1>5 DEF Matrix
  <2>2. RangeOK(k) => RangeOK(k)'
    BY <1>2, <2>1 DEF RangeOK
  <2> QED
    BY <1>1, <1>2, <1>3, <1>5, <2>2 DEF LeaderStep
<1> QED
  BY <1>4, <1>5

\* Start(c) moves the leader's own entries with the end of its log.
LEMMA StartSteps ==
    ASSUME TypeOK, NEW i \in Server, NEW c \in Command, Start(i, c)
    PROVE  LeaderEffects
<1> SUFFICES ASSUME NEW k \in Server PROVE LeaderStep(k)
  BY DEF LeaderEffects
<1>1. nextIndex \in Matrix /\ matchIndex \in Matrix /\ log \in [Server -> Seq(Entry)]
  BY TypeFacts
<1>2. /\ state' = state /\ currentTerm' = currentTerm /\ won' = won
      /\ state[i] = Leader
      /\ log' = [log EXCEPT ![i] = Append(@, [term |-> currentTerm[i], cmd |-> c])]
      /\ matchIndex' = [matchIndex EXCEPT ![i][i] = Max2(@, Len(log[i]) + 1)]
      /\ nextIndex' = [nextIndex EXCEPT ![i][i] = Max2(@, Len(log[i]) + 2)]
  BY DEF Start
<1>3. Len(log[i]) \in Nat /\ Len(log[k]) \in Nat
  BY <1>1, LenProperties
<1>4. Len(log'[i]) = Len(log[i]) + 1
  <2>1. [term |-> currentTerm[i], cmd |-> c] \in Entry
    BY DEF TypeOK, Entry
  <2> QED
    BY <1>1, <1>2, <2>1, AppendProperties
<1>5. \A j \in Server :
         /\ j # i => nextIndex'[i][j] = nextIndex[i][j] /\ matchIndex'[i][j] = matchIndex[i][j]
         /\ j = i => /\ nextIndex'[i][j] = Max2(nextIndex[i][i], Len(log[i]) + 2)
                     /\ matchIndex'[i][j] = Max2(matchIndex[i][i], Len(log[i]) + 1)
  BY <1>1, <1>2 DEF Matrix
<1>6. CASE k = i
  <2>1. ASSUME RangeOK(i), NEW j \in Server
        PROVE  /\ nextIndex'[i][j] \in 1..(Len(log'[i]) + 1)
               /\ matchIndex'[i][j] <= Len(log'[i])
    <3>1. /\ nextIndex[i][j] \in Nat /\ matchIndex[i][j] \in Nat
          /\ nextIndex[i][j] >= 1 /\ nextIndex[i][j] <= Len(log[i]) + 1
          /\ matchIndex[i][j] <= Len(log[i])
      BY <1>1, <1>3, <2>1 DEF RangeOK, Matrix
    <3>2. CASE j = i
      BY <1>3, <1>4, <1>5, <3>1, <3>2 DEF Max2
    <3>3. CASE j # i
      BY <1>3, <1>4, <1>5, <3>1, <3>3
    <3> QED
      BY <3>2, <3>3
  <2>2. RangeOK(i) => RangeOK(i)'
    BY <2>1 DEF RangeOK
  <2> QED
    BY <1>2, <1>3, <1>4, <1>6, <2>2 DEF LeaderStep
<1>7. CASE k # i
  <2>1. nextIndex'[k] = nextIndex[k] /\ matchIndex'[k] = matchIndex[k] /\ log'[k] = log[k]
    BY <1>1, <1>2, <1>7 DEF Matrix
  <2>2. RangeOK(k) => RangeOK(k)'
    BY <2>1 DEF RangeOK
  <2> QED
    BY <1>2, <1>3, <2>1, <2>2 DEF LeaderStep
<1> QED
  BY <1>6, <1>7

Leads(i, t) == state[i] = Leader /\ currentTerm[i] = t

\* The calls and answers of the term a peer leads report no index its log does
\* not have.
SentInRange ==
    \A m \in DOMAIN net :
        /\ m.type = "AppendEntries" /\ Leads(m.from, m.term) => NewMatch(m) <= Len(log[m.from])
        /\ m.type = "AppendReply" /\ Leads(m.to, m.term) => m.match <= Len(log[m.to])

\* A reply moves nextIndex to the reported match or back by one.
LEMMA AppendReplySteps ==
    ASSUME TypeOK, SentInRange, NEW m \in DOMAIN net, AppendReply(m)
    PROVE  LeaderEffects
<1>1. /\ nextIndex \in Matrix /\ matchIndex \in Matrix /\ log \in [Server -> Seq(Entry)]
      /\ NetOK(net) /\ state \in [Server -> {Follower, Candidate, Leader}]
      /\ currentTerm \in [Server -> Nat]
  BY TypeFacts
<1>2. m \in AppendEntriesReply
  BY <1>1, MessageKinds DEF AppendReply, NetOK
<1>3. m.to \in Server /\ m.from \in Server /\ m.replyTerm \in Nat /\ m.match \in Nat
  BY <1>2 DEF AppendEntriesReply
<1>4. won' = won
  BY DEF AppendReply
<1>5. CASE UNCHANGED <<currentTerm, log, state, nextIndex, matchIndex>>
  BY <1>4, <1>5, FollowerSteps
<1>6. CASE BecomeFollower(m.to, m.replyTerm) /\ UNCHANGED <<nextIndex, matchIndex>>
  <2>1. /\ state' = [state EXCEPT ![m.to] = Follower] /\ log' = log
        /\ currentTerm' = [currentTerm EXCEPT ![m.to] = m.replyTerm]
    BY <1>6 DEF BecomeFollower
  <2> QED
    BY <1>1, <1>3, <1>4, <1>6, <2>1, FollowerSteps
<1>7. ASSUME UNCHANGED <<currentTerm, log, state>>,
             \A k, l \in Server : k # m.to \/ l # m.from =>
                 nextIndex'[k][l] = nextIndex[k][l] /\ matchIndex'[k][l] = matchIndex[k][l],
             RangeOK(m.to) => /\ nextIndex'[m.to][m.from] \in 1..(Len(log[m.to]) + 1)
                              /\ matchIndex'[m.to][m.from] <= Len(log[m.to])
      PROVE  LeaderEffects
  <2> SUFFICES ASSUME NEW k \in Server PROVE LeaderStep(k)
    BY DEF LeaderEffects
  <2>1. Len(log[k]) \in Nat
    BY <1>1, LenProperties
  <2>2. RangeOK(k) => RangeOK(k)'
    BY <1>3, <1>7 DEF RangeOK
  <2> QED
    BY <1>4, <1>7, <2>1, <2>2 DEF LeaderStep
<1>8. CASE /\ state[m.to] = Leader /\ currentTerm[m.to] = m.term
           /\ matchIndex' = [matchIndex EXCEPT ![m.to][m.from] = Max2(@, m.match)]
           /\ nextIndex' = [nextIndex EXCEPT ![m.to][m.from] = matchIndex'[m.to][m.from] + 1]
           /\ UNCHANGED <<currentTerm, log, state>>
  <2>1. /\ matchIndex'[m.to][m.from] = Max2(matchIndex[m.to][m.from], m.match)
        /\ \A k, l \in Server : k # m.to \/ l # m.from => matchIndex'[k][l] = matchIndex[k][l]
    BY <1>1, <1>3, <1>8 DEF Matrix
  <2>2. /\ nextIndex'[m.to][m.from] = matchIndex'[m.to][m.from] + 1
        /\ \A k, l \in Server : k # m.to \/ l # m.from => nextIndex'[k][l] = nextIndex[k][l]
    BY <1>1, <1>3, <1>8 DEF Matrix
  <2>3. m.match <= Len(log[m.to])
    BY <1>8 DEF SentInRange, Leads, AppendReply
  <2>4. Len(log[m.to]) \in Nat /\ matchIndex[m.to][m.from] \in Nat
    BY <1>1, <1>3, LenProperties DEF Matrix
  <2>5. RangeOK(m.to) => matchIndex[m.to][m.from] <= Len(log[m.to])
    BY <1>3 DEF RangeOK
  <2>6. RangeOK(m.to) => /\ nextIndex'[m.to][m.from] \in 1..(Len(log[m.to]) + 1)
                         /\ matchIndex'[m.to][m.from] <= Len(log[m.to])
    BY <1>3, <2>1, <2>2, <2>3, <2>4, <2>5 DEF Max2
  <2> QED
    BY <1>7, <1>8, <2>1, <2>2, <2>6
<1>9. CASE /\ nextIndex' = [nextIndex EXCEPT ![m.to][m.from] = BackOff(@)]
           /\ UNCHANGED <<currentTerm, log, state, matchIndex>>
  <2>1. /\ nextIndex'[m.to][m.from] = BackOff(nextIndex[m.to][m.from])
        /\ \A k, l \in Server : k # m.to \/ l # m.from => nextIndex'[k][l] = nextIndex[k][l]
    BY <1>1, <1>3, <1>9 DEF Matrix
  <2>2. Len(log[m.to]) \in Nat /\ nextIndex[m.to][m.from] \in Nat
    BY <1>1, <1>3, LenProperties DEF Matrix
  <2>3. RangeOK(m.to) => /\ nextIndex[m.to][m.from] \in 1..(Len(log[m.to]) + 1)
                         /\ matchIndex[m.to][m.from] <= Len(log[m.to])
    BY <1>3 DEF RangeOK
  <2>4. RangeOK(m.to) => /\ nextIndex'[m.to][m.from] \in 1..(Len(log[m.to]) + 1)
                         /\ matchIndex'[m.to][m.from] <= Len(log[m.to])
    BY <1>9, <2>1, <2>2, <2>3 DEF BackOff
  <2> QED
    BY <1>7, <1>9, <2>1, <2>4
<1> QED
  BY <1>5, <1>6, <1>8, <1>9 DEF AppendReply

\* Every step treats every leader and candidate so.
LEMMA StepLeaders ==
    ASSUME TypeOK, SentInRange, [Next]_vars
    PROVE  LeaderEffects
<1>0. /\ NetOK(net) /\ state \in [Server -> {Follower, Candidate, Leader}]
      /\ currentTerm \in [Server -> Nat] /\ log \in [Server -> Seq(Entry)]
      /\ nextIndex \in Matrix /\ matchIndex \in Matrix
  BY TypeFacts
<1>1. CASE UNCHANGED vars
  BY <1>1, FollowerSteps DEF vars
<1>2. ASSUME NEW i \in Server, ElectionTimeout(i) \/ StaleTimeout(i) PROVE LeaderEffects
  BY <1>2, CandidateSteps DEF ElectionTimeout, StaleTimeout
<1>3. ASSUME NEW i \in Server, TickerPause(i) \/ StaleRest(i) PROVE LeaderEffects
  BY <1>3, FollowerSteps DEF TickerPause, StaleRest, volatile
<1>4. ASSUME NEW i \in Server, WinElection(i) PROVE LeaderEffects
  BY <1>4, WinSteps
<1>5. ASSUME NEW i \in Server, NEW disk, Reboot(i, disk) PROVE LeaderEffects
  <2>1. /\ state' = [state EXCEPT ![i] = Follower]
        /\ currentTerm' = [currentTerm EXCEPT ![i] = disk.currentTerm]
        /\ log' = [log EXCEPT ![i] = disk.log]
        /\ nextIndex' = [nextIndex EXCEPT ![i] = [j \in Server |-> 0]]
        /\ matchIndex' = [matchIndex EXCEPT ![i] = [j \in Server |-> 0]]
        /\ won' = won
    BY <1>5 DEF Reboot
  <2>2. \A k \in Server : k # i => /\ nextIndex'[k] = nextIndex[k]
                                   /\ matchIndex'[k] = matchIndex[k]
    BY <1>0, <2>1 DEF Matrix
  <2>3. \A k \in Server : k # i => /\ state'[k] = state[k]
                                   /\ currentTerm'[k] = currentTerm[k] /\ log'[k] = log[k]
    BY <1>0, <2>1
  <2>4. state'[i] = Follower
    BY <1>0, <2>1
  <2> QED
    BY <2>1, <2>2, <2>3, <2>4, FollowerSteps
<1>6. ASSUME NEW i \in Server, Restart(i) PROVE LeaderEffects
  BY <1>5, <1>6 DEF Restart
<1>7. ASSUME NEW i \in Server, NEW c \in Command, Start(i, c) PROVE LeaderEffects
  BY <1>7, StartSteps
<1>8. ASSUME NEW i \in Server, NEW j \in Server,
             Heartbeat(i, j) \/ SendEntries(i, j) \/ ReplicatorDone(i, j)
      PROVE  LeaderEffects
  BY <1>8, FollowerSteps DEF Heartbeat, SendEntries, ReplicatorDone, volatile
<1>9. ASSUME NEW m \in DOMAIN net, RejectStaleVote(m) \/ RejectStaleAppend(m)
      PROVE  LeaderEffects
  BY <1>9, FollowerSteps DEF RejectStaleVote, RejectStaleAppend, volatile
<1>10. ASSUME NEW m \in DOMAIN net, RequestVote(m) PROVE LeaderEffects
  <2>1. m \in RequestVoteArgs
    BY <1>0, <1>10, MessageKinds DEF RequestVote, NetOK
  <2>2. m.to \in Server /\ m.term \in Nat
    BY <2>1 DEF RequestVoteArgs
  <2>3. /\ m.term >= currentTerm[m.to]
        /\ currentTerm' = [currentTerm EXCEPT ![m.to] = m.term]
        /\ IF m.term > currentTerm[m.to] THEN state' = [state EXCEPT ![m.to] = Follower]
                                         ELSE state' = state
        /\ log' = log /\ nextIndex' = nextIndex /\ matchIndex' = matchIndex /\ won' = won
    BY <1>10 DEF RequestVote
  <2>4. \A k \in Server : \/ state'[k] = Follower
                          \/ state'[k] = state[k] /\ currentTerm'[k] = currentTerm[k]
    BY <1>0, <2>2, <2>3
  <2> QED
    BY <2>3, <2>4, FollowerSteps
<1>11. ASSUME NEW m \in DOMAIN net, VoteReply(m) \/ HeartbeatReplied(m) PROVE LeaderEffects
  <2>1. m \in RequestVoteReply \/ m \in HeartbeatReply
    BY <1>0, <1>11, MessageKinds DEF VoteReply, HeartbeatReplied, NetOK
  <2>2. m.to \in Server /\ m.replyTerm \in Nat
    BY <2>1 DEF RequestVoteReply, HeartbeatReply
  <2>3. /\ StepDownIfAbove(m.to, m.replyTerm)
        /\ nextIndex' = nextIndex /\ matchIndex' = matchIndex /\ won' = won
    BY <1>11 DEF VoteReply, HeartbeatReplied
  <2>4. log' = log
    BY <2>3 DEF StepDownIfAbove, BecomeFollower
  <2>5. \A k \in Server : \/ state'[k] = Follower
                          \/ state'[k] = state[k] /\ currentTerm'[k] = currentTerm[k]
    BY <2>2, <2>3, StepDownFrame
  <2> QED
    BY <2>3, <2>4, <2>5, FollowerSteps
<1>12. ASSUME NEW m \in DOMAIN net, AppendEntries(m) PROVE LeaderEffects
  <2>1. m \in AppendEntriesArgs
    BY <1>0, <1>12, MessageKinds DEF AppendEntries, NetOK
  <2>2. m.to \in Server
    BY <2>1 DEF AppendEntriesArgs
  <2>3. /\ state' = [state EXCEPT ![m.to] = Follower]
        /\ currentTerm' = [currentTerm EXCEPT ![m.to] = m.term]
        /\ nextIndex' = nextIndex /\ matchIndex' = matchIndex /\ won' = won
    BY <1>12 DEF AppendEntries
  <2>4. \A k \in Server : k # m.to => log'[k] = log[k]
    BY <1>0, <1>12, <2>2 DEF AppendEntries
  <2>5. \A k \in Server : k # m.to => state'[k] = state[k] /\ currentTerm'[k] = currentTerm[k]
    BY <1>0, <2>2, <2>3
  <2>6. state'[m.to] = Follower
    BY <1>0, <2>2, <2>3
  <2> QED
    BY <2>3, <2>4, <2>5, <2>6, FollowerSteps
<1>13. ASSUME NEW m \in DOMAIN net, AppendReply(m) PROVE LeaderEffects
  BY <1>13, AppendReplySteps
<1>14. ASSUME NEW m \in DOMAIN net, CrashInHandler(m) PROVE LeaderEffects
  <2>1. m \in RequestVoteArgs \/ m \in AppendEntriesArgs
    BY <1>0, <1>14, MessageKinds DEF CrashInHandler, NetOK
  <2>2. m.to \in Server
    BY <2>1 DEF RequestVoteArgs, AppendEntriesArgs
  <2> QED
    BY <1>5, <1>14, <2>2 DEF CrashInHandler
<1> QED
  BY <1>1, <1>2, <1>3, <1>4, <1>6, <1>7, <1>8, <1>9, <1>10, <1>11, <1>12, <1>13, <1>14
     DEF Next

IsAppend(m) == m.type = "AppendEntries"
IsAnswer(m) == m.type = "AppendReply"

\* What any step may put on the network: the AppendEntries call of a leader
\* that reaches no further than its log, or the answer to such a call.
CallEffects ==
    \A m \in DOMAIN net' :
        /\ IsAppend(m) =>
              \/ m \in DOMAIN net
              \/ /\ m.from \in Server /\ Leads(m.from, m.term)
                 /\ NewMatch(m) <= Len(log[m.from])
        /\ IsAnswer(m) =>
              \/ m \in DOMAIN net
              \/ \E r \in DOMAIN net : /\ IsAppend(r) /\ r.from = m.to /\ r.term = m.term
                                       /\ NewMatch(r) = m.match

\* The AppendEntries handler answers the call it was given.
LEMMA HandlerCalls ==
    ASSUME TypeOK, NEW m \in DOMAIN net, RejectStaleAppend(m) \/ AppendEntries(m)
    PROVE  CallEffects
<1>1. NetOK(net) /\ replicators \in Matrix
  BY TypeFacts
<1>2. m \in AppendEntriesArgs /\ IsAppend(m)
  BY <1>1, MessageKinds DEF RejectStaleAppend, AppendEntries, NetOK, IsAppend
<1>3. m.to \in Server /\ currentTerm[m.to] \in Nat
  BY <1>2 DEF AppendEntriesArgs, TypeOK
<1> DEFINE idle == [replicators EXCEPT ![m.to] = [j \in Server |-> 0]]
<1>4. idle \in Matrix
  BY <1>1, <1>3 DEF Matrix
<1>5. \/ AppendReplyTo(m, currentTerm[m.to], FALSE, replicators)
      \/ AppendReplyTo(m, currentTerm[m.to], PrevMatches(m, log[m.to]), idle)
  BY DEF RejectStaleAppend, AppendEntries
<1>6. PrevMatches(m, log[m.to]) \in BOOLEAN
  BY DEF PrevMatches
<1> HIDE DEF idle
<1>7. PICK ok \in BOOLEAN :
        DOMAIN net' \subseteq DOMAIN net \cup {AppendReplyMsg(m, currentTerm[m.to], ok),
                                              HeartbeatReplyMsg(m, currentTerm[m.to])}
  <2>1. CASE AppendReplyTo(m, currentTerm[m.to], FALSE, replicators)
    BY <1>1, <1>2, <1>3, <2>1, AppendReplyNet
  <2>2. CASE AppendReplyTo(m, currentTerm[m.to], PrevMatches(m, log[m.to]), idle)
    BY <1>1, <1>2, <1>3, <1>4, <1>6, <2>2, AppendReplyNet
  <2> QED
    BY <1>5, <2>1, <2>2
<1> DEFINE answer == AppendReplyMsg(m, currentTerm[m.to], ok)
           beat == HeartbeatReplyMsg(m, currentTerm[m.to])
<1>8. ~IsAppend(beat) /\ ~IsAnswer(beat)
  BY DEF HeartbeatReplyMsg, IsAppend, IsAnswer
<1>9. /\ ~IsAppend(answer)
      /\ answer.to = m.from /\ answer.term = m.term /\ answer.match = NewMatch(m)
  BY DEF AppendReplyMsg, IsAppend
<1> HIDE DEF answer, beat
<1>10. DOMAIN net' \subseteq DOMAIN net \cup {answer, beat}
  BY <1>7 DEF answer, beat
<1> QED
  BY <1>2, <1>8, <1>9, <1>10 DEF CallEffects

\* A heartbeat matches the leader's whole log.
LEMMA HeartbeatCalls ==
    ASSUME TypeOK, NEW i \in Server, NEW j \in Server, Heartbeat(i, j)
    PROVE  CallEffects
<1> DEFINE e == HeartbeatArgs(i, j)
<1>1. DOMAIN net' = DOMAIN net \cup {e}
  BY TypeFacts, BagAddDomain DEF Heartbeat, NetOK
<1>2. /\ e.from = i /\ e.term = currentTerm[i] /\ e.prevLogIndex = Len(log[i])
      /\ e.entries = <<>> /\ ~IsAnswer(e)
  BY DEF HeartbeatArgs, IsAnswer
<1> HIDE DEF e
<1>3. Len(log[i]) \in Nat
  BY TypeFacts, LenProperties
<1>4. NewMatch(e) = Len(log[i])
  BY <1>2, <1>3 DEF NewMatch
<1>5. Leads(i, currentTerm[i])
  BY DEF Heartbeat, Leads
<1> QED
  BY <1>1, <1>2, <1>3, <1>4, <1>5 DEF CallEffects

\* replicateToPeer sends entries of the leader's log.
LEMMA SendCalls ==
    ASSUME TypeOK, NextPositive, NEW i \in Server, NEW j \in Server, SendEntries(i, j)
    PROVE  CallEffects
<1> DEFINE next == nextIndex[i][j]
           last == Min2(Len(log[i]), next + MaxEntries - 1)
<1>1. /\ nextIndex \in Matrix /\ log[i] \in Seq(Entry) /\ Len(log[i]) \in Nat /\ NetOK(net)
  BY TypeFacts, LenProperties
<1>2. next \in Nat /\ next >= 1 /\ next <= Len(log[i]) /\ Leads(i, currentTerm[i])
  BY <1>1 DEF SendEntries, NextPositive, Matrix, Leads
<1>3. last \in Nat /\ next <= last /\ last <= Len(log[i])
  BY <1>1, <1>2, BoundAssumption DEF Min2
<1>4. PICK e : /\ net' = BagAdd(net, e)
               /\ e.from = i /\ e.term = currentTerm[i] /\ e.prevLogIndex = next - 1
               /\ e.entries = SubSeq(log[i], next, last) /\ ~IsAnswer(e)
  BY DEF SendEntries, IsAnswer
<1> HIDE DEF next, last
<1>5. Len(SubSeq(log[i], next, last)) = last - next + 1
  BY <1>1, <1>2, <1>3, SubSeqProperties
<1>6. NewMatch(e) = last
  BY <1>2, <1>3, <1>4, <1>5 DEF NewMatch
<1>7. DOMAIN net' = DOMAIN net \cup {e}
  BY <1>1, <1>4, BagAddDomain DEF NetOK
<1> QED
  BY <1>2, <1>3, <1>4, <1>6, <1>7 DEF CallEffects

\* Every step sends only such calls and answers.
LEMMA StepCalls ==
    ASSUME TypeOK, NextPositive, [Next]_vars
    PROVE  CallEffects
<1>0. NetOK(net)
  BY TypeFacts
<1>1. ASSUME DOMAIN net' \subseteq DOMAIN net PROVE CallEffects
  BY <1>1 DEF CallEffects
<1>2. CASE UNCHANGED vars
  BY <1>1, <1>2 DEF vars
<1>3. ASSUME NEW i \in Server, NEW reached \in SUBSET (Server \ {i}), StartElection(i, reached)
      PROVE  CallEffects
  <2>1. DOMAIN net' = DOMAIN net \cup {VoteRequest(i, j) : j \in reached}
    BY <1>3, StartElectionType
  <2>2. \A m \in {VoteRequest(i, j) : j \in reached} : ~IsAppend(m) /\ ~IsAnswer(m)
    BY DEF VoteRequest, IsAppend, IsAnswer
  <2> QED
    BY <2>1, <2>2 DEF CallEffects
<1>4. ASSUME NEW i \in Server, ElectionTimeout(i) PROVE CallEffects
  BY <1>3, <1>4 DEF ElectionTimeout
<1>5. ASSUME NEW i \in Server, StaleTimeout(i) PROVE CallEffects
  BY <1>1, <1>3, <1>5 DEF StaleTimeout
<1>6. ASSUME NEW i \in Server, TickerPause(i) \/ StaleRest(i) PROVE CallEffects
  BY <1>1, <1>6 DEF TickerPause, StaleRest
<1>7. ASSUME NEW i \in Server, WinElection(i) \/ Restart(i) PROVE CallEffects
  <2>1. DOMAIN net' \subseteq DOMAIN net
    BY <1>0, <1>7, WithoutDomain DEF WinElection, Restart, WithoutRepliesTo, NetOK
  <2> QED
    BY <1>1, <2>1
<1>8. ASSUME NEW i \in Server, NEW c \in Command, Start(i, c) PROVE CallEffects
  BY <1>1, <1>8 DEF Start
<1>9. ASSUME NEW i \in Server, NEW j \in Server, ReplicatorDone(i, j) PROVE CallEffects
  BY <1>1, <1>9 DEF ReplicatorDone
<1>10. ASSUME NEW m \in DOMAIN net, RejectStaleVote(m) \/ RequestVote(m) PROVE CallEffects
  <2>1. m \in RequestVoteArgs
    BY <1>0, <1>10, MessageKinds DEF RejectStaleVote, RequestVote, NetOK
  <2>2. currentTerm[m.to] \in Nat
    BY <2>1 DEF RequestVoteArgs, TypeOK
  <2>3. \E g \in BOOLEAN : VoteReplyTo(m, currentTerm[m.to], g)
    BY <1>10 DEF RejectStaleVote, RequestVote, CandidateUpToDate
  <2>4. PICK g \in BOOLEAN :
          DOMAIN net' \subseteq DOMAIN net \cup {VoteReplyMsg(m, currentTerm[m.to], g)}
    BY <1>0, <2>1, <2>2, <2>3, VoteReplyNet
  <2>5. /\ ~IsAppend(VoteReplyMsg(m, currentTerm[m.to], g))
        /\ ~IsAnswer(VoteReplyMsg(m, currentTerm[m.to], g))
    BY DEF VoteReplyMsg, IsAppend, IsAnswer
  <2> QED
    BY <2>4, <2>5 DEF CallEffects
<1>11. ASSUME NEW m \in DOMAIN net, VoteReply(m) \/ AppendReply(m) \/ HeartbeatReplied(m)
       PROVE  CallEffects
  <2>1. Consume(m)
    BY <1>11 DEF VoteReply, AppendReply, HeartbeatReplied
  <2> QED
    BY <1>0, <1>1, <2>1, ConsumeNet
<1>12. ASSUME NEW m \in DOMAIN net, CrashInHandler(m) PROVE CallEffects
  <2>1. IsABag(BagRemove(net, m)) /\ DOMAIN BagRemove(net, m) \subseteq DOMAIN net
    BY <1>0, BagRemoveDomain DEF NetOK
  <2>2. DOMAIN net' \subseteq DOMAIN net
    BY <1>12, <2>1, WithoutDomain DEF CrashInHandler, WithoutRepliesTo
  <2> QED
    BY <1>1, <2>2
<1> QED
  BY <1>2, <1>4, <1>5, <1>6, <1>7, <1>8, <1>9, <1>10, <1>11, <1>12, HandlerCalls,
     HeartbeatCalls, SendCalls DEF Next

\* A term is won once: a peer is in or past the terms it won, leads only a term
\* it won, and campaigns only for one it has not.
TermsWon ==
    \A i \in Server : /\ \A t \in won[i] : t <= currentTerm[i]
                      /\ state[i] = Candidate => currentTerm[i] \notin won[i]
                      /\ state[i] = Leader => currentTerm[i] \in won[i]

\* AppendEntries calls come from leaders and are answered to leaders.
CallsFromWinners ==
    \A m \in DOMAIN net : /\ IsAppend(m) => m.from \in Server /\ m.term \in won[m.from]
                          /\ IsAnswer(m) => m.to \in Server /\ m.term \in won[m.to]

LeaderInv ==
    /\ TermsWon
    /\ CallsFromWinners
    /\ SentInRange
    /\ \A i \in Server : state[i] = Leader => RangeOK(i)

\* The inductive invariant behind NextIndexInRange: what the replicateToPeer
\* goroutines of a leader sent, and what comes back, stays within its log.
THEOREM RaftLeaderInv == Spec => []LeaderInv
<1>1. Init => LeaderInv
  BY DEF Init, LeaderInv, TermsWon, CallsFromWinners, SentInRange, EmptyBag, SetToBag,
         Follower, Candidate, Leader
<1>2. TypeInv /\ TypeInv' /\ VoteInv /\ LeaderInv /\ [Next]_vars => LeaderInv'
  <2> SUFFICES ASSUME TypeInv, TypeInv', VoteInv, LeaderInv, [Next]_vars PROVE LeaderInv'
    OBVIOUS
  <2>1. LeaderEffects /\ CallEffects
    BY StepLeaders, StepCalls DEF TypeInv, LeaderInv
  <2>2. /\ currentTerm \in [Server -> Nat] /\ currentTerm' \in [Server -> Nat]
        /\ won \in [Server -> SUBSET Nat]
        /\ \A i \in Server : Len(log[i]) \in Nat /\ Len(log'[i]) \in Nat
    BY LenProperties DEF TypeInv, TypeOK
  <2>3. \A i \in Server : currentTerm[i] <= currentTerm'[i]
    BY StepEffects DEF TypeInv, VoteInv, VoteEffects
  <2>4. \A i \in Server : won[i] \subseteq won'[i]
    BY <2>1 DEF LeaderEffects, LeaderStep
  <2>5. TermsWon'
    <3> SUFFICES ASSUME NEW i \in Server
                 PROVE  /\ \A t \in won'[i] : t <= currentTerm'[i]
                        /\ state'[i] = Candidate => currentTerm'[i] \notin won'[i]
                        /\ state'[i] = Leader => currentTerm'[i] \in won'[i]
      BY DEF TermsWon
    <3>1. /\ \A t \in won[i] : t \in Nat /\ t <= currentTerm[i]
          /\ state[i] = Candidate => currentTerm[i] \notin won[i]
          /\ state[i] = Leader => currentTerm[i] \in won[i]
      BY <2>2 DEF LeaderInv, TermsWon
    <3>2. currentTerm[i] \in Nat /\ currentTerm'[i] \in Nat /\ currentTerm[i] <= currentTerm'[i]
      BY <2>2, <2>3
    <3>3. LeaderStep(i)
      BY <2>1 DEF LeaderEffects
    <3>4. CASE won'[i] = won[i]
      BY <3>1, <3>2, <3>3, <3>4 DEF LeaderStep, Leader, Candidate
    <3>5. CASE /\ state[i] = Candidate /\ state'[i] = Leader
               /\ currentTerm'[i] = currentTerm[i]
               /\ won'[i] = won[i] \cup {currentTerm[i]}
      BY <3>1, <3>2, <3>5 DEF Leader, Candidate
    <3> QED
      BY <3>3, <3>4, <3>5 DEF LeaderStep
  <2>6. CallsFromWinners'
    <3> SUFFICES ASSUME NEW m \in DOMAIN net'
                 PROVE  /\ IsAppend(m) => m.from \in Server /\ m.term \in won'[m.from]
                        /\ IsAnswer(m) => m.to \in Server /\ m.term \in won'[m.to]
      BY DEF CallsFromWinners, IsAppend, IsAnswer
    <3>1. ASSUME IsAppend(m) PROVE m.from \in Server /\ m.term \in won[m.from]
      BY <2>1, <3>1 DEF CallEffects, Leads, LeaderInv, CallsFromWinners, TermsWon
    <3>2. ASSUME IsAnswer(m) PROVE m.to \in Server /\ m.term \in won[m.to]
      BY <2>1, <3>2 DEF CallEffects, LeaderInv, CallsFromWinners
    <3> QED
      BY <2>4, <3>1, <3>2
  <2>7. ASSUME NEW i \in Server, NEW t \in won[i], Leads(i, t)'
        PROVE  Leads(i, t) /\ Len(log[i]) <= Len(log'[i])
    <3>1. LeaderStep(i)
      BY <2>1 DEF LeaderEffects
    <3>2. state'[i] = Leader /\ currentTerm'[i] = t
      BY <2>7 DEF Leads
    <3>3. ~(state[i] = Candidate /\ currentTerm'[i] = currentTerm[i])
      BY <3>2 DEF LeaderInv, TermsWon
    <3> QED
      BY <3>1, <3>2, <3>3 DEF LeaderStep, Leads
  <2>8. SentInRange'
    <3> SUFFICES ASSUME NEW m \in DOMAIN net'
                 PROVE  /\ IsAppend(m) /\ Leads(m.from, m.term)' => NewMatch(m) <= Len(log'[m.from])
                        /\ IsAnswer(m) /\ Leads(m.to, m.term)' => m.match <= Len(log'[m.to])
      BY DEF SentInRange, IsAppend, IsAnswer, NewMatch, Leads
    <3>1. ASSUME IsAppend(m), Leads(m.from, m.term)'
          PROVE  NewMatch(m) <= Len(log'[m.from])
      <4>1. m.from \in Server /\ m.term \in won[m.from]
        BY <2>1, <3>1 DEF CallEffects, Leads, LeaderInv, CallsFromWinners, TermsWon
      <4>2. Leads(m.from, m.term) /\ Len(log[m.from]) <= Len(log'[m.from])
        BY <2>7, <3>1, <4>1
      <4>3. NewMatch(m) <= Len(log[m.from])
        BY <2>1, <3>1, <4>2 DEF CallEffects, LeaderInv, SentInRange, IsAppend
      <4>4. m \in Message
        BY DEF TypeInv, TypeOK
      <4>5. m \in AppendEntriesArgs
        BY <3>1, <4>4, MessageKinds DEF IsAppend
      <4>6. NewMatch(m) \in Nat
        BY <4>5, LenProperties DEF NewMatch, AppendEntriesArgs
      <4> QED
        BY <2>2, <4>1, <4>2, <4>3, <4>6
    <3>2. ASSUME IsAnswer(m), Leads(m.to, m.term)'
          PROVE  m.match <= Len(log'[m.to])
      <4>1. m.to \in Server /\ m.term \in won[m.to]
        BY <2>1, <3>2 DEF CallEffects, LeaderInv, CallsFromWinners
      <4>2. Leads(m.to, m.term) /\ Len(log[m.to]) <= Len(log'[m.to])
        BY <2>7, <3>2, <4>1
      <4>3. m.match <= Len(log[m.to])
        <5>1. CASE m \in DOMAIN net
          BY <3>2, <4>2, <5>1 DEF LeaderInv, SentInRange, IsAnswer
        <5>2. CASE \E r \in DOMAIN net : /\ IsAppend(r) /\ r.from = m.to /\ r.term = m.term
                                         /\ NewMatch(r) = m.match
          BY <4>2, <5>2 DEF LeaderInv, SentInRange, IsAppend
        <5> QED
          BY <2>1, <3>2, <5>1, <5>2 DEF CallEffects
      <4>4. m \in Message
        BY DEF TypeInv, TypeOK
      <4>5. m \in AppendEntriesReply
        BY <3>2, <4>4, MessageKinds DEF IsAnswer
      <4>6. m.match \in Nat
        BY <4>5 DEF AppendEntriesReply
      <4> QED
        BY <2>2, <4>1, <4>2, <4>3, <4>6
    <3> QED
      BY <3>1, <3>2
  <2>9. ASSUME NEW i \in Server, state'[i] = Leader PROVE RangeOK(i)'
    BY <2>1, <2>9 DEF LeaderEffects, LeaderStep, LeaderInv
  <2> QED
    BY <2>5, <2>6, <2>8, <2>9 DEF LeaderInv
<1> QED
  BY <1>1, <1>2, RaftTypeInv, RaftVoteInv, PTL DEF Spec

\* The slices of replicateToPeer never run out of the log, for any number of
\* goroutines per follower and any order of their replies; two leaders in one
\* term (OneLeaderPerTerm does not hold) do not change that.
THEOREM RaftNextIndex == Spec => []NextIndexInRange
<1>1. LeaderInv => NextIndexInRange
  BY DEF LeaderInv, RangeOK, NextIndexInRange
<1> QED
  BY <1>1, RaftLeaderInv, PTL
=============================================================================
