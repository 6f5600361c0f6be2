-------------------------- MODULE RaftCommitProofs --------------------------
(* What is committed stays committed, for any finite set of peers: leader    *)
(* completeness, one order of commands for all, and no peer taking back what *)
(* it committed.  To the two histories of RaftLogProofs the invariant adds   *)
(* what a vote says about them (a voter's log was no newer than the          *)
(* candidate's) and what a commit index stands for (an entry of some term    *)
(* that a majority reported to the leader of that term).                     *)
(*                                                                           *)
(* The theorems ask that followers keep rule 5 of AppendEntries as the       *)
(* comment above it has it (RuleFive): the code does not where a call ends   *)
(* before the follower's log does, and is wrong there, as the run raft_batch *)
(* shows.  RaftShortLogs says that it does as long as one call can hold all  *)
(* of a log.                                                                 *)
EXTENDS RaftLogProofs, RaftCommits

-----------------------------------------------------------------------------
(* Votes and commits in terms of the histories *)

\* A vote of v in term u for a candidate with log l: whatever entry of its own
\* term t the leader of t was told that v has, the candidate has too, unless a
\* leader between t and u had already lost it.  E are the terms that were won.
BallotOK(E, H, A, v, l, u) ==
    \A t \in Nat : \A n \in A[v][t] :
        t < u /\ n >= 1 /\ H[t][n].term = t => Agree(l, H[t], n) \/ Lost(E, H, t, n, u - 1)

\* A RequestVote call describes the log of its candidate.
Requests ==
    \A m \in DOMAIN net : IsRequest(m) =>
        /\ m.term <= currentTerm[m.from]
        /\ m.term = currentTerm[m.from] /\ state[m.from] = Candidate =>
              /\ m.lastLogIndex = Len(log[m.from])
              /\ m.lastLogTerm = LastTerm(log[m.from])

\* Nobody has a vote for a term it has not reached.
VotesReached ==
    \A v \in Server, u \in Nat, c \in Server : <<v, u, c>> \in cast => u <= currentTerm[c]

Ballots(H, A) ==
    \A c \in Server, v \in Server :
        /\ state[c] = Candidate /\ ~Elected(currentTerm[c])
        /\ <<v, currentTerm[c], c>> \in cast
        => BallotOK(ElectedTerms, H, A, v, log[c], currentTerm[c])

Mandates(H, A) ==
    \A u \in Nat : Elected(u) =>
        \E Q \in SUBSET Server :
            /\ Majority(Q)
            /\ \A v \in Q : /\ u <= currentTerm[v]
                            /\ BallotOK(ElectedTerms, H, A, v, H[u], u)

BallotInv(H, A) == Requests /\ VotesReached /\ Ballots(H, A) /\ Mandates(H, A)

\* The leader of t has counted a majority for its own entry at n.
Committed(H, A, t, n) ==
    /\ n \in 1..Len(H[t]) /\ H[t][n].term = t
    /\ \E Q \in SUBSET Server : Majority(Q) /\ \A v \in Q : n \in A[v][t]

\* The first k entries of l are committed, by term T.
CommitOK(H, A, l, k, T) ==
    \/ k = 0
    \/ \E t, n \in Nat : t <= T /\ k <= n /\ Committed(H, A, t, n) /\ Agree(l, H[t], k)

CommitInv(H, A) ==
    /\ \A i \in Server : CommitOK(H, A, log[i], commitIndex[i], currentTerm[i])
    /\ \A m \in DOMAIN net : IsAppend(m) => CommitOK(H, A, H[m.term], m.leaderCommit, m.term)

\* "Commit up to min(leaderCommit, index of the last new entry)": the comment
\* above rule 5 of AppendEntries.
RuleFive ==
    \A i \in Server :
        commitIndex[i] < commitIndex'[i] /\ state'[i] = Follower =>
            \E m \in DOMAIN net : /\ Accepts(m) /\ m.to = i
                                  /\ commitIndex'[i] = Min2(m.leaderCommit, NewMatch(m))

\* Followers keep that rule, as long as nobody votes twice.
KeepsRuleFive == [][NoRevote' => RuleFive]_vars

LogsBounded(H) ==
    /\ \A t \in Nat : Len(H[t]) <= MaxLog
    /\ \A i \in Server : Len(log[i]) <= MaxLog

\* The calls under way reach as far as the commit index they carry.
CallsReach == \A m \in DOMAIN net : IsAppend(m) => m.leaderCommit <= NewMatch(m)

-----------------------------------------------------------------------------
(* Why a leader has what was committed before its term *)

\* Every set of terms has a first one: otherwise the numbers below all of them
\* would be finitely many and closed under successor.
LEMMA Least ==
    ASSUME NEW T, T \subseteq Nat, T # {}
    PROVE  \E x \in T : \A y \in T : x <= y
<1> SUFFICES ASSUME \A x \in T : \E y \in T : y < x
             PROVE  FALSE
  OBVIOUS
<1> DEFINE Below == {y \in Nat : \A x \in T : y < x}
           Above == Below \ {0}
           next == [y \in Below |-> y + 1]
<1>1. PICK top \in Nat : \A y \in Below : y <= top
  <2>1. PICK x \in T : x \in Nat
    OBVIOUS
  <2>2. \A y \in Below : y <= x
    BY <2>1
  <2> QED
    BY <2>1, <2>2
<1>2. IsFiniteSet(Below)
  <2>1. Below \in SUBSET Nat
    OBVIOUS
  <2> HIDE DEF Below
  <2> QED
    BY <1>1, <2>1, FS_BoundedSetOfNaturals
<1>3. 0 \in Below
  OBVIOUS
<1>4. ASSUME NEW y \in Below PROVE y + 1 \in Above
  <2>1. ASSUME NEW x \in T PROVE y + 1 < x
    <3>1. PICK z \in T : z < x
      OBVIOUS
    <3>2. x \in Nat /\ y \in Nat /\ z \in Nat /\ y < z
      OBVIOUS
    <3> QED
      BY <3>1, <3>2
  <2> QED
    BY <2>1
<1> HIDE DEF Below
<1>5. next \in [Below -> Above]
  BY <1>4
<1>6. IsFiniteSet(Above) /\ Cardinality(Above) = Cardinality(Below) - 1 /\ Cardinality(Below) \in Nat
  BY <1>2, <1>3, FS_RemoveElement, FS_CardinalityType
<1> HIDE DEF Above, next
<1>7. \E x, y \in Below : x # y /\ next[x] = next[y]
  BY <1>2, <1>5, <1>6, FS_PigeonHole
<1> QED
  BY <1>7 DEF next, Below

\* Leader completeness in terms of the histories: no first later leader can
\* lack a committed entry, because a voter of its majority had reported it.
LEMMA LaterLeadersHave ==
    ASSUME NEW H \in History, NEW A \in Acks, Mandates(H, A),
           NEW t \in Nat, NEW n \in Nat, Committed(H, A, t, n),
           NEW s \in Nat, Elected(s), t < s
    PROVE  Agree(H[s], H[t], n)
<1> DEFINE T == {x \in Nat : Elected(x) /\ t < x /\ ~Agree(H[x], H[t], n)}
<1> SUFFICES ASSUME T # {} PROVE FALSE
  OBVIOUS
<1>1. T \subseteq Nat
  OBVIOUS
<1>2. PICK x \in T : \A y \in T : x <= y
  BY <1>1, Least
<1>3. x \in Nat /\ Elected(x) /\ t < x /\ ~Agree(H[x], H[t], n)
  OBVIOUS
<1>4. PICK P \in SUBSET Server :
        /\ Majority(P)
        /\ \A v \in P : BallotOK(ElectedTerms, H, A, v, H[x], x)
  BY <1>3 DEF Mandates
<1>5. PICK Q \in SUBSET Server : Majority(Q) /\ \A v \in Q : n \in A[v][t]
  BY DEF Committed
<1>6. PICK v \in P : v \in Q
  BY <1>4, <1>5, MajoritiesMeet
<1>7. n >= 1 /\ H[t][n].term = t /\ n \in A[v][t]
  BY <1>5, <1>6 DEF Committed
<1>8. Lost(ElectedTerms, H, t, n, x - 1)
  BY <1>3, <1>4, <1>6, <1>7 DEF BallotOK
<1>9. PICK y \in ElectedTerms : t < y /\ y <= x - 1 /\ ~Agree(H[y], H[t], n)
  BY <1>8 DEF Lost
<1>10. y \in T
  BY <1>9 DEF ElectedTerms
<1> QED
  BY <1>2, <1>3, <1>9, <1>10

-----------------------------------------------------------------------------
(* Why a vote is honest *)

\* Terms do not decrease along a log.
LEMMA TermsGrow ==
    ASSUME NEW H, LeaderLogs(H), NEW l \in Seq(Entry), Follows(l, H),
           NEW k \in 1..Len(l), NEW n \in 1..Len(l), k <= n
    PROVE  l[k].term <= l[n].term
<1>1. PICK x \in Nat : x = l[n].term
  BY EntryType
<1>2. Agree(l, H[x], n)
  BY <1>1 DEF Follows
<1>3. Len(l) \in Nat /\ H[x] \in Seq(Entry) /\ Len(H[x]) \in Nat
  BY LenProperties DEF LeaderLogs, History
<1>4. k \in 1..n /\ k \in 1..Len(H[x])
  BY <1>2, <1>3 DEF Agree
<1>5. l[k] = H[x][k]
  BY <1>2, <1>4 DEF Agree
<1>6. TermsUpTo(H[x], x)
  BY DEF LeaderLogs
<1> QED
  BY <1>1, <1>4, <1>5, <1>6 DEF TermsUpTo

\* The last entry of a log, its index and its term.
LEMMA LastEntry ==
    ASSUME NEW l \in Seq(Entry), LastTerm(l) # 0 \/ Len(l) # 0
    PROVE  Len(l) \in 1..Len(l) /\ l[Len(l)].term = LastTerm(l)
<1>1. Len(l) \in Nat
  BY LenProperties
<1> QED
  BY <1>1 DEF LastTerm, TermAt

\* A log that is up to date by candidateUpToDateLocked has what the voter has
\* of the leader of t, or an entry of a leader after t that lost it.
LEMMA UpToDateHas ==
    ASSUME NEW H, LeaderLogs(H), NEW l \in Seq(Entry), Follows(l, H),
           NEW r \in Seq(Entry), Follows(r, H),
           NEW t \in Nat, NEW n \in Nat, n >= 1, Agree(r, H[t], n), H[t][n].term = t,
           \/ LastTerm(l) > LastTerm(r)
           \/ LastTerm(l) = LastTerm(r) /\ Len(l) >= Len(r)
    PROVE  \/ Agree(l, H[t], n)
           \/ \E x \in Nat : /\ t < x /\ Elected(x) /\ ~Agree(H[x], H[t], n)
                             /\ \E k \in 1..Len(l) : l[k].term = x
<1>1. /\ Len(l) \in Nat /\ Len(r) \in Nat /\ H[t] \in Seq(Entry) /\ H \in History
      /\ n <= Len(r) /\ n <= Len(H[t])
  BY LenProperties DEF LeaderLogs, History, Agree
<1>2. n \in 1..Len(r) /\ r[n].term = t
  BY <1>1 DEF Agree
<1>3. Len(r) \in 1..Len(r) /\ r[Len(r)].term = LastTerm(r) /\ LastTerm(r) \in Nat
  <2>1. Len(r) \in 1..Len(r) /\ r[Len(r)].term = LastTerm(r)
    BY <1>1, <1>2, LastEntry
  <2> QED
    BY <2>1, EntryType
<1>4. t <= LastTerm(r)
  BY <1>1, <1>2, <1>3, TermsGrow
<1>5. CASE LastTerm(l) = LastTerm(r) /\ Len(l) >= Len(r)
  <2>1. Len(l) \in 1..Len(l) /\ l[Len(l)].term = LastTerm(l)
    BY <1>1, <1>2, <1>5, LastEntry
  <2>2. Agree(l, H[LastTerm(r)], Len(l)) /\ Agree(r, H[LastTerm(r)], Len(r))
    BY <1>3, <1>5, <2>1 DEF Follows
  <2>3. H[LastTerm(r)] \in Seq(Entry)
    BY <1>1, <1>3 DEF History
  <2>4. Agree(l, H[LastTerm(r)], n) /\ Agree(r, H[LastTerm(r)], n)
    BY <1>1, <1>5, <2>2, <2>3, AgreeDown
  <2> QED
    BY <2>4, AgreeSym, AgreeTrans
<1>6. CASE LastTerm(l) > LastTerm(r)
  <2>1. Len(l) # 0
    BY <1>3, <1>6 DEF LastTerm, TermAt
  <2>2. Len(l) \in 1..Len(l) /\ l[Len(l)].term = LastTerm(l)
    BY <2>1, LastEntry
  <2>3. PICK x \in Nat : x = LastTerm(l)
    BY <2>2, EntryType
  <2>4. t < x
    BY <1>3, <1>4, <1>6, <2>3
  <2>5. Agree(l, H[x], Len(l)) /\ H[x] \in Seq(Entry) /\ Len(H[x]) \in Nat
    BY <1>1, <2>2, <2>3, LenProperties DEF Follows, History
  <2>6. Elected(x)
    <3>1. Len(H[x]) # 0
      BY <1>1, <2>1, <2>5 DEF Agree
    <3>2. H[x] # <<>>
      BY <3>1
    <3> QED
      BY <3>2 DEF LeaderLogs
  <2>7. CASE ~Agree(H[x], H[t], n)
    BY <2>2, <2>3, <2>4, <2>6, <2>7
  <2>8. CASE Agree(H[x], H[t], n)
    <3>1. Len(l) >= n
      <4> SUFFICES ASSUME Len(l) < n PROVE FALSE
        BY <1>1
      <4>1. Len(l) \in 1..n /\ Len(l) \in 1..Len(H[t])
        BY <1>1, <2>2
      <4>2. H[t][Len(l)] = H[x][Len(l)] /\ H[x][Len(l)] = l[Len(l)]
        BY <2>2, <2>5, <2>8, <4>1 DEF Agree
      <4>3. H[t][Len(l)].term <= t
        BY <4>1 DEF LeaderLogs, TermsUpTo
      <4> QED
        BY <2>2, <2>3, <2>4, <4>2, <4>3
    <3>2. Agree(l, H[x], n)
      BY <1>1, <2>5, <3>1, AgreeDown
    <3> QED
      BY <2>8, <3>2, AgreeTrans
  <2> QED
    BY <2>7, <2>8
<1> QED
  BY <1>5, <1>6

\* A vote given by the rule of candidateUpToDateLocked, in a term nobody has
\* won, is honest.
LEMMA UpToDateBallot ==
    ASSUME TypeOK, NEW H, LogInv(H), NEW A, AckInv(H, A),
           NEW v \in Server, NEW c \in Server, NEW u \in Nat, u = currentTerm[c],
           ~Elected(u), currentTerm[v] <= u,
           \/ LastTerm(log[c]) > LastTerm(log[v])
           \/ LastTerm(log[c]) = LastTerm(log[v]) /\ Len(log[c]) >= Len(log[v])
    PROVE  BallotOK(ElectedTerms, H, A, v, log[c], u)
<1> SUFFICES ASSUME NEW t \in Nat, NEW n \in A[v][t], t < u, n >= 1, H[t][n].term = t
             PROVE  Agree(log[c], H[t], n) \/ Lost(ElectedTerms, H, t, n, u - 1)
  BY DEF BallotOK
<1>1. n \in Nat /\ log[c] \in Seq(Entry) /\ log[v] \in Seq(Entry) /\ currentTerm[v] \in Nat
  BY TypeFacts DEF AckInv, Acks
<1>2. ASSUME NEW s \in ElectedTerms, t < s, s <= u, ~Agree(H[s], H[t], n)
      PROVE  Lost(ElectedTerms, H, t, n, u - 1)
  <2>1. s \in Nat /\ s # u
    BY <1>2 DEF ElectedTerms
  <2>2. s <= u - 1
    BY <1>2, <2>1
  <2> QED
    BY <1>2, <2>2 DEF Lost
<1>3. CASE Lost(ElectedTerms, H, t, n, currentTerm[v])
  <2>1. PICK s \in ElectedTerms : t < s /\ s <= currentTerm[v] /\ ~Agree(H[s], H[t], n)
    BY <1>3 DEF Lost
  <2>2. s <= u
    BY <1>1, <2>1 DEF ElectedTerms
  <2> QED
    BY <1>2, <2>1, <2>2
<1>4. CASE Agree(log[v], H[t], n)
  <2>1. LeaderLogs(H) /\ Follows(log[c], H) /\ Follows(log[v], H) /\ TermsUpTo(log[c], u)
    BY DEF LogInv
  <2>2. \/ Agree(log[c], H[t], n)
        \/ \E x \in Nat : /\ t < x /\ Elected(x) /\ ~Agree(H[x], H[t], n)
                          /\ \E k \in 1..Len(log[c]) : log[c][k].term = x
    BY <1>1, <1>4, <2>1, UpToDateHas
  <2>3. ASSUME NEW x \in Nat, t < x, Elected(x), ~Agree(H[x], H[t], n),
               NEW k \in 1..Len(log[c]), log[c][k].term = x
        PROVE  Lost(ElectedTerms, H, t, n, u - 1)
    <3>1. x <= u /\ x \in ElectedTerms
      BY <2>1, <2>3 DEF TermsUpTo, ElectedTerms
    <3> QED
      BY <1>2, <2>3, <3>1
  <2> QED
    BY <2>2, <2>3
<1> QED
  BY <1>3, <1>4 DEF AckInv, AcksKept

\* So is the vote a new candidate gives itself.
LEMMA OwnBallot ==
    ASSUME TypeOK, NEW H, NEW A, AckInv(H, A), NEW c \in Server, NEW u \in Nat,
           u = currentTerm[c] + 1
    PROVE  BallotOK(ElectedTerms, H, A, c, log[c], u)
<1>1. u - 1 = currentTerm[c]
  BY TypeFacts
<1> QED
  BY <1>1 DEF BallotOK, AckInv, AcksKept

\* A vote says as much of every longer log.
LEMMA BallotExtends ==
    ASSUME NEW E, NEW H \in History, NEW A \in Acks, NEW v \in Server, NEW u,
           NEW l \in Seq(Entry), NEW k \in Seq(Entry), Agree(l, k, Len(l)),
           BallotOK(E, H, A, v, l, u)
    PROVE  BallotOK(E, H, A, v, k, u)
<1> SUFFICES ASSUME NEW t \in Nat, NEW n \in A[v][t], t < u, n >= 1, H[t][n].term = t,
                    Agree(l, H[t], n)
             PROVE  Agree(k, H[t], n)
  BY DEF BallotOK
<1>1. n \in Nat /\ Len(l) \in Nat /\ n <= Len(l)
  BY LenProperties DEF Acks, Agree
<1>2. Agree(l, k, n)
  BY <1>1, AgreeDown
<1> QED
  BY <1>2, AgreeSym, AgreeTrans

-----------------------------------------------------------------------------
(* The votes through a step *)

\* A vote once given stays honest: the voter reports nothing more to leaders of
\* earlier terms, and what they had, had lost or reported does not change.
LEMMA BallotStays ==
    ASSUME GoodStep, NEW H, LogInv(H), NEW K, HistoryStep(H, K),
           NEW A, AckInv(H, A), NEW D, AckStep(A, D),
           NEW v \in Server, NEW l \in Seq(Entry), NEW u \in Nat, u <= currentTerm'[v],
           BallotOK(ElectedTerms, H, A, v, l, u)
    PROVE  BallotOK(ElectedTerms', K, D, v, l, u)
<1> SUFFICES ASSUME NEW t \in Nat, NEW n \in D[v][t], t < u, n >= 1, K[t][n].term = t
             PROVE  Agree(l, K[t], n) \/ Lost(ElectedTerms', K, t, n, u - 1)
  BY DEF BallotOK
<1>1. currentTerm'[v] \in Nat /\ n \in Nat /\ LeaderLogs(H)
  BY GoodStepFacts DEF AckStep, Acks, LogInv
<1>2. ~NowLeads(v, t)
  BY <1>1 DEF NowLeads
<1>3. ASSUME NEW m \in DOMAIN net, Accepts(m), m.to = v, m.term = t PROVE FALSE
  BY <1>1, <1>3 DEF Accepts
<1>4. n \in A[v][t]
  BY <1>1, <1>2, <1>3 DEF AckStep
<1>5. n <= Len(H[t])
  BY <1>4 DEF AckInv, AcksKept
<1>6. H[t] \in Seq(Entry) /\ K[t] \in Seq(Entry) /\ Agree(H[t], K[t], Len(H[t]))
  BY <1>1, HistoryGrows
<1>7. Agree(H[t], K[t], n) /\ H[t][n].term = t
  <2>1. Len(H[t]) \in Nat
    BY <1>6, LenProperties
  <2>2. Agree(H[t], K[t], n)
    BY <1>1, <1>5, <1>6, <2>1, AgreeDown
  <2> QED
    BY <1>1, <2>2 DEF Agree
<1>8. CASE Agree(l, H[t], n)
  BY <1>7, <1>8, AgreeTrans
<1>9. CASE Lost(ElectedTerms, H, t, n, u - 1)
  <2>1. u - 1 \in Nat
    OBVIOUS
  <2> QED
    BY <1>1, <1>5, <1>9, <2>1, LostStays
<1> QED
  BY <1>4, <1>7, <1>8, <1>9 DEF BallotOK

\* A new vote is a new candidate's own, or the answer of the RequestVote handler
\* to a call of an up-to-date candidate.
NewVote(v, u, c) ==
    \/ v = c /\ u = currentTerm[c] + 1 /\ currentTerm'[c] = u
    \/ \E m \in DOMAIN net : /\ IsRequest(m) /\ m.to = v /\ m.from = c /\ m.term = u
                             /\ currentTerm[v] <= u
                             /\ CandidateUpToDate(m, log[v])

CastEffects ==
    \A v \in Server, u \in Nat, c \in Server :
        <<v, u, c>> \in cast' => <<v, u, c>> \in cast \/ NewVote(v, u, c)

\* Every step gives only such votes.
LEMMA StepCasts ==
    ASSUME TypeOK, [Next]_vars
    PROVE  CastEffects
<1>0. NetOK(net) /\ currentTerm \in [Server -> Nat]
  BY TypeFacts
<1>1. ASSUME cast' = cast PROVE CastEffects
  BY <1>1 DEF CastEffects
<1>2. CASE UNCHANGED vars
  BY <1>1, <1>2 DEF vars
<1>3. ASSUME NEW i \in Server, ElectionTimeout(i) \/ StaleTimeout(i) PROVE CastEffects
  <2>1. /\ cast' = cast \cup {<<i, currentTerm[i] + 1, i>>}
        /\ currentTerm' = [currentTerm EXCEPT ![i] = @ + 1]
    BY <1>3 DEF ElectionTimeout, StaleTimeout, BecomeCandidate
  <2>2. currentTerm'[i] = currentTerm[i] + 1
    BY <1>0, <2>1
  <2> QED
    BY <2>1, <2>2 DEF CastEffects, NewVote
<1>4. ASSUME NEW i \in Server, TickerPause(i) \/ StaleRest(i) \/ WinElection(i) \/ Restart(i)
      PROVE  CastEffects
  BY <1>1, <1>4 DEF TickerPause, StaleRest, WinElection, Restart, Reboot
<1>5. ASSUME NEW i \in Server, NEW c \in Command, Start(i, c) PROVE CastEffects
  BY <1>1, <1>5 DEF Start
<1>6. ASSUME NEW i \in Server, NEW j \in Server,
             Heartbeat(i, j) \/ SendEntries(i, j) \/ ReplicatorDone(i, j)
      PROVE  CastEffects
  BY <1>1, <1>6 DEF Heartbeat, SendEntries, ReplicatorDone
<1>7. ASSUME NEW m \in DOMAIN net, RequestVote(m) PROVE CastEffects
  <2>1. m \in RequestVoteArgs /\ IsRequest(m)
    BY <1>0, <1>7, MessageKinds DEF RequestVote, NetOK, IsRequest
  <2>2. m.to \in Server /\ m.from \in Server /\ m.term \in Nat /\ currentTerm[m.to] \in Nat
    BY <1>0, <2>1 DEF RequestVoteArgs
  <2>3. currentTerm[m.to] <= m.term
    BY <1>7, <2>2 DEF RequestVote
  <2>4. CASE cast' = cast
    BY <1>1, <2>4
  <2>5. CASE cast' = cast \cup {<<m.to, m.term, m.from>>} /\ CandidateUpToDate(m, log[m.to])
    BY <2>1, <2>2, <2>3, <2>5 DEF CastEffects, NewVote
  <2> QED
    BY <1>7, <2>4, <2>5 DEF RequestVote
<1>8. ASSUME NEW m \in DOMAIN net,
             \/ RejectStaleVote(m) \/ VoteReply(m) \/ RejectStaleAppend(m) \/ AppendEntries(m)
             \/ AppendReply(m) \/ HeartbeatReplied(m) \/ CrashInHandler(m)
      PROVE  CastEffects
  BY <1>1, <1>8 DEF RejectStaleVote, VoteReply, RejectStaleAppend, AppendEntries, AppendReply,
                    HeartbeatReplied, CrashInHandler, Reboot
<1> QED
  BY <1>2, <1>3, <1>4, <1>5, <1>6, <1>7, <1>8 DEF Next

\* commitIndex is left alone, forgotten in a crash, set to what an accepted call
\* says, or advanced by a leader.
CommitStep(k) ==
    \/ commitIndex'[k] = commitIndex[k]
    \/ commitIndex'[k] = 0 /\ boot'[k] # boot[k]
    \/ \E m \in DOMAIN net : /\ Accepts(m) /\ m.to = k /\ commitIndex[k] < m.leaderCommit
                             /\ commitIndex'[k] = Min2(m.leaderCommit, Len(log'[k]))
    \/ /\ state[k] = Leader /\ state'[k] = Leader
       /\ currentTerm'[k] = currentTerm[k] /\ log'[k] = log[k]
       /\ commitIndex'[k] \in Committable(k, matchIndex'[k])

CommitEffects == \A k \in Server : CommitStep(k)

\* Every step treats every commitIndex so.
LEMMA StepCommits ==
    ASSUME TypeOK, [Next]_vars
    PROVE  CommitEffects
<1>0. /\ NetOK(net) /\ commitIndex \in [Server -> Nat] /\ boot \in [Server -> Nat]
      /\ currentTerm \in [Server -> Nat]
  BY TypeFacts DEF TypeOK
<1>1. ASSUME commitIndex' = commitIndex PROVE CommitEffects
  BY <1>1 DEF CommitEffects, CommitStep
<1>2. CASE UNCHANGED vars
  BY <1>1, <1>2 DEF vars
<1>3. ASSUME NEW i \in Server, ElectionTimeout(i) \/ StaleTimeout(i) PROVE CommitEffects
  BY <1>1, <1>3 DEF ElectionTimeout, StaleTimeout
<1>4. ASSUME NEW i \in Server, TickerPause(i) \/ StaleRest(i) \/ WinElection(i)
      PROVE  CommitEffects
  BY <1>1, <1>4 DEF TickerPause, StaleRest, WinElection, volatile
<1>5. ASSUME NEW i \in Server, NEW disk, Reboot(i, disk) PROVE CommitEffects
  <2>1. /\ commitIndex' = [commitIndex EXCEPT ![i] = 0]
        /\ boot' = [boot EXCEPT ![i] = @ + 1]
    BY <1>5 DEF Reboot
  <2>2. commitIndex'[i] = 0 /\ boot'[i] = boot[i] + 1 /\ boot[i] \in Nat
    BY <1>0, <2>1
  <2>3. boot'[i] # boot[i]
    BY <2>2
  <2>4. \A k \in Server : k # i => commitIndex'[k] = commitIndex[k]
    BY <1>0, <2>1
  <2> QED
    BY <2>2, <2>3, <2>4 DEF CommitEffects, CommitStep
<1>6. ASSUME NEW i \in Server, Restart(i) PROVE CommitEffects
  BY <1>5, <1>6 DEF Restart
<1>7. ASSUME NEW i \in Server, NEW c \in Command, Start(i, c) PROVE CommitEffects
  BY <1>1, <1>7 DEF Start
<1>8. ASSUME NEW i \in Server, NEW j \in Server,
             Heartbeat(i, j) \/ SendEntries(i, j) \/ ReplicatorDone(i, j)
      PROVE  CommitEffects
  BY <1>1, <1>8 DEF Heartbeat, SendEntries, ReplicatorDone, volatile
<1>9. ASSUME NEW m \in DOMAIN net,
             \/ RejectStaleVote(m) \/ RequestVote(m) \/ VoteReply(m) \/ RejectStaleAppend(m)
             \/ HeartbeatReplied(m)
      PROVE  CommitEffects
  BY <1>1, <1>9 DEF RejectStaleVote, RequestVote, VoteReply, RejectStaleAppend,
                    HeartbeatReplied, volatile
<1>10. ASSUME NEW m \in DOMAIN net, AppendEntries(m) PROVE CommitEffects
  <2>1. /\ m \in AppendEntriesArgs
        /\ PrevMatches(m, log[m.to]) => Accepts(m)
    BY <1>10, HandlerLogs
  <2>2. m.to \in Server /\ m.leaderCommit \in Nat
    BY <2>1 DEF AppendEntriesArgs
  <2>3. CASE commitIndex' = commitIndex
    BY <1>1, <2>3
  <2>4. CASE /\ PrevMatches(m, log[m.to]) /\ m.leaderCommit > commitIndex[m.to]
             /\ commitIndex' = [commitIndex EXCEPT ![m.to] = Min2(m.leaderCommit, Len(log'[m.to]))]
    <3>1. /\ Accepts(m) /\ commitIndex[m.to] < m.leaderCommit
          /\ commitIndex'[m.to] = Min2(m.leaderCommit, Len(log'[m.to]))
          /\ \A k \in Server : k # m.to => commitIndex'[k] = commitIndex[k]
      BY <1>0, <2>1, <2>2, <2>4
    <3> QED
      BY <3>1 DEF CommitEffects, CommitStep
  <2> QED
    BY <1>10, <2>3, <2>4 DEF AppendEntries
<1>11. ASSUME NEW m \in DOMAIN net, AppendReply(m) PROVE CommitEffects
  <2>1. m \in AppendEntriesReply
    BY <1>0, <1>11, MessageKinds DEF AppendReply, NetOK
  <2>2. m.to \in Server
    BY <2>1 DEF AppendEntriesReply
  <2>3. CASE commitIndex' = commitIndex
    BY <1>1, <2>3
  <2>4. CASE /\ state[m.to] = Leader /\ state' = state /\ currentTerm' = currentTerm /\ log' = log
             /\ \E n \in Committable(m.to, matchIndex'[m.to]) \cup {commitIndex[m.to]} :
                   commitIndex' = [commitIndex EXCEPT ![m.to] = n]
    <3>1. PICK n \in Committable(m.to, matchIndex'[m.to]) \cup {commitIndex[m.to]} :
            commitIndex' = [commitIndex EXCEPT ![m.to] = n]
      BY <2>4
    <3>2. commitIndex'[m.to] = n /\ \A k \in Server : k # m.to => commitIndex'[k] = commitIndex[k]
      BY <1>0, <2>2, <3>1
    <3> QED
      BY <2>4, <3>1, <3>2 DEF CommitEffects, CommitStep
  <2> QED
    BY <1>11, <2>3, <2>4 DEF AppendReply
<1>12. ASSUME NEW m \in DOMAIN net, CrashInHandler(m) PROVE CommitEffects
  <2>1. m \in RequestVoteArgs \/ m \in AppendEntriesArgs
    BY <1>0, <1>12, MessageKinds DEF CrashInHandler, NetOK
  <2>2. m.to \in Server
    BY <2>1 DEF RequestVoteArgs, AppendEntriesArgs
  <2> QED
    BY <1>5, <1>12, <2>2 DEF CrashInHandler
<1> QED
  BY <1>2, <1>3, <1>4, <1>6, <1>7, <1>8, <1>9, <1>10, <1>11, <1>12 DEF Next

\* Who is a candidate after a step has just become one, or was one of the same
\* term with the same log.
LEMMA CandidateWas ==
    ASSUME GoodStep, NEW c \in Server, state'[c] = Candidate
    PROVE  \/ currentTerm[c] < currentTerm'[c]
           \/ state[c] = Candidate /\ currentTerm'[c] = currentTerm[c] /\ log'[c] = log[c]
<1>1. LogStep(c) /\ LeaderStep(c)
  BY GoodStepFacts DEF LogEffects, LeaderEffects
<1>2. \/ state[c] = Candidate /\ currentTerm'[c] = currentTerm[c]
      \/ currentTerm[c] < currentTerm'[c]
  BY <1>1, GoodStepFacts DEF LeaderStep, Candidate, Leader
<1>3. ASSUME NEW m \in DOMAIN net, Accepts(m), m.to = c PROVE FALSE
  BY <1>3 DEF Accepts, Follower, Candidate
<1>4. log'[c] = log[c]
  BY <1>1, <1>3 DEF LogStep, Candidate, Leader
<1> QED
  BY <1>2, <1>4

\* RequestVote calls go on describing the logs of their candidates.
LEMMA StepRequests ==
    ASSUME GoodStep, Requests
    PROVE  Requests'
<1> SUFFICES ASSUME NEW m \in DOMAIN net', IsRequest(m)
             PROVE  /\ m.term <= currentTerm'[m.from]
                    /\ m.term = currentTerm'[m.from] /\ state'[m.from] = Candidate =>
                          /\ m.lastLogIndex = Len(log'[m.from])
                          /\ m.lastLogTerm = LastTerm(log'[m.from])
  BY DEF Requests, IsRequest, LastTerm, TermAt
<1>1. m \in RequestVoteArgs
  BY GoodStepFacts, MessageKinds DEF IsRequest
<1>2. /\ m.from \in Server /\ m.term \in Nat /\ currentTerm[m.from] \in Nat
      /\ currentTerm'[m.from] \in Nat /\ currentTerm[m.from] <= currentTerm'[m.from]
  BY <1>1, GoodStepFacts DEF RequestVoteArgs
<1>3. CASE m \in DOMAIN net
  <2>1. /\ m.term <= currentTerm[m.from]
        /\ m.term = currentTerm[m.from] /\ state[m.from] = Candidate =>
              /\ m.lastLogIndex = Len(log[m.from])
              /\ m.lastLogTerm = LastTerm(log[m.from])
    BY <1>3 DEF Requests
  <2>2. ASSUME m.term = currentTerm'[m.from], state'[m.from] = Candidate
        PROVE  /\ state[m.from] = Candidate /\ currentTerm'[m.from] = currentTerm[m.from]
               /\ log'[m.from] = log[m.from]
    BY <1>2, <2>1, <2>2, CandidateWas
  <2> QED
    BY <1>2, <2>1, <2>2
<1>4. CASE NewRequest(m)
  BY <1>2, <1>4 DEF NewRequest
<1> QED
  BY <1>3, <1>4, GoodStepFacts DEF SendEffects, NewCall, NewAnswer, IsAppend, IsAnswer, IsRequest

\* Nobody gets a vote for a term it has not reached.
LEMMA StepVotesReached ==
    ASSUME GoodStep, Requests, VotesReached
    PROVE  VotesReached'
<1> SUFFICES ASSUME NEW v \in Server, NEW u \in Nat, NEW c \in Server, <<v, u, c>> \in cast'
             PROVE  u <= currentTerm'[c]
  BY DEF VotesReached
<1>1. /\ currentTerm[c] \in Nat /\ currentTerm'[c] \in Nat /\ currentTerm[c] <= currentTerm'[c]
  BY GoodStepFacts
<1>2. CASE <<v, u, c>> \in cast
  BY <1>1, <1>2 DEF VotesReached
<1>3. CASE NewVote(v, u, c)
  BY <1>1, <1>3 DEF NewVote, Requests
<1> QED
  BY <1>2, <1>3, StepCasts DEF CastEffects, GoodStep, TypeInv

\* The votes of the candidates are honest after a step.
LEMMA StepBallots ==
    ASSUME GoodStep, NEW H, LogInv(H), NEW K, HistoryStep(H, K),
           NEW A, AckInv(H, A), NEW D, AckStep(A, D),
           Requests, VotesReached, Ballots(H, A)
    PROVE  Ballots(K, D)'
<1> SUFFICES ASSUME NEW c \in Server, NEW v \in Server, state'[c] = Candidate,
                    ~Elected(currentTerm[c])', <<v, currentTerm'[c], c>> \in cast'
             PROVE  BallotOK(ElectedTerms', K, D, v, log'[c], currentTerm'[c])
  BY DEF Ballots, Elected
<1>1. PICK u \in Nat : u = currentTerm'[c]
  BY GoodStepFacts
<1>2. ~Elected(u)
  <2>1. ~Elected(u)'
    BY <1>1 DEF Elected
  <2> QED
    BY <2>1, ElectedStays
<1>3. /\ TypeOK /\ VoteInv /\ currentTerm[c] \in Nat /\ currentTerm[v] \in Nat
      /\ currentTerm'[v] \in Nat /\ currentTerm[v] <= currentTerm'[v]
      /\ log[c] \in Seq(Entry)
  BY GoodStepFacts DEF GoodStep, TypeInv
<1>4. u <= currentTerm'[v]
  <2>1. CASE <<v, u, c>> \in cast
    <3>1. LastVote
      BY <1>3 DEF VoteInv
    <3>2. u <= currentTerm[v]
      BY <2>1, <3>1 DEF LastVote
    <3> QED
      BY <1>3, <3>2
  <2>2. CASE <<v, u, c>> \notin cast
    <3>1. VoteEffects
      BY <1>3, StepEffects DEF VoteInv, GoodStep
    <3> QED
      BY <1>1, <1>3, <2>2, <3>1 DEF VoteEffects
  <2> QED
    BY <2>1, <2>2
<1>5. <<v, u, c>> \in cast \/ NewVote(v, u, c)
  BY <1>1, <1>3, StepCasts DEF CastEffects, GoodStep
<1>6. log'[c] = log[c] /\ BallotOK(ElectedTerms, H, A, v, log[c], u)
  <2>1. CASE currentTerm[c] < u
    <3>1. v = c /\ u = currentTerm[c] + 1
      BY <1>3, <1>5, <2>1 DEF NewVote, Requests, VotesReached
    <3>2. BallotOK(ElectedTerms, H, A, v, log[c], u)
      BY <1>3, <3>1, OwnBallot
    <3>3. log'[c] = log[c]
      <4>1. ASSUME NEW m \in DOMAIN net, Accepts(m), m.to = c PROVE FALSE
        BY <4>1 DEF Accepts, Follower, Candidate
      <4>2. LogStep(c)
        BY GoodStepFacts DEF LogEffects
      <4> QED
        BY <4>1, <4>2 DEF LogStep, Candidate, Leader
    <3> QED
      BY <3>2, <3>3
  <2>2. CASE state[c] = Candidate /\ u = currentTerm[c] /\ log'[c] = log[c]
    <3>1. CASE <<v, u, c>> \in cast
      BY <1>2, <2>2, <3>1 DEF Ballots
    <3>2. CASE NewVote(v, u, c)
      <4>1. PICK m \in DOMAIN net : /\ IsRequest(m) /\ m.from = c /\ m.term = u
                                    /\ currentTerm[v] <= u
                                    /\ CandidateUpToDate(m, log[v])
        BY <1>3, <2>2, <3>2 DEF NewVote
      <4>2. m.lastLogIndex = Len(log[c]) /\ m.lastLogTerm = LastTerm(log[c])
        BY <2>2, <4>1 DEF Requests
      <4>3. \/ LastTerm(log[c]) > LastTerm(log[v])
            \/ LastTerm(log[c]) = LastTerm(log[v]) /\ Len(log[c]) >= Len(log[v])
        BY <4>1, <4>2 DEF CandidateUpToDate
      <4> QED
        BY <1>2, <1>3, <2>2, <4>1, <4>3, UpToDateBallot
    <3> QED
      BY <1>5, <3>1, <3>2
  <2> QED
    BY <1>1, <2>1, <2>2, CandidateWas
<1>7. BallotOK(ElectedTerms', K, D, v, log[c], u)
  BY <1>3, <1>4, <1>6, BallotStays
<1> QED
  BY <1>1, <1>6, <1>7

\* Every leader had the honest votes of a majority, after a step too.
LEMMA StepMandates ==
    ASSUME GoodStep, ElectionInv, NEW H, LogInv(H), NEW K, HistoryStep(H, K),
           NEW A, AckInv(H, A), NEW D, AckStep(A, D), Ballots(H, A), Mandates(H, A)
    PROVE  Mandates(K, D)'
<1> SUFFICES ASSUME NEW u \in Nat, Elected(u)'
             PROVE  \E Q \in SUBSET Server :
                        /\ Majority(Q)
                        /\ \A v \in Q : /\ u <= currentTerm'[v]
                                        /\ BallotOK(ElectedTerms', K, D, v, K[u], u)
  BY DEF Mandates, Elected
<1>1. /\ TypeOK /\ VoteInv /\ LeaderLogs(H) /\ H \in History /\ K \in History /\ D \in Acks
      /\ currentTerm \in [Server -> Nat] /\ currentTerm' \in [Server -> Nat]
      /\ log \in [Server -> Seq(Entry)] /\ \A v \in Server : currentTerm[v] <= currentTerm'[v]
  BY GoodStepFacts DEF GoodStep, TypeInv, LogInv, LeaderLogs, HistoryStep, AckStep
<1>2. H[u] \in Seq(Entry) /\ K[u] \in Seq(Entry) /\ Agree(H[u], K[u], Len(H[u]))
  BY <1>1, HistoryGrows
<1>3. ASSUME NEW v \in Server, NEW l \in Seq(Entry), u <= currentTerm[v],
             BallotOK(ElectedTerms, H, A, v, l, u)
      PROVE  u <= currentTerm'[v] /\ BallotOK(ElectedTerms', K, D, v, l, u)
  <2>1. u <= currentTerm'[v]
    BY <1>1, <1>3
  <2> QED
    BY <1>3, <2>1, BallotStays
<1>4. CASE Elected(u)
  <2>1. PICK Q \in SUBSET Server :
          /\ Majority(Q)
          /\ \A v \in Q : u <= currentTerm[v] /\ BallotOK(ElectedTerms, H, A, v, H[u], u)
    BY <1>4 DEF Mandates
  <2>2. ASSUME NEW v \in Q
        PROVE  u <= currentTerm'[v] /\ BallotOK(ElectedTerms', K, D, v, K[u], u)
    <3>1. u <= currentTerm'[v] /\ BallotOK(ElectedTerms', K, D, v, H[u], u)
      BY <1>2, <1>3, <2>1
    <3> QED
      BY <1>1, <1>2, <3>1, BallotExtends
  <2> QED
    BY <2>1, <2>2
<1>5. CASE ~Elected(u)
  <2>1. PICK i \in Server : u \in won'[i] /\ u \notin won[i]
    BY <1>5 DEF Elected
  <2>2. ElectionEffects
    BY <1>1, StepElection DEF GoodStep
  <2>3. /\ state[i] = Candidate /\ Majority(votes[i]) /\ u = currentTerm[i]
        /\ won'[i] = won[i] \cup {currentTerm[i]}
    BY <2>1, <2>2 DEF ElectionEffects
  <2>4. NowLeads(i, u)
    <3>1. LeaderStep(i)
      BY GoodStepFacts DEF LeaderEffects
    <3> QED
      BY <2>1, <2>3, <3>1 DEF LeaderStep, NowLeads
  <2>5. log'[i] = log[i]
    BY <1>5, <2>3, <2>4, LeaderWas DEF Leads, Candidate, Leader
  <2>6. K[u] = log[i]
    <3>1. PICK j \in Server : NowLeads(j, u) /\ K[u] = log'[j]
      BY <2>4 DEF HistoryStep
    <3>2. j = i
      BY <2>4, <3>1, LeaderUnique
    <3> QED
      BY <2>5, <3>1, <3>2
  <2>7. votes[i] \in SUBSET Server
    BY <1>1 DEF TypeOK
  <2>8. ASSUME NEW v \in votes[i]
        PROVE  u <= currentTerm'[v] /\ BallotOK(ElectedTerms', K, D, v, K[u], u)
    <3>1. v \in Server /\ log[i] \in Seq(Entry)
      BY <1>1, <2>7
    <3>2. <<v, u, i>> \in cast
      BY <2>3 DEF ElectionInv, VotesCast
    <3>3. u <= currentTerm[v]
      BY <1>1, <3>1, <3>2 DEF VoteInv, LastVote
    <3>4. BallotOK(ElectedTerms, H, A, v, log[i], u)
      BY <1>5, <2>3, <3>1, <3>2 DEF Ballots
    <3> QED
      BY <1>3, <2>6, <3>1, <3>3, <3>4
  <2> QED
    BY <2>3, <2>7, <2>8
<1> QED
  BY <1>4, <1>5

LEMMA StepBallotInv ==
    ASSUME GoodStep, ElectionInv, NEW H, LogInv(H), NEW K, HistoryStep(H, K),
           NEW A, AckInv(H, A), NEW D, AckStep(A, D), BallotInv(H, A)
    PROVE  BallotInv(K, D)'
<1>1. Requests /\ VotesReached /\ Ballots(H, A) /\ Mandates(H, A)
  BY DEF BallotInv
<1> QED
  BY <1>1, StepRequests, StepVotesReached, StepBallots, StepMandates DEF BallotInv

-----------------------------------------------------------------------------
(* Commits through a step *)

\* What a majority has reported stays reported, at the same entry.
LEMMA CommittedStill ==
    ASSUME GoodStep, NEW H, LogInv(H), NEW K, HistoryStep(H, K),
           NEW A, AckInv(H, A), NEW D, AckStep(A, D),
           NEW t \in Nat, NEW n \in Nat, Committed(H, A, t, n)
    PROVE  Committed(K, D, t, n)
<1>1. LeaderLogs(H) /\ H[t] \in Seq(Entry) /\ K[t] \in Seq(Entry)
      /\ Agree(H[t], K[t], Len(H[t])) /\ Len(H[t]) \in Nat /\ Len(K[t]) \in Nat
  BY HistoryGrows, LenProperties DEF LogInv
<1>2. n \in 1..Len(K[t]) /\ K[t][n].term = t
  BY <1>1 DEF Committed, Agree
<1>3. PICK Q \in SUBSET Server : Majority(Q) /\ \A v \in Q : n \in A[v][t]
  BY DEF Committed
<1>4. \A v \in Q : n \in D[v][t]
  BY <1>3 DEF AckStep
<1> QED
  BY <1>2, <1>3, <1>4 DEF Committed

\* So a log whose beginning is committed is still one, if it is the same or has
\* grown.
LEMMA CommitStill ==
    ASSUME GoodStep, NEW H, LogInv(H), NEW K, HistoryStep(H, K),
           NEW A, AckInv(H, A), NEW D, AckStep(A, D),
           NEW l \in Seq(Entry), NEW r \in Seq(Entry), NEW k \in Nat,
           k = 0 \/ Agree(r, l, k),
           NEW T \in Nat, NEW U \in Nat, T <= U, CommitOK(H, A, l, k, T)
    PROVE  CommitOK(K, D, r, k, U)
<1>1. CASE k = 0
  BY <1>1 DEF CommitOK
<1>2. ASSUME k # 0, NEW t \in Nat, NEW n \in Nat, t <= T, k <= n, Committed(H, A, t, n),
             Agree(l, H[t], k)
      PROVE  CommitOK(K, D, r, k, U)
  <2>1. Committed(K, D, t, n)
    BY <1>2, CommittedStill
  <2>2. /\ H[t] \in Seq(Entry) /\ K[t] \in Seq(Entry) /\ Agree(H[t], K[t], Len(H[t]))
        /\ Len(H[t]) \in Nat /\ k <= Len(H[t])
    BY <1>2, HistoryGrows, LenProperties DEF LogInv, Agree
  <2>3. Agree(H[t], K[t], k)
    BY <2>2, AgreeDown
  <2>4. Agree(r, K[t], k)
    BY <1>2, <2>3, AgreeTrans
  <2>5. t <= U
    BY <1>2
  <2> QED
    BY <1>2, <2>1, <2>4, <2>5 DEF CommitOK
<1> QED
  BY <1>1, <1>2 DEF CommitOK

\* Less than what is committed is committed.
LEMMA CommitDown ==
    ASSUME NEW H \in History, NEW A, NEW l \in Seq(Entry), NEW k \in Nat, NEW x \in Nat,
           NEW T \in Nat, x <= k, CommitOK(H, A, l, k, T)
    PROVE  CommitOK(H, A, l, x, T)
<1> SUFFICES ASSUME k # 0 PROVE CommitOK(H, A, l, x, T)
  BY DEF CommitOK
<1>1. PICK t \in Nat, n \in Nat : t <= T /\ k <= n /\ Committed(H, A, t, n) /\ Agree(l, H[t], k)
  BY DEF CommitOK
<1>2. H[t] \in Seq(Entry)
  BY DEF History
<1>3. Agree(l, H[t], x) /\ x <= n
  BY <1>1, <1>2, AgreeDown
<1> QED
  BY <1>1, <1>3 DEF CommitOK

\* No step takes a committed beginning from a log.
LEMMA CommittedKept ==
    ASSUME GoodStep, NEW H, LogInv(H), NEW A, AckInv(H, A), Mandates(H, A),
           NEW i \in Server, NEW k \in Nat, CommitOK(H, A, log[i], k, currentTerm[i])
    PROVE  k = 0 \/ Agree(log'[i], log[i], k)
<1> SUFFICES ASSUME k # 0 PROVE Agree(log'[i], log[i], k)
  OBVIOUS
<1>1. PICK t \in Nat, n \in Nat : /\ t <= currentTerm[i] /\ k <= n /\ Committed(H, A, t, n)
                                  /\ Agree(log[i], H[t], k)
  BY DEF CommitOK
<1>2. H \in History /\ A \in Acks
  BY DEF LogInv, LeaderLogs, AckInv
<1>3. CASE Agree(log'[i], H[t], k)
  BY <1>1, <1>3, AgreeSym, AgreeTrans
<1>4. ASSUME NEW s \in ElectedTerms, t < s, ~Agree(H[s], H[t], k) PROVE FALSE
  <2>1. s \in Nat /\ Elected(s) /\ H[s] \in Seq(Entry) /\ H[t] \in Seq(Entry)
    BY <1>2 DEF ElectedTerms, History
  <2>2. Agree(H[s], H[t], n)
    BY <1>1, <1>2, <1>4, <2>1, LaterLeadersHave
  <2> QED
    BY <1>1, <1>4, <2>1, <2>2, AgreeDown
<1> QED
  BY <1>1, <1>3, <1>4, AgreementKept

\* What the leader of t counts a majority for is committed, if what it counts
\* was reported.
LEMMA CountedIsCommitted ==
    ASSUME NEW H \in History, NEW A \in Acks, NEW t \in Nat, NEW i \in Server,
           NEW match \in [Server -> Nat],
           NEW n \in 1..Len(H[t]), H[t][n].term = t,
           Len(H[t]) \in A[i][t],
           \A j \in Server : match[j] = 0 \/ match[j] \in A[j][t],
           \A v \in Server : \A k \in A[v][t] : \A x \in Nat : x <= k => x \in A[v][t],
           Majority({i} \cup {j \in Server \ {i} : match[j] >= n})
    PROVE  Committed(H, A, t, n)
<1> DEFINE Q == {i} \cup {j \in Server \ {i} : match[j] >= n}
<1>1. n \in Nat /\ n >= 1 /\ n <= Len(H[t])
  BY LenProperties DEF History
<1>2. ASSUME NEW v \in Q PROVE n \in A[v][t]
  <2>1. CASE v = i
    BY <1>1, <2>1
  <2>2. CASE v # i
    <3>1. v \in Server /\ match[v] \in Nat /\ match[v] >= n
      BY <1>2, <2>2
    <3>2. match[v] \in A[v][t]
      BY <1>1, <3>1
    <3> QED
      BY <1>1, <3>1, <3>2
  <2> QED
    BY <2>1, <2>2
<1>3. Q \in SUBSET Server /\ Majority(Q)
  OBVIOUS
<1> HIDE DEF Q
<1> QED
  BY <1>2, <1>3 DEF Committed

\* Every peer's commitIndex stands for committed entries after a step.
LEMMA StepCommitIndex ==
    ASSUME GoodStep, NEW H, LogInv(H), NEW K, HistoryStep(H, K),
           NEW A, AckInv(H, A), NEW D, AckStep(A, D), Mandates(H, A), CommitInv(H, A),
           RuleFive, NEW i \in Server
    PROVE  /\ CommitOK(K, D, log'[i], commitIndex'[i], currentTerm'[i])
           /\ commitIndex[i] <= commitIndex'[i] \/ boot'[i] # boot[i]
<1>1. /\ TypeOK /\ TypeOK' /\ LeaderLogs(H) /\ log[i] \in Seq(Entry) /\ log'[i] \in Seq(Entry)
      /\ currentTerm[i] \in Nat /\ currentTerm'[i] \in Nat /\ currentTerm[i] <= currentTerm'[i]
      /\ commitIndex[i] \in Nat /\ commitIndex'[i] \in Nat
  BY GoodStepFacts DEF GoodStep, TypeInv, TypeOK, LogInv
<1>2. CASE commitIndex'[i] = commitIndex[i]
  <2>1. CommitOK(H, A, log[i], commitIndex[i], currentTerm[i])
    BY DEF CommitInv
  <2>2. commitIndex[i] = 0 \/ Agree(log'[i], log[i], commitIndex[i])
    BY <1>1, <2>1, CommittedKept
  <2>3. CommitOK(K, D, log'[i], commitIndex[i], currentTerm'[i])
    BY <1>1, <2>1, <2>2, CommitStill
  <2> QED
    BY <1>1, <1>2, <2>3
<1>3. CASE commitIndex'[i] = 0 /\ boot'[i] # boot[i]
  BY <1>3 DEF CommitOK
<1>4. ASSUME NEW m \in DOMAIN net, Accepts(m), m.to = i, commitIndex[i] < commitIndex'[i],
             commitIndex'[i] = Min2(m.leaderCommit, NewMatch(m))
      PROVE  CommitOK(K, D, log'[i], commitIndex'[i], currentTerm'[i])
  <2> DEFINE h == H[m.term]
  <2>1. /\ m \in AppendEntriesArgs /\ m.term \in Nat /\ h \in Seq(Entry) /\ NewMatch(m) \in Nat
        /\ currentTerm'[i] = m.term /\ Agree(log'[i], h, NewMatch(m))
    BY <1>4, AcceptFacts
  <2>2. CommitOK(H, A, h, m.leaderCommit, m.term)
    BY <1>4 DEF CommitInv, Accepts
  <2> HIDE DEF h
  <2>3. m.leaderCommit \in Nat
    BY <2>1 DEF AppendEntriesArgs
  <2>4. commitIndex'[i] <= NewMatch(m) /\ commitIndex'[i] <= m.leaderCommit
    BY <1>4, <2>1, <2>3 DEF Min2
  <2>5. Agree(log'[i], h, commitIndex'[i])
    BY <1>1, <2>1, <2>4, AgreeDown
  <2>6. CommitOK(H, A, h, commitIndex'[i], m.term)
    BY <1>1, <2>1, <2>2, <2>3, <2>4, CommitDown DEF LeaderLogs
  <2>7. CommitOK(K, D, log'[i], commitIndex'[i], m.term)
    BY <1>1, <2>1, <2>5, <2>6, CommitStill
  <2> QED
    BY <2>1, <2>7
<1>5. CASE /\ state[i] = Leader /\ state'[i] = Leader
           /\ currentTerm'[i] = currentTerm[i] /\ log'[i] = log[i]
           /\ commitIndex'[i] \in Committable(i, matchIndex'[i])
  <2>1. /\ commitIndex'[i] \in (commitIndex[i] + 1)..Len(log'[i])
        /\ log'[i][commitIndex'[i]].term = currentTerm'[i]
        /\ Majority({i} \cup {j \in Server \ {i} : matchIndex'[i][j] >= commitIndex'[i]})
    BY <1>5 DEF Committable
  <2>2. Len(log'[i]) \in Nat
    BY <1>1, LenProperties
  <2>3. commitIndex'[i] \in 1..Len(log'[i]) /\ commitIndex[i] <= commitIndex'[i]
    BY <1>1, <2>1, <2>2
  <2>4. LogInv(K)' /\ AckInv(K, D)'
    BY StepLogInv, StepAckInv
  <2>5. PICK t \in Nat, n \in Nat, match \in [Server -> Nat] :
          t = currentTerm'[i] /\ n = commitIndex'[i] /\ match = matchIndex'[i]
    BY <1>1 DEF TypeOK
  <2>6. K \in History /\ D \in Acks /\ K[t] = log'[i] /\ K[t] \in Seq(Entry)
    BY <1>1, <1>5, <2>4, <2>5 DEF LogInv, LeaderLogs, AckInv
  <2>7. /\ Len(K[t]) \in D[i][t]
        /\ \A j \in Server : match[j] = 0 \/ match[j] \in D[j][t]
        /\ \A v \in Server : \A k \in D[v][t] : \A x \in Nat : x <= k => x \in D[v][t]
    BY <1>5, <2>4, <2>5, <2>6 DEF AckInv, AcksKept, AcksCounted
  <2>8. /\ n \in 1..Len(K[t]) /\ K[t][n].term = t
        /\ Majority({i} \cup {j \in Server \ {i} : match[j] >= n})
    BY <2>1, <2>3, <2>5, <2>6
  <2>9. Committed(K, D, t, n)
    BY <2>6, <2>7, <2>8, CountedIsCommitted
  <2>10. Agree(log'[i], K[t], n)
    BY <2>2, <2>3, <2>5, <2>6, AgreeSelf
  <2> QED
    BY <2>3, <2>5, <2>9, <2>10 DEF CommitOK
<1>6. CommitStep(i)
  BY <1>1, StepCommits DEF CommitEffects, GoodStep
<1>7. ASSUME NEW m \in DOMAIN net, Accepts(m), m.to = i, commitIndex[i] < m.leaderCommit,
             commitIndex'[i] = Min2(m.leaderCommit, Len(log'[i]))
      PROVE  /\ CommitOK(K, D, log'[i], commitIndex'[i], currentTerm'[i])
             /\ commitIndex[i] <= commitIndex'[i]
  <2>1. /\ m.leaderCommit \in Nat /\ Len(log'[i]) \in Nat /\ state'[i] = Follower
    BY <1>1, <1>7, AcceptFacts, LenProperties DEF AppendEntriesArgs, Accepts
  <2>2. commitIndex[i] <= commitIndex'[i]
    <3>1. CommitOK(H, A, log[i], commitIndex[i], currentTerm[i])
      BY DEF CommitInv
    <3>2. commitIndex[i] = 0 \/ Agree(log'[i], log[i], commitIndex[i])
      BY <1>1, <3>1, CommittedKept
    <3> QED
      BY <1>1, <1>7, <2>1, <3>2 DEF Min2, Agree
  <2> QED
    BY <1>1, <1>2, <1>4, <2>1, <2>2 DEF RuleFive
<1> QED
  BY <1>2, <1>3, <1>5, <1>6, <1>7 DEF CommitStep

\* The commit index that a call carries stands for entries its leader had.
LEMMA StepLeaderCommit ==
    ASSUME GoodStep, NEW H, LogInv(H), NEW K, HistoryStep(H, K),
           NEW A, AckInv(H, A), NEW D, AckStep(A, D), CommitInv(H, A),
           NEW m \in DOMAIN net', IsAppend(m)
    PROVE  CommitOK(K, D, K[m.term], m.leaderCommit, m.term)
<1>1. m \in AppendEntriesArgs
  BY GoodStepFacts, MessageKinds DEF IsAppend
<1>2. m.term \in Nat /\ m.leaderCommit \in Nat /\ LeaderLogs(H)
  BY <1>1 DEF AppendEntriesArgs, LogInv
<1>3. /\ H[m.term] \in Seq(Entry) /\ K[m.term] \in Seq(Entry)
      /\ Agree(H[m.term], K[m.term], Len(H[m.term])) /\ Len(H[m.term]) \in Nat
  BY <1>2, HistoryGrows, LenProperties
<1>4. CommitOK(H, A, H[m.term], m.leaderCommit, m.term)
  <2>1. CASE m \in DOMAIN net
    BY <2>1 DEF CommitInv
  <2>2. CASE NewCall(m)
    <3>1. /\ m.from \in Server /\ state[m.from] = Leader /\ currentTerm[m.from] = m.term
          /\ m.leaderCommit = commitIndex[m.from]
      BY <2>2 DEF NewCall, Leads
    <3>2. H[m.term] = log[m.from]
      BY <1>2, <3>1 DEF LeaderLogs
    <3> QED
      BY <3>1, <3>2 DEF CommitInv
  <2> QED
    BY <2>1, <2>2, GoodStepFacts DEF SendEffects, NewAnswer, NewRequest, IsAppend, IsAnswer,
                                     IsRequest
<1>5. m.leaderCommit = 0 \/ Agree(K[m.term], H[m.term], m.leaderCommit)
  <2>1. m.leaderCommit <= Len(H[m.term])
    BY <1>3, <1>4 DEF CommitOK, Agree
  <2>2. Agree(H[m.term], K[m.term], m.leaderCommit)
    BY <1>2, <1>3, <2>1, AgreeDown
  <2> QED
    BY <2>2, AgreeSym
<1> QED
  BY <1>2, <1>3, <1>4, <1>5, CommitStill

LEMMA StepCommitInv ==
    ASSUME GoodStep, NEW H, LogInv(H), NEW K, HistoryStep(H, K),
           NEW A, AckInv(H, A), NEW D, AckStep(A, D), BallotInv(H, A), CommitInv(H, A), RuleFive
    PROVE  CommitInv(K, D)'
<1>1. Mandates(H, A)
  BY DEF BallotInv
<1>2. \A i \in Server : CommitOK(K, D, log'[i], commitIndex'[i], currentTerm'[i])
  BY <1>1, StepCommitIndex
<1>3. ASSUME NEW m \in DOMAIN net', IsAppend(m)
      PROVE  CommitOK(K, D, K[m.term], m.leaderCommit, m.term)
  BY <1>3, StepLeaderCommit
<1> QED
  BY <1>2, <1>3 DEF CommitInv, IsAppend

-----------------------------------------------------------------------------
(* The invariant *)

Explained(H, A) == LogInv(H) /\ AckInv(H, A) /\ BallotInv(H, A) /\ CommitInv(H, A)

HasCommits == \E H, A : Explained(H, A)

\* Where nobody has voted twice there are histories that explain the votes and
\* the commits too.
CommitHistory == NoRevote => HasCommits

\* Nothing has happened yet.
LEMMA InitCommits ==
    ASSUME Init
    PROVE  Explained([t \in Nat |-> <<>>], [v \in Server |-> [t \in Nat |-> {}]])
<1> DEFINE H == [t \in Nat |-> <<>>]
           A == [v \in Server |-> [t \in Nat |-> {}]]
<1>1. LogInv(H) /\ AckInv(H, A)
  BY InitHistory
<1>2. /\ \A i \in Server : /\ log[i] = <<>> /\ state[i] = Follower
                           /\ commitIndex[i] = 0 /\ won[i] = {}
      /\ DOMAIN net = {} /\ cast = {}
  BY DEF Init, EmptyBag, SetToBag
<1>3. \A t \in Nat : H[t] = <<>>
  OBVIOUS
<1> HIDE DEF H, A
<1>4. BallotInv(H, A)
  BY <1>2 DEF BallotInv, Requests, VotesReached, Ballots, Mandates, Elected
<1>5. CommitInv(H, A)
  BY <1>2 DEF CommitInv, CommitOK
<1> QED
  BY <1>1, <1>4, <1>5 DEF Explained, H, A

\* A step that raises no commit index keeps rule 5.
LEMMA StutterKeepsRule ==
    ASSUME TypeInv, NoRevote', [NoRevote' => RuleFive]_vars
    PROVE  RuleFive
<1>1. CASE UNCHANGED vars
  BY <1>1 DEF vars, volatile, RuleFive, TypeInv, TypeOK
<1> QED
  BY <1>1

\* A step that keeps rule 5 leaves histories that explain what it did.
LEMMA StepExplained ==
    ASSUME GoodStep, ElectionInv, RuleFive, NEW H, NEW A, Explained(H, A)
    PROVE  \E K, D : HistoryStep(H, K) /\ AckStep(A, D) /\ Explained(K, D)'
<1>1. /\ LogInv(H) /\ AckInv(H, A) /\ BallotInv(H, A) /\ CommitInv(H, A)
      /\ H \in History /\ A \in Acks
  BY DEF Explained, LogInv, LeaderLogs, AckInv
<1>2. PICK K : HistoryStep(H, K)
  BY <1>1, HistoryExists
<1>3. PICK D : AckStep(A, D)
  BY <1>1, AcksExist
<1>4. LogInv(K)' /\ AckInv(K, D)'
  BY <1>1, <1>2, <1>3, StepLogInv, StepAckInv
<1>5. BallotInv(K, D)'
  BY <1>1, <1>2, <1>3, StepBallotInv
<1>6. CommitInv(K, D)'
  BY <1>1, <1>2, <1>3, StepCommitInv
<1>7. Explained(K, D)'
  BY <1>4, <1>5, <1>6 DEF Explained
<1> QED
  BY <1>2, <1>3, <1>7

\* The inductive invariant behind the theorems below: any number of crashes,
\* elections and late calls leaves histories that explain every vote and every
\* commit index.
THEOREM RaftCommitHistory == Spec /\ KeepsRuleFive => []CommitHistory
<1>1. Init => CommitHistory
  BY InitCommits DEF CommitHistory, HasCommits
<1>2. (/\ TypeInv /\ TypeInv' /\ VoteInv /\ LeaderInv /\ LeaderInv'
       /\ ElectionSafety /\ ElectionSafety' /\ ElectionInv /\ CommitHistory /\ [Next]_vars
       /\ [NoRevote' => RuleFive]_vars)
        => CommitHistory'
  <2> SUFFICES ASSUME TypeInv, TypeInv', VoteInv, LeaderInv, LeaderInv', ElectionSafety,
                      ElectionSafety', ElectionInv, CommitHistory, [Next]_vars,
                      [NoRevote' => RuleFive]_vars
               PROVE  CommitHistory'
    OBVIOUS
  <2>1. ASSUME NoRevote'
        PROVE  HasCommits'
    <3>1. NoRevote /\ GoodStep /\ RuleFive
      BY <2>1, NoRevoteStep, StutterKeepsRule
    <3>2. PICK H, A : Explained(H, A)
      BY <3>1 DEF CommitHistory, HasCommits
    <3>3. PICK K, D : Explained(K, D)'
      BY <3>1, <3>2, StepExplained
    <3> QED
      BY <3>3 DEF HasCommits, Explained, LogInv, LeaderLogs, AckInv, AcksKept, AcksCounted,
                  AcksSent, BallotInv, Requests, VotesReached, Ballots, Mandates,
                  CommitInv, Elected, ElectedTerms
  <2> QED
    BY <2>1 DEF CommitHistory
<1> QED
  BY <1>1, <1>2, RaftTypeInv, RaftVoteInv, RaftLeaderInv, RaftElectionSafety, RaftElectionInv,
     PTL DEF Spec, KeepsRuleFive

-----------------------------------------------------------------------------
(* What follows from it *)

\* Two commits are of one log: up to the shorter of them the logs of their
\* terms agree.
LEMMA CommitsAgree ==
    ASSUME NEW H, LeaderLogs(H), NEW A \in Acks, Mandates(H, A),
           NEW t \in Nat, NEW n \in Nat, Committed(H, A, t, n),
           NEW s \in Nat, NEW k \in Nat, Committed(H, A, s, k), t <= s
    PROVE  Agree(H[s], H[t], n)
<1>1. H \in History /\ H[t] \in Seq(Entry) /\ H[s] \in Seq(Entry) /\ Len(H[s]) \in Nat
  BY LenProperties DEF LeaderLogs, History
<1>2. n <= Len(H[t])
  BY <1>1, LenProperties DEF Committed
<1>3. CASE t = s
  BY <1>1, <1>2, <1>3, AgreeSelf
<1>4. CASE t < s
  <2>1. Len(H[s]) # 0
    BY <1>1 DEF Committed
  <2>2. Elected(s)
    BY <2>1 DEF LeaderLogs
  <2> QED
    BY <1>1, <1>4, <2>2, LaterLeadersHave
<1> QED
  BY <1>3, <1>4

\* Leader completeness among any number of peers, as long as no peer votes
\* twice in a term and followers keep rule 5 as its comment has it: a leader has
\* every entry that a peer of its own or an earlier term takes for committed,
\* whatever elections there were in between.
THEOREM RaftLeaderCompleteness ==
    Spec /\ KeepsRuleFive => []LeaderCompleteness
<1>1. TypeOK /\ LeaderInv /\ CommitHistory => LeaderCompleteness
  <2> SUFFICES ASSUME TypeOK, LeaderInv, CommitHistory, NoRevote,
                      NEW i \in Server, NEW j \in Server,
                      state[j] = Leader, currentTerm[i] <= currentTerm[j]
               PROVE  /\ commitIndex[i] <= Len(log[j])
                      /\ Prefix(log[j], commitIndex[i]) = Prefix(log[i], commitIndex[i])
    BY DEF LeaderCompleteness
  <2>1. PICK H, A : Explained(H, A)
    BY DEF CommitHistory, HasCommits
  <2>2. /\ LeaderLogs(H) /\ H \in History /\ A \in Acks /\ Mandates(H, A)
        /\ CommitOK(H, A, log[i], commitIndex[i], currentTerm[i])
        /\ H[currentTerm[j]] = log[j]
    BY <2>1 DEF Explained, LogInv, LeaderLogs, AckInv, BallotInv, CommitInv
  <2>3. /\ log[i] \in Seq(Entry) /\ log[j] \in Seq(Entry) /\ commitIndex[i] \in Nat
        /\ currentTerm[i] \in Nat /\ currentTerm[j] \in Nat /\ Len(log[j]) \in Nat
    BY TypeFacts, LenProperties DEF TypeOK
  <2>4. Agree(log[j], log[i], commitIndex[i])
    <3>1. CASE commitIndex[i] = 0
      BY <2>3, <3>1, AgreeZero
    <3>2. CASE commitIndex[i] # 0
      <4>1. PICK t \in Nat, n \in Nat :
              /\ t <= currentTerm[i] /\ commitIndex[i] <= n /\ Committed(H, A, t, n)
              /\ Agree(log[i], H[t], commitIndex[i])
        BY <2>2, <3>2 DEF CommitOK
      <4>2. CASE t = currentTerm[j]
        BY <2>2, <4>1, <4>2, AgreeSym
      <4>3. CASE t < currentTerm[j]
        <5>1. Elected(currentTerm[j])
          BY DEF LeaderInv, TermsWon, Elected
        <5>2. Agree(log[j], H[t], n)
          BY <2>2, <2>3, <4>1, <4>3, <5>1, LaterLeadersHave
        <5>3. Agree(log[j], H[t], commitIndex[i])
          BY <2>2, <2>3, <4>1, <5>2, AgreeDown DEF History
        <5> QED
          BY <4>1, <5>3, AgreeSym, AgreeTrans
      <4> QED
        BY <2>3, <4>1, <4>2, <4>3
    <3> QED
      BY <3>1, <3>2
  <2> QED
    BY <2>3, <2>4, AgreePrefix DEF Agree
<1> QED
  BY <1>1, RaftTypeCorrect, RaftLeaderInv, RaftCommitHistory, PTL

\* State machine safety among any number of peers, as long as no peer votes
\* twice in a term and followers keep rule 5 as its comment has it: no two peers
\* ever take different entries for committed at one index.
THEOREM RaftStateMachineSafety ==
    Spec /\ KeepsRuleFive => []StateMachineSafety
<1>1. TypeOK /\ CommitHistory => StateMachineSafety
  <2> SUFFICES ASSUME TypeOK, CommitHistory, NoRevote, NEW i \in Server, NEW j \in Server,
                      NEW x \in 1..Min2(commitIndex[i], commitIndex[j])
               PROVE  log[i][x] = log[j][x]
    BY DEF StateMachineSafety
  <2>1. PICK H, A : Explained(H, A)
    BY DEF CommitHistory, HasCommits
  <2>2. /\ LeaderLogs(H) /\ A \in Acks /\ Mandates(H, A)
        /\ \A v \in Server : CommitOK(H, A, log[v], commitIndex[v], currentTerm[v])
    BY <2>1 DEF Explained, LogInv, AckInv, BallotInv, CommitInv
  <2>3. commitIndex[i] \in Nat /\ commitIndex[j] \in Nat
    BY DEF TypeOK
  <2>4. x \in 1..commitIndex[i] /\ x \in 1..commitIndex[j]
    BY <2>3 DEF Min2
  <2>5. ASSUME NEW v \in {i, j}
        PROVE  \E t, n \in Nat : Committed(H, A, t, n) /\ log[v][x] = H[t][x] /\ x \in 1..n
    <3>1. x \in 1..commitIndex[v] /\ commitIndex[v] \in Nat /\ commitIndex[v] # 0
      BY <2>3, <2>4
    <3>2. PICK t \in Nat, n \in Nat : /\ commitIndex[v] <= n /\ Committed(H, A, t, n)
                                      /\ Agree(log[v], H[t], commitIndex[v])
      BY <2>2, <3>1 DEF CommitOK
    <3>3. log[v][x] = H[t][x] /\ x \in 1..n
      BY <3>1, <3>2 DEF Agree
    <3> QED
      BY <3>2, <3>3
  <2>6. PICK t, n \in Nat : Committed(H, A, t, n) /\ log[i][x] = H[t][x] /\ x \in 1..n
    BY <2>5
  <2>7. PICK s, k \in Nat : Committed(H, A, s, k) /\ log[j][x] = H[s][x] /\ x \in 1..k
    BY <2>5
  <2>8. CASE t <= s
    <3>1. Agree(H[s], H[t], n)
      BY <2>2, <2>6, <2>7, <2>8, CommitsAgree
    <3> QED
      BY <2>6, <2>7, <3>1 DEF Agree
  <2>9. CASE s <= t
    <3>1. Agree(H[t], H[s], k)
      BY <2>2, <2>6, <2>7, <2>9, CommitsAgree
    <3> QED
      BY <2>6, <2>7, <3>1 DEF Agree
  <2> QED
    BY <2>8, <2>9
<1> QED
  BY <1>1, RaftTypeCorrect, RaftCommitHistory, PTL

\* No running peer takes back what it committed, in any step, among any number
\* of peers, as long as no peer votes twice in a term and followers keep rule 5
\* as its comment has it: what the service above was handed by
\* applyCommittedEntries stays in the log.
THEOREM RaftCommittedStays ==
    Spec /\ KeepsRuleFive => CommittedStays
<1>1. (/\ TypeInv /\ TypeInv' /\ VoteInv /\ LeaderInv /\ LeaderInv'
       /\ ElectionSafety /\ ElectionSafety' /\ CommitHistory /\ [Next]_vars
       /\ [NoRevote' => RuleFive]_vars)
        => [NoRevote' => \A i \in Server :
               boot'[i] = boot[i] =>
                   /\ commitIndex[i] <= commitIndex'[i]
                   /\ commitIndex'[i] <= Len(log'[i])
                   /\ Prefix(log'[i], commitIndex[i]) = Prefix(log[i], commitIndex[i])]_vars
  <2> SUFFICES ASSUME TypeInv, TypeInv', VoteInv, LeaderInv, LeaderInv', ElectionSafety,
                      ElectionSafety', CommitHistory, [Next]_vars,
                      [NoRevote' => RuleFive]_vars, NoRevote', NEW i \in Server, boot'[i] = boot[i]
               PROVE  /\ commitIndex[i] <= commitIndex'[i]
                      /\ commitIndex'[i] <= Len(log'[i])
                      /\ Prefix(log'[i], commitIndex[i]) = Prefix(log[i], commitIndex[i])
    OBVIOUS
  <2>1. NoRevote /\ GoodStep /\ RuleFive
    BY NoRevoteStep, StutterKeepsRule
  <2>2. PICK H, A : Explained(H, A)
    BY <2>1 DEF CommitHistory, HasCommits
  <2>3. /\ LogInv(H) /\ AckInv(H, A) /\ Mandates(H, A) /\ CommitInv(H, A)
        /\ H \in History /\ A \in Acks
        /\ CommitOK(H, A, log[i], commitIndex[i], currentTerm[i])
    BY <2>2 DEF Explained, LogInv, LeaderLogs, AckInv, BallotInv, CommitInv
  <2>4. PICK K : HistoryStep(H, K)
    BY <2>1, <2>3, HistoryExists
  <2>5. PICK D : AckStep(A, D)
    BY <2>3, AcksExist
  <2>6. /\ log[i] \in Seq(Entry) /\ log'[i] \in Seq(Entry) /\ Len(log'[i]) \in Nat
        /\ commitIndex[i] \in Nat /\ commitIndex'[i] \in Nat
    BY <2>1, GoodStepFacts, LenProperties DEF TypeInv, TypeOK
  <2>7. /\ CommitOK(K, D, log'[i], commitIndex'[i], currentTerm'[i])
        /\ commitIndex[i] <= commitIndex'[i]
    BY <2>1, <2>3, <2>4, <2>5, StepCommitIndex
  <2>8. commitIndex'[i] <= Len(log'[i])
    BY <2>6, <2>7 DEF CommitOK, Agree
  <2>9. Agree(log'[i], log[i], commitIndex[i])
    BY <2>1, <2>3, <2>6, CommittedKept, AgreeZero
  <2>10. Prefix(log'[i], commitIndex[i]) = Prefix(log[i], commitIndex[i])
    BY <2>6, <2>9, AgreePrefix
  <2> QED
    BY <2>7, <2>8, <2>10
<1> QED
  BY <1>1, RaftTypeInv, RaftVoteInv, RaftLeaderInv, RaftElectionSafety, RaftCommitHistory,
     PTL DEF Spec, KeepsRuleFive, CommittedStays

-----------------------------------------------------------------------------
(* Logs that one call can hold *)

\* Start refuses to grow a log beyond MaxLog, and followers only copy.
LEMMA StepLogsBounded ==
    ASSUME GoodStep, NEW H, LogInv(H), LogsBounded(H), NEW K, HistoryStep(H, K)
    PROVE  LogsBounded(K)'
<1>1. ASSUME NEW i \in Server PROVE Len(log'[i]) <= MaxLog
  <2>1. /\ log[i] \in Seq(Entry) /\ Len(log[i]) \in Nat /\ Len(log[i]) <= MaxLog
        /\ currentTerm[i] \in Nat /\ MaxLog \in Nat
    BY GoodStepFacts, LenProperties, BoundAssumption DEF LogsBounded
  <2>2. CASE log'[i] = log[i]
    BY <2>1, <2>2
  <2>3. ASSUME NEW c \in Command, Len(log[i]) < MaxLog,
               log'[i] = Append(log[i], [term |-> currentTerm[i], cmd |-> c])
        PROVE  Len(log'[i]) <= MaxLog
    <3>1. [term |-> currentTerm[i], cmd |-> c] \in Entry
      BY <2>1 DEF Entry
    <3>2. Len(log'[i]) = Len(log[i]) + 1
      BY <2>1, <2>3, <3>1, AppendProperties
    <3> QED
      BY <2>1, <2>3, <3>2
  <2>4. ASSUME NEW m \in DOMAIN net, Accepts(m), m.to = i PROVE Len(log'[i]) <= MaxLog
    <3>1. /\ m.term \in Nat /\ NewMatch(m) \in Nat /\ NewMatch(m) <= Len(H[m.term])
          /\ H[m.term] \in Seq(Entry)
          /\ log'[i] = log[i] \/ Len(log'[i]) = NewMatch(m)
      BY <2>4, AcceptFacts
    <3>2. Len(H[m.term]) \in Nat /\ Len(H[m.term]) <= MaxLog
      BY <3>1, LenProperties DEF LogsBounded
    <3> QED
      BY <2>1, <3>1, <3>2
  <2>5. LogStep(i)
    BY GoodStepFacts DEF LogEffects
  <2> QED
    BY <2>2, <2>3, <2>4, <2>5 DEF LogStep
<1>2. \A t \in Nat : Len(K[t]) <= MaxLog
  BY <1>1 DEF HistoryStep, LogsBounded
<1> QED
  BY <1>1, <1>2 DEF LogsBounded

\* A call that reaches its commit index leaves no choice to rule 5.
LEMMA ReachingCallsKeepRule ==
    ASSUME GoodStep, NEW H, LogInv(H), CallsReach
    PROVE  RuleFive
<1> SUFFICES ASSUME NEW i \in Server, commitIndex[i] < commitIndex'[i], state'[i] = Follower
             PROVE  \E m \in DOMAIN net : /\ Accepts(m) /\ m.to = i
                                          /\ commitIndex'[i] = Min2(m.leaderCommit, NewMatch(m))
  BY DEF RuleFive
<1>1. commitIndex[i] \in Nat /\ commitIndex'[i] \in Nat /\ log'[i] \in Seq(Entry)
  BY GoodStepFacts DEF GoodStep, TypeInv, TypeOK
<1>2. CommitStep(i)
  BY StepCommits DEF CommitEffects, GoodStep, TypeInv
<1>3. PICK m \in DOMAIN net : /\ Accepts(m) /\ m.to = i
                              /\ commitIndex'[i] = Min2(m.leaderCommit, Len(log'[i]))
  BY <1>1, <1>2 DEF CommitStep, Follower, Leader
<1>4. /\ m.leaderCommit \in Nat /\ NewMatch(m) \in Nat /\ Len(log'[i]) \in Nat
      /\ Agree(log'[i], H[m.term], NewMatch(m))
  BY <1>1, <1>3, AcceptFacts, LenProperties DEF AppendEntriesArgs
<1>5. m.leaderCommit <= NewMatch(m)
  BY <1>3 DEF CallsReach, Accepts
<1> QED
  BY <1>3, <1>4, <1>5 DEF Min2, Agree

\* A leader sends all the follower lacks, so that its calls reach as far as its
\* commit index.
LEMMA StepCallsReach ==
    ASSUME MaxLog <= MaxEntries, GoodStep, NEW H, LogInv(H), LogsBounded(H),
           NEW A, CommitInv(H, A), CallsReach
    PROVE  CallsReach'
<1> SUFFICES ASSUME NEW m \in DOMAIN net', IsAppend(m)
             PROVE  m.leaderCommit <= NewMatch(m)
  BY DEF CallsReach, IsAppend, NewMatch
<1>1. CASE m \in DOMAIN net
  BY <1>1 DEF CallsReach
<1>2. CASE NewCall(m)
  <2>1. /\ m.from \in Server /\ state[m.from] = Leader
        /\ m.leaderCommit = commitIndex[m.from] /\ NewMatch(m) = Len(log[m.from])
    BY <1>2 DEF NewCall, Leads, LogsBounded
  <2>2. CommitOK(H, A, log[m.from], commitIndex[m.from], currentTerm[m.from])
    BY <2>1 DEF CommitInv
  <2>3. log[m.from] \in Seq(Entry) /\ Len(log[m.from]) \in Nat
    BY <2>1, GoodStepFacts, LenProperties
  <2> QED
    BY <2>1, <2>2, <2>3 DEF CommitOK, Agree
<1> QED
  BY <1>1, <1>2, GoodStepFacts DEF SendEffects, NewAnswer, NewRequest, IsAppend, IsAnswer,
                                   IsRequest

\* While logs are no longer than MaxLog there are histories with calls that reach
\* their commit index.
HasShortCommits == \E H, A : Explained(H, A) /\ LogsBounded(H) /\ CallsReach
ShortHistory == NoRevote => HasShortCommits

\* The code keeps rule 5 as its comment has it as long as one AppendEntries
\* call (100 entries) can hold the whole log, as long as no peer votes twice.
THEOREM RaftShortLogs ==
    ASSUME MaxLog <= MaxEntries
    PROVE  Spec => KeepsRuleFive
<1>1. Init => ShortHistory
  <2> SUFFICES ASSUME Init PROVE HasShortCommits
    BY DEF ShortHistory
  <2> DEFINE H == [t \in Nat |-> <<>>]
             A == [v \in Server |-> [t \in Nat |-> {}]]
  <2>1. Explained(H, A)
    BY InitCommits
  <2>2. LogsBounded(H) /\ CallsReach
    BY BoundAssumption DEF Init, EmptyBag, SetToBag, LogsBounded, CallsReach
  <2> QED
    BY <2>1, <2>2 DEF HasShortCommits
<1>2. ASSUME TypeInv, TypeInv', VoteInv, LeaderInv, LeaderInv', ElectionSafety,
             ElectionSafety', ElectionInv, ShortHistory, [Next]_vars, NoRevote'
      PROVE  RuleFive /\ HasShortCommits'
  <2>1. NoRevote /\ GoodStep
    BY <1>2, NoRevoteStep
  <2>2. PICK H, A : Explained(H, A) /\ LogsBounded(H) /\ CallsReach
    BY <1>2, <2>1 DEF ShortHistory, HasShortCommits
  <2>3. LogInv(H) /\ CommitInv(H, A)
    BY <2>2 DEF Explained
  <2>4. RuleFive
    BY <2>1, <2>2, <2>3, ReachingCallsKeepRule
  <2>5. PICK K, D : HistoryStep(H, K) /\ Explained(K, D)'
    BY <1>2, <2>1, <2>2, <2>4, StepExplained
  <2>6. LogsBounded(K)' /\ CallsReach'
    BY <2>1, <2>2, <2>3, <2>5, StepLogsBounded, StepCallsReach
  <2> QED
    BY <2>4, <2>5, <2>6 DEF HasShortCommits, CallsReach, Explained, LogInv, LeaderLogs, AckInv,
         AcksKept, AcksCounted, AcksSent, BallotInv, Requests, VotesReached, Ballots, Mandates,
         LogsBounded, CommitInv, Elected, ElectedTerms
<1>3. (/\ TypeInv /\ TypeInv' /\ VoteInv /\ LeaderInv /\ LeaderInv'
       /\ ElectionSafety /\ ElectionSafety' /\ ElectionInv /\ ShortHistory /\ [Next]_vars)
        => ShortHistory' /\ [NoRevote' => RuleFive]_vars
  BY <1>2 DEF ShortHistory
<1> QED
  BY <1>1, <1>3, RaftTypeInv, RaftVoteInv, RaftLeaderInv, RaftElectionSafety, RaftElectionInv,
     PTL DEF Spec, KeepsRuleFive

\* So with logs that one call can hold nothing is asked of followers: what is
\* committed is the same everywhere and stays, as long as no peer votes twice.
THEOREM RaftShortLogsSafe ==
    ASSUME MaxLog <= MaxEntries
    PROVE  Spec => []StateMachineSafety /\ []LeaderCompleteness /\ CommittedStays
BY RaftShortLogs, RaftStateMachineSafety, RaftLeaderCompleteness, RaftCommittedStays, PTL

-----------------------------------------------------------------------------
(* One log for ever: with the record of what was ever committed *)

\* A step moves the commit index of one peer at most, and a restart takes it
\* back to nothing.
LEMMA OnePeerCommits ==
    ASSUME TypeOK, Next
    PROVE  \E p \in Server : /\ \A q \in Server : q # p => commitIndex'[q] = commitIndex[q]
                             /\ boot'[p] # boot[p] => commitIndex'[p] = 0
<1> DEFINE One == \E p \in Server : /\ \A q \in Server : q # p => commitIndex'[q] = commitIndex[q]
                                    /\ boot'[p] # boot[p] => commitIndex'[p] = 0
<1>0. /\ NetOK(net) /\ commitIndex \in [Server -> Nat] /\ boot \in [Server -> Nat]
  BY TypeFacts DEF TypeOK
<1>1. ASSUME NEW p \in Server, commitIndex' = commitIndex, boot' = boot PROVE One
  BY <1>1
<1>2. ASSUME NEW i \in Server, ElectionTimeout(i) \/ StaleTimeout(i) PROVE One
  BY <1>1, <1>2 DEF ElectionTimeout, StaleTimeout
<1>3. ASSUME NEW i \in Server, TickerPause(i) \/ StaleRest(i) \/ WinElection(i) PROVE One
  BY <1>1, <1>3 DEF TickerPause, StaleRest, WinElection, volatile
<1>4. ASSUME NEW i \in Server, NEW disk, Reboot(i, disk) PROVE One
  BY <1>0, <1>4 DEF Reboot
<1>5. ASSUME NEW i \in Server, Restart(i) PROVE One
  BY <1>4, <1>5 DEF Restart
<1>6. ASSUME NEW i \in Server, NEW c \in Command, Start(i, c) PROVE One
  BY <1>1, <1>6 DEF Start
<1>7. ASSUME NEW i \in Server, NEW j \in Server,
             Heartbeat(i, j) \/ SendEntries(i, j) \/ ReplicatorDone(i, j)
      PROVE  One
  BY <1>1, <1>7 DEF Heartbeat, SendEntries, ReplicatorDone, volatile
<1>8. ASSUME NEW m \in DOMAIN net,
             \/ RejectStaleVote(m) \/ RequestVote(m) \/ VoteReply(m) \/ RejectStaleAppend(m)
             \/ HeartbeatReplied(m)
      PROVE  One
  <2>1. commitIndex' = commitIndex /\ boot' = boot
    BY <1>8 DEF RejectStaleVote, RequestVote, VoteReply, RejectStaleAppend, HeartbeatReplied,
                volatile
  <2>2. m.to \in Server
    BY <1>0 DEF NetOK, Message, RequestVoteArgs, AppendEntriesArgs, RequestVoteReply,
                AppendEntriesReply, HeartbeatReply
  <2> QED
    BY <1>1, <2>1, <2>2
<1>9. ASSUME NEW m \in DOMAIN net, AppendEntries(m) \/ AppendReply(m) PROVE One
  <2>1. m.to \in Server
    BY <1>0 DEF NetOK, Message, RequestVoteArgs, AppendEntriesArgs, RequestVoteReply,
                AppendEntriesReply, HeartbeatReply
  <2>2. boot' = boot /\ \A q \in Server : q # m.to => commitIndex'[q] = commitIndex[q]
    BY <1>0, <1>9 DEF AppendEntries, AppendReply
  <2> QED
    BY <2>1, <2>2
<1>10. ASSUME NEW m \in DOMAIN net, CrashInHandler(m) PROVE One
  <2>1. m.to \in Server
    BY <1>0 DEF NetOK, Message, RequestVoteArgs, AppendEntriesArgs, RequestVoteReply,
                AppendEntriesReply, HeartbeatReply
  <2> QED
    BY <1>4, <1>10, <2>1 DEF CrashInHandler
<1> QED
  BY <1>2, <1>3, <1>5, <1>6, <1>7, <1>8, <1>9, <1>10 DEF Next

\* Any two committed beginnings agree up to the end of the shorter one.
LEMMA BeginningsAgree ==
    ASSUME NEW H, LeaderLogs(H), NEW A \in Acks, Mandates(H, A),
           NEW l \in Seq(Entry), NEW k \in Nat, NEW T \in Nat, CommitOK(H, A, l, k, T),
           NEW r \in Seq(Entry), NEW x \in Nat, NEW U \in Nat, CommitOK(H, A, r, x, U),
           x <= k
    PROVE  Agree(l, r, x)
<1> SUFFICES ASSUME x # 0 PROVE Agree(l, r, x)
  BY AgreeZero
<1>1. PICK t \in Nat, n \in Nat : k <= n /\ Committed(H, A, t, n) /\ Agree(l, H[t], k)
  BY DEF CommitOK
<1>2. PICK s \in Nat, y \in Nat : x <= y /\ Committed(H, A, s, y) /\ Agree(r, H[s], x)
  BY DEF CommitOK
<1>3. H[t] \in Seq(Entry) /\ H[s] \in Seq(Entry)
  BY DEF LeaderLogs, History
<1>4. Agree(l, H[t], x)
  BY <1>1, <1>3, AgreeDown
<1>5. Agree(H[t], H[s], x)
  <2>1. CASE t <= s
    <3>1. Agree(H[s], H[t], n)
      BY <1>1, <1>2, <2>1, CommitsAgree
    <3>2. Agree(H[s], H[t], x)
      BY <1>1, <1>3, <3>1, AgreeDown
    <3> QED
      BY <3>2, AgreeSym
  <2>2. CASE s <= t
    <3>1. Agree(H[t], H[s], y)
      BY <1>1, <1>2, <2>2, CommitsAgree
    <3> QED
      BY <1>2, <1>3, <3>1, AgreeDown
  <2> QED
    BY <2>1, <2>2
<1> QED
  BY <1>2, <1>4, <1>5, AgreeSym, AgreeTrans

\* The first n entries of a log.
LEMMA PrefixFacts ==
    ASSUME NEW l \in Seq(Entry), NEW n \in Nat, n <= Len(l)
    PROVE  /\ Prefix(l, n) \in Seq(Entry) /\ Len(Prefix(l, n)) = n
           /\ Agree(Prefix(l, n), l, n)
<1>1. Len(l) \in Nat
  BY LenProperties
<1>2. /\ SubSeq(l, 1, n) \in Seq(Entry) /\ Len(SubSeq(l, 1, n)) = n
      /\ \A k \in 1..n : SubSeq(l, 1, n)[k] = l[k]
  BY <1>1, SubSeqProperties
<1> QED
  BY <1>1, <1>2 DEF Prefix, Agree

\* What is committed of a log is committed by itself.
LEMMA CommitOfPrefix ==
    ASSUME NEW H \in History, NEW A, NEW l \in Seq(Entry), NEW n \in Nat, NEW T \in Nat,
           CommitOK(H, A, l, n, T)
    PROVE  /\ n <= Len(l) /\ Len(Prefix(l, n)) = n /\ Prefix(l, n) \in Seq(Entry)
           /\ CommitOK(H, A, Prefix(l, n), n, T)
<1>1. n <= Len(l)
  BY LenProperties DEF CommitOK, Agree
<1>2. Prefix(l, n) \in Seq(Entry) /\ Len(Prefix(l, n)) = n /\ Agree(Prefix(l, n), l, n)
  BY <1>1, PrefixFacts
<1> QED
  BY <1>1, <1>2, AgreeTrans DEF CommitOK

\* The record is committed, in histories that explain everything else too, and
\* nobody takes more for committed.
Explains(H, A) == Explained(H, A) /\ \E T \in Nat : CommitOK(H, A, clog, Len(clog), T)
HasRecord == \E H, A : Explains(H, A)
RecordInv ==
    /\ NoRevote /\ clog \in Seq(Entry) /\ \A i \in Server : commitIndex[i] <= Len(clog)
    /\ HasRecord

LEMMA InitRecord ==
    ASSUME Init, clog = <<>>
    PROVE  RecordInv
<1> DEFINE H == [t \in Nat |-> <<>>]
           A == [v \in Server |-> [t \in Nat |-> {}]]
<1>1. Explained(H, A)
  BY InitCommits
<1>2. clog \in Seq(Entry) /\ Len(clog) = 0
  BY EmptySeq
<1>3. CommitOK(H, A, clog, Len(clog), 0)
  BY <1>2 DEF CommitOK
<1>4. NoRevote /\ \A i \in Server : commitIndex[i] <= Len(clog)
  BY <1>2 DEF Init, NoRevote
<1> HIDE DEF H, A
<1> QED
  BY <1>1, <1>2, <1>3, <1>4 DEF RecordInv, HasRecord, Explains

\* The same of what is committed after a step.
AllBeginningsAgree ==
    \A H, A : Explained(H, A) =>
        \A l, r \in Seq(Entry), k, x, T, U \in Nat :
            CommitOK(H, A, l, k, T) /\ CommitOK(H, A, r, x, U) /\ x <= k => Agree(l, r, x)

LEMMA BeginningsAgreeAfter == AllBeginningsAgree /\ AllBeginningsAgree'
<1>1. AllBeginningsAgree
  <2> SUFFICES ASSUME NEW H, NEW A, Explained(H, A), NEW l \in Seq(Entry), NEW r \in Seq(Entry),
                      NEW k \in Nat, NEW x \in Nat, NEW T \in Nat, NEW U \in Nat,
                      CommitOK(H, A, l, k, T), CommitOK(H, A, r, x, U), x <= k
               PROVE  Agree(l, r, x)
    BY DEF AllBeginningsAgree
  <2>1. LeaderLogs(H) /\ A \in Acks /\ Mandates(H, A)
    BY DEF Explained, LogInv, AckInv, BallotInv
  <2> QED
    BY <2>1, BeginningsAgree
<1> QED
  BY <1>1, PTL

\* The record covers what every peer takes for committed.
Covers ==
    \A i \in Server : /\ commitIndex[i] <= Len(log[i]) /\ commitIndex[i] <= Len(clog)
                      /\ CommittedBy(i) = Prefix(clog, commitIndex[i])

LEMMA RecordCovers == (TypeOK /\ RecordInv => Covers) /\ (TypeOK /\ RecordInv => Covers)'
<1>1. TypeOK /\ RecordInv => Covers
  <2> SUFFICES ASSUME TypeOK, RecordInv, NEW i \in Server
               PROVE  /\ commitIndex[i] <= Len(log[i]) /\ commitIndex[i] <= Len(clog)
                      /\ CommittedBy(i) = Prefix(clog, commitIndex[i])
    BY DEF Covers
  <2>1. PICK H, A : Explains(H, A)
    BY DEF RecordInv, HasRecord
  <2>2. PICK T \in Nat : CommitOK(H, A, clog, Len(clog), T)
    BY <2>1 DEF Explains
  <2>3. Explained(H, A) /\ H \in History
        /\ CommitOK(H, A, log[i], commitIndex[i], currentTerm[i])
    BY <2>1 DEF Explains, Explained, LogInv, LeaderLogs, CommitInv
  <2>4. /\ log[i] \in Seq(Entry) /\ commitIndex[i] \in Nat /\ currentTerm[i] \in Nat
        /\ clog \in Seq(Entry) /\ Len(clog) \in Nat /\ commitIndex[i] <= Len(clog)
    BY TypeFacts, LenProperties DEF TypeOK, RecordInv
  <2>5. Agree(clog, log[i], commitIndex[i])
    BY <2>2, <2>3, <2>4, BeginningsAgreeAfter DEF AllBeginningsAgree
  <2>6. Prefix(clog, commitIndex[i]) = Prefix(log[i], commitIndex[i])
    BY <2>4, <2>5, AgreePrefix
  <2> QED
    BY <2>4, <2>5, <2>6 DEF CommittedBy, Agree
<1> QED
  BY <1>1, PTL

\* A step leaves a record that begins with the one there was.
LEMMA RecordStep ==
    ASSUME GoodStep, ElectionInv, RuleFive, RecordInv, NoRevote', Record
    PROVE  RecordInv' /\ Agree(clog', clog, Len(clog))
<1>1. PICK H, A : Explains(H, A)
  BY DEF RecordInv, HasRecord
<1>2. PICK T \in Nat : CommitOK(H, A, clog, Len(clog), T)
  BY <1>1 DEF Explains
<1>3. PICK K, D : HistoryStep(H, K) /\ AckStep(A, D) /\ Explained(K, D)'
  BY <1>1, StepExplained DEF Explains
<1>4. /\ LogInv(H) /\ AckInv(H, A) /\ clog \in Seq(Entry) /\ Len(clog) \in Nat
      /\ Agree(clog, clog, Len(clog))
  BY <1>1, AgreeSelf, LenProperties DEF Explains, Explained, RecordInv
<1>5. CommitOK(K, D, clog, Len(clog), T)
  BY <1>2, <1>3, <1>4, CommitStill
<1>6. K \in History /\ CommitInv(K, D)'
  BY <1>3 DEF Explained, LogInv, LeaderLogs
<1>7. ASSUME clog' \in Seq(Entry), Agree(clog', clog, Len(clog)),
             \A i \in Server : commitIndex'[i] <= Len(clog'),
             NEW U \in Nat, CommitOK(K, D, clog', Len(clog'), U)
      PROVE  RecordInv' /\ Agree(clog', clog, Len(clog))
  <2>1. HasRecord'
    BY <1>3, <1>7 DEF HasRecord, Explains, Explained, LogInv, LeaderLogs, AckInv, AcksKept,
         AcksCounted, AcksSent, BallotInv, Requests, VotesReached, Ballots, Mandates,
         CommitInv, Elected, ElectedTerms
  <2> QED
    BY <1>7, <2>1 DEF RecordInv
<1>8. CASE clog' = clog /\ \A i \in Server : commitIndex'[i] <= Len(clog)
  BY <1>4, <1>5, <1>7, <1>8
<1>9. ASSUME NEW i \in Server, commitIndex'[i] > Len(clog),
             \A j \in Server : commitIndex'[j] <= commitIndex'[i],
             clog' = CommittedBy(i)'
      PROVE  RecordInv' /\ Agree(clog', clog, Len(clog))
  <2>1. log'[i] \in Seq(Entry) /\ commitIndex'[i] \in Nat /\ currentTerm'[i] \in Nat
    BY GoodStepFacts DEF GoodStep, TypeInv, TypeOK
  <2>2. CommitOK(K, D, log'[i], commitIndex'[i], currentTerm'[i])
    BY <1>6 DEF CommitInv
  <2>3. clog' = Prefix(log'[i], commitIndex'[i])
    BY <1>9 DEF CommittedBy
  <2>4. /\ clog' \in Seq(Entry) /\ Len(clog') = commitIndex'[i]
        /\ CommitOK(K, D, clog', Len(clog'), currentTerm'[i])
    <3> DEFINE r == Prefix(log'[i], commitIndex'[i])
    <3>0. commitIndex'[i] <= Len(log'[i])
      BY <1>6, <2>1, <2>2, CommitOfPrefix
    <3>1. r \in Seq(Entry) /\ Len(r) = commitIndex'[i]
      BY <2>1, <3>0, PrefixFacts
    <3>2. CommitOK(K, D, r, commitIndex'[i], currentTerm'[i])
      BY <1>6, <2>1, <2>2, CommitOfPrefix
    <3>3. clog' = r
      BY <2>3
    <3> HIDE DEF r
    <3> QED
      BY <3>1, <3>2, <3>3
  <2>5. Agree(clog', clog, Len(clog))
    BY <1>3, <1>4, <1>5, <1>9, <2>1, <2>4, BeginningsAgreeAfter DEF AllBeginningsAgree
  <2> QED
    BY <1>7, <1>9, <2>1, <2>4, <2>5
<1> QED
  BY <1>8, <1>9 DEF Record

\* A step that moves the commit index of p only is one of CommittedLog.
LEMMA StepOfLog ==
    ASSUME TypeOK, TypeOK', Covers, Covers', clog \in Seq(Entry), clog' \in Seq(Entry),
           Agree(clog', clog, Len(clog)), Record, NEW p \in Server,
           \A q \in Server : q # p => commitIndex'[q] = commitIndex[q],
           commitIndex[p] <= commitIndex'[p] \/ boot'[p] # boot[p],
           boot'[p] # boot[p] => commitIndex'[p] = 0
    PROVE  CL!Next
<1> DEFINE seen == [i \in Server |-> CommittedBy(i)]
<1>1. /\ Len(clog) \in Nat /\ Len(clog') \in Nat /\ Len(clog) <= Len(clog')
      /\ commitIndex \in [Server -> Nat] /\ commitIndex' \in [Server -> Nat]
  BY LenProperties DEF TypeOK, Agree
<1>2. \A i \in Server : /\ commitIndex[i] <= Len(clog) /\ commitIndex'[i] <= Len(clog')
                        /\ CommittedBy(i) = Prefix(clog, commitIndex[i])
                        /\ CommittedBy(i)' = Prefix(clog', commitIndex'[i])
  BY DEF Covers
<1>3. ASSUME NEW n \in Nat, n <= Len(clog)
      PROVE  Prefix(clog', n) = Prefix(clog, n)
  BY <1>1, <1>3, AgreeDown, AgreePrefix
<1>4. ASSUME NEW q \in Server, q # p PROVE CommittedBy(q)' = CommittedBy(q)
  BY <1>1, <1>2, <1>3, <1>4
<1>5. seen' = [seen EXCEPT ![p] = CommittedBy(p)']
  <2>1. \A q \in Server : [seen EXCEPT ![p] = CommittedBy(p)'][q] = CommittedBy(q)'
    BY <1>4
  <2> QED
    BY <2>1
<1>6. /\ Prefix(clog', Len(clog)) = clog
      /\ Len(CommittedBy(p)) = commitIndex[p]
      /\ Prefix(clog', Len(clog')) = clog'
  <2>1. /\ SubSeq(clog, 1, Len(clog)) = clog /\ SubSeq(clog', 1, Len(clog')) = clog'
    BY SubSeqFull
  <2>2. Len(Prefix(clog, commitIndex[p])) = commitIndex[p]
    BY <1>1, <1>2, PrefixFacts
  <2> QED
    BY <1>1, <1>2, <1>3, <2>1, <2>2 DEF Prefix
<1>7. seen[p] = CommittedBy(p)
  OBVIOUS
<1>8. CASE clog' = clog /\ boot'[p] # boot[p]
  <2>1. CommittedBy(p)' = <<>>
    <3>1. commitIndex'[p] = 0 /\ CommittedBy(p)' = SubSeq(clog', 1, 0)
      BY <1>2, <1>8 DEF Prefix
    <3> QED
      BY <3>1, SubSeqEmpty
  <2>2. seen' = [seen EXCEPT ![p] = <<>>]
    BY <1>5, <2>1
  <2>3. CL!Restart(p)
    BY <1>8, <2>2 DEF CL!Restart
  <2> QED
    BY <2>3 DEF CL!Next
<1>9. CASE clog' = clog /\ boot'[p] = boot[p]
  <2>1. commitIndex'[p] \in Len(CommittedBy(p))..Len(clog)
    BY <1>1, <1>2, <1>6, <1>9
  <2>2. seen' = [seen EXCEPT ![p] = SubSeq(clog, 1, commitIndex'[p])]
    BY <1>2, <1>5, <1>9 DEF Prefix
  <2> HIDE DEF seen
  <2>3. \E n \in Len(seen[p])..Len(clog) : seen' = [seen EXCEPT ![p] = SubSeq(clog, 1, n)]
    BY <1>7, <2>1, <2>2
  <2>4. CL!Learn(p)
    BY <1>9, <2>3 DEF CL!Learn, seen
  <2> QED
    BY <2>4 DEF CL!Next
<1>10. ASSUME NEW i \in Server, commitIndex'[i] > Len(clog),
              \A j \in Server : commitIndex'[j] <= commitIndex'[i],
              clog' = CommittedBy(i)'
       PROVE  CL!Next
  <2>1. i = p
    BY <1>1, <1>2, <1>10
  <2>2. clog' # clog
    BY <1>1, <1>2, <1>10
  <2>3. CL!Begins(clog', clog)
    BY <1>1, <1>6 DEF CL!Begins, Prefix
  <2>4. CL!Begins(clog', CommittedBy(p))
    <3>1. commitIndex[p] \in Nat /\ commitIndex[p] <= Len(clog)
      BY <1>1, <1>2
    <3>2. Prefix(clog', commitIndex[p]) = CommittedBy(p)
      BY <1>2, <1>3, <3>1
    <3>3. Len(CommittedBy(p)) <= Len(clog')
      BY <1>1, <1>6, <3>1
    <3> QED
      BY <1>6, <3>2, <3>3 DEF CL!Begins, Prefix
  <2>5. seen' = [seen EXCEPT ![p] = clog']
    BY <1>5, <1>10, <2>1
  <2>6. CL!Commit(p)
    BY <1>7, <2>2, <2>3, <2>4, <2>5 DEF CL!Commit
  <2> QED
    BY <2>6 DEF CL!Next
<1> QED
  BY <1>8, <1>9, <1>10 DEF Record

\* The record adds nothing to what Raft does.
LEMMA RecordedIsRaft == RecordedSpec => Spec
<1>1. [RecordedNext]_<<vars, clog>> => [Next]_vars
  BY DEF RecordedNext
<1> QED
  BY <1>1, PTL DEF RecordedSpec, Spec

LEMMA StillRecorded ==
    ASSUME TypeOK, RecordInv, [RecordedNext]_<<vars, clog>>
    PROVE  NoRevote' /\ Record /\ [Next]_vars
<1>1. CASE RecordedNext
  BY <1>1 DEF RecordedNext
<1>2. CASE UNCHANGED <<vars, clog>>
  BY <1>2 DEF RecordInv, NoRevote, Record, vars
<1> QED
  BY <1>1, <1>2

\* The record is right whatever happens, as long as followers keep rule 5 as its
\* comment has it.
THEOREM RaftRecord == RecordedSpec /\ KeepsRuleFive => []RecordInv
<1>1. Init /\ clog = <<>> => RecordInv
  BY InitRecord
<1>2. (/\ TypeInv /\ TypeInv' /\ VoteInv /\ LeaderInv /\ LeaderInv'
       /\ ElectionSafety /\ ElectionSafety' /\ ElectionInv /\ RecordInv
       /\ [RecordedNext]_<<vars, clog>> /\ [NoRevote' => RuleFive]_vars)
        => RecordInv'
  <2> SUFFICES ASSUME TypeInv, TypeInv', VoteInv, LeaderInv, LeaderInv', ElectionSafety,
                      ElectionSafety', ElectionInv, RecordInv,
                      [RecordedNext]_<<vars, clog>>, [NoRevote' => RuleFive]_vars
               PROVE  RecordInv'
    OBVIOUS
  <2>1. NoRevote' /\ Record /\ [Next]_vars
    BY StillRecorded DEF TypeInv
  <2>2. GoodStep /\ RuleFive
    BY <2>1, NoRevoteStep, StutterKeepsRule
  <2> QED
    BY <2>1, <2>2, RecordStep
<1> QED
  BY <1>1, <1>2, RecordedIsRaft, RaftTypeInv, RaftVoteInv, RaftLeaderInv, RaftElectionSafety,
     RaftElectionInv, PTL DEF RecordedSpec, KeepsRuleFive

\* Raft implements CommittedLog among any number of peers, as long as no peer
\* votes twice in a term and followers keep rule 5 as its comment has it: what was
\* committed once stays the beginning of everything that is committed later, even if
\* every peer that knew of it was restarted with commitIndex 0.
THEOREM RaftOneLogForever ==
    RecordedSpec /\ KeepsRuleFive => OneLogForever
<1>1. Init /\ clog = <<>> => CL!Init
  <2> SUFFICES ASSUME Init, NEW i \in Server PROVE CommittedBy(i) = <<>>
    BY DEF CL!Init
  <2>1. log[i] = <<>> /\ commitIndex[i] = 0
    BY DEF Init
  <2> QED
    BY <2>1, SubSeqEmpty DEF CommittedBy, Prefix
<1>2. (/\ TypeInv /\ TypeInv' /\ VoteInv /\ LeaderInv /\ LeaderInv'
       /\ ElectionSafety /\ ElectionSafety' /\ ElectionInv /\ RecordInv /\ RecordInv'
       /\ [RecordedNext]_<<vars, clog>> /\ [NoRevote' => RuleFive]_vars)
        => [CL!Next]_<<clog, [i \in Server |-> CommittedBy(i)]>>
  <2> SUFFICES ASSUME TypeInv, TypeInv', VoteInv, LeaderInv, LeaderInv', ElectionSafety,
                      ElectionSafety', ElectionInv, RecordInv, RecordInv',
                      RecordedNext, [NoRevote' => RuleFive]_vars
               PROVE  CL!Next
    BY DEF vars, CommittedBy
  <2>1. TypeOK /\ TypeOK' /\ Next /\ Record /\ NoRevote'
    BY DEF TypeInv, RecordedNext
  <2>2. NoRevote /\ GoodStep /\ RuleFive
    BY <2>1, NoRevoteStep, StutterKeepsRule
  <2>3. Covers /\ Covers' /\ clog \in Seq(Entry) /\ clog' \in Seq(Entry)
    BY <2>1, RecordCovers DEF RecordInv
  <2>4. Agree(clog', clog, Len(clog))
    BY <2>1, <2>2, RecordStep
  <2>5. PICK p \in Server : /\ \A q \in Server : q # p => commitIndex'[q] = commitIndex[q]
                            /\ boot'[p] # boot[p] => commitIndex'[p] = 0
    BY <2>1, OnePeerCommits
  <2>6. commitIndex[p] <= commitIndex'[p] \/ boot'[p] # boot[p]
    <3>1. PICK H, A : Explained(H, A)
      BY DEF RecordInv, HasRecord, Explains
    <3>2. /\ LogInv(H) /\ AckInv(H, A) /\ Mandates(H, A) /\ CommitInv(H, A)
          /\ H \in History /\ A \in Acks
      BY <3>1 DEF Explained, LogInv, LeaderLogs, AckInv, BallotInv
    <3>3. PICK K : HistoryStep(H, K)
      BY <2>2, <3>2, HistoryExists
    <3>4. PICK D : AckStep(A, D)
      BY <3>2, AcksExist
    <3> QED
      BY <2>2, <3>2, <3>3, <3>4, StepCommitIndex
  <2> QED
    BY <2>1, <2>3, <2>4, <2>5, <2>6, StepOfLog
<1> QED
  BY <1>1, <1>2, RecordedIsRaft, RaftRecord, RaftTypeInv, RaftVoteInv, RaftLeaderInv, RaftElectionSafety,
     RaftElectionInv, PTL DEF RecordedSpec, KeepsRuleFive, OneLogForever, CL!Spec

\* With logs that one AppendEntries call can hold nothing is asked of followers.
THEOREM RaftShortLogsForever ==
    ASSUME MaxLog <= MaxEntries
    PROVE  RecordedSpec => OneLogForever
BY RecordedIsRaft, RaftShortLogs, RaftOneLogForever, PTL
=============================================================================
