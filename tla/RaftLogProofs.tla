---------------------------- MODULE RaftLogProofs ----------------------------
(* Log matching and the truth of matchIndex, for any finite set of peers and *)
(* any bounds.  The inductive invariant speaks of two histories that no      *)
(* variable of Raft keeps, so it quantifies over them: H[t] is the log of    *)
(* the leader of term t as long as it led, A[v][t] holds the indices up to   *)
(* which v has told that leader that their logs agree.                       *)
EXTENDS RaftProofs

-----------------------------------------------------------------------------
(* Logs and histories *)

\* The two logs reach index n and are equal up to it.
Agree(l, h, n) == /\ n <= Len(l) /\ n <= Len(h)
                  /\ \A k \in 1..n : l[k] = h[k]

\* Every entry of l stands where the leader of its term put it, after what
\* that leader had before it.
Follows(l, H) == \A n \in 1..Len(l) : Agree(l, H[l[n].term], n)

TermsUpTo(l, t) == \A n \in 1..Len(l) : l[n].term <= t

Elected(t) == \E i \in Server : t \in won[i]

\* The slice of the leader's log h that a call claims to be.
Carries(m, h) ==
    /\ NewMatch(m) <= Len(h)
    /\ m.prevLogTerm = TermAt(h, m.prevLogIndex)
    /\ \A k \in 1..Len(m.entries) : m.entries[k] = h[m.prevLogIndex + k]

History == [Nat -> Seq(Entry)]

\* H is a history of the leaders' logs in this state.
LeaderLogs(H) ==
    /\ H \in History
    /\ \A t \in Nat : Follows(H[t], H) /\ TermsUpTo(H[t], t)
    /\ \A t \in Nat : ~Elected(t) => H[t] = <<>>
    /\ \A i \in Server : state[i] = Leader => H[currentTerm[i]] = log[i]

LogInv(H) ==
    /\ LeaderLogs(H)
    /\ \A i \in Server : Follows(log[i], H) /\ TermsUpTo(log[i], currentTerm[i])
    /\ \A m \in DOMAIN net : IsAppend(m) => Carries(m, H[m.term])

Acks == [Server -> [Nat -> SUBSET Nat]]

ElectedTerms == {t \in Nat : Elected(t)}

\* Of the terms E, one after t and up to u has a leader without what the leader
\* of t had up to n.
Lost(E, H, t, n, u) ==
    \E s \in E : t < s /\ s <= u /\ ~Agree(H[s], H[t], n)

\* A peer keeps what it reported unless a later leader without it has
\* overwritten its log.
AcksKept(H, A) ==
    \A v \in Server, t \in Nat : \A n \in A[v][t] :
        /\ t <= currentTerm[v] /\ n <= Len(H[t])
        /\ \A k \in Nat : k <= n => k \in A[v][t]
        /\ Agree(log[v], H[t], n) \/ Lost(ElectedTerms, H, t, n, currentTerm[v])

\* What a leader counts on was reported.
AcksCounted(A) ==
    \A i \in Server : state[i] = Leader =>
        /\ Len(log[i]) \in A[i][currentTerm[i]]
        /\ \A j \in Server : \/ matchIndex[i][j] = 0
                             \/ matchIndex[i][j] \in A[j][currentTerm[i]]

AcksSent(A) ==
    \A m \in DOMAIN net : IsAnswer(m) /\ m.success = TRUE => m.match \in A[m.from][m.term]

AckInv(H, A) == A \in Acks /\ AcksKept(H, A) /\ AcksCounted(A) /\ AcksSent(A)

-----------------------------------------------------------------------------
(* What a step does to the logs *)

\* The step is the handler's acceptance of the AppendEntries call m.
Accepts(m) ==
    /\ IsAppend(m) /\ m.term >= currentTerm[m.to]
    /\ currentTerm'[m.to] = m.term /\ state'[m.to] = Follower
    /\ PrevMatches(m, log[m.to])
    /\ log'[m.to] = MergedLog(log[m.to], m.prevLogIndex, m.entries)

\* Peer i leads term t after the step.
NowLeads(i, t) == state'[i] = Leader /\ currentTerm'[i] = t

\* The histories after a step: the leaders there are then write theirs.
HistoryStep(H, K) ==
    /\ K \in History
    /\ \A t \in Nat : \/ \E i \in Server : NowLeads(i, t) /\ K[t] = log'[i]
                      \/ K[t] = H[t] /\ \A i \in Server : ~NowLeads(i, t)

\* And whoever accepts a call, or leads, has all the leader has up to there.
AckStep(A, D) ==
    /\ D \in Acks
    /\ \A v \in Server, t \in Nat, n \in Nat :
          n \in D[v][t] <=> \/ n \in A[v][t]
                            \/ \E m \in DOMAIN net : /\ Accepts(m) /\ m.to = v /\ m.term = t
                                                     /\ n <= NewMatch(m)
                            \/ NowLeads(v, t) /\ n <= Len(log'[v])

-----------------------------------------------------------------------------
(* Facts about logs *)

\* An entry of a log is an Entry.
LEMMA EntryType ==
    ASSUME NEW l \in Seq(Entry), NEW n \in 1..Len(l)
    PROVE  l[n] \in Entry /\ l[n].term \in Nat
<1>1. l[n] \in Entry
  BY ElementOfSeq
<1> QED
  BY <1>1 DEF Entry

\* Agreement up to an index is agreement up to every smaller one.
LEMMA AgreeDown ==
    ASSUME NEW l \in Seq(Entry), NEW h \in Seq(Entry), NEW n \in Nat, NEW k \in Nat,
           Agree(l, h, n), k <= n
    PROVE  Agree(l, h, k)
<1>1. Len(l) \in Nat /\ Len(h) \in Nat
  BY LenProperties
<1> QED
  BY <1>1 DEF Agree

\* It is symmetric and transitive.
LEMMA AgreeSym ==
    ASSUME NEW l, NEW h, NEW n, Agree(l, h, n)
    PROVE  Agree(h, l, n)
BY DEF Agree

LEMMA AgreeTrans ==
    ASSUME NEW l, NEW h, NEW g, NEW n, Agree(l, h, n), Agree(h, g, n)
    PROVE  Agree(l, g, n)
BY DEF Agree

\* Every log agrees with itself.
LEMMA AgreeSelf ==
    ASSUME NEW l \in Seq(Entry), NEW n \in Nat, n <= Len(l)
    PROVE  Agree(l, l, n)
BY DEF Agree

\* Any two agree up to nothing.
LEMMA AgreeZero ==
    ASSUME NEW l \in Seq(Entry), NEW h \in Seq(Entry)
    PROVE  Agree(l, h, 0)
<1>1. Len(l) \in Nat /\ Len(h) \in Nat
  BY LenProperties
<1> QED
  BY <1>1 DEF Agree

\* Two logs that follow the leaders and have the same term somewhere agree.
LEMMA SameTermAgrees ==
    ASSUME NEW l \in Seq(Entry), NEW h \in Seq(Entry), NEW H,
           Follows(l, H), Follows(h, H),
           NEW n \in Nat, n >= 1, n <= Len(l), n <= Len(h), l[n].term = h[n].term
    PROVE  Agree(l, h, n)
<1>1. n \in 1..Len(l) /\ n \in 1..Len(h)
  BY LenProperties
<1>2. Agree(l, H[l[n].term], n) /\ Agree(h, H[l[n].term], n)
  BY <1>1 DEF Follows
<1> QED
  BY <1>2, AgreeSym, AgreeTrans

\* What agrees with a log that follows the leaders follows them too.
LEMMA FollowsAgreeing ==
    ASSUME NEW l \in Seq(Entry), NEW h \in Seq(Entry), NEW H \in History,
           Follows(h, H), Agree(l, h, Len(l))
    PROVE  Follows(l, H)
<1> SUFFICES ASSUME NEW n \in 1..Len(l) PROVE Agree(l, H[l[n].term], n)
  BY DEF Follows
<1>1. Len(l) \in Nat /\ Len(h) \in Nat /\ n \in Nat
  BY LenProperties
<1>2. n \in 1..Len(h) /\ l[n] = h[n]
  BY <1>1 DEF Agree
<1>3. Agree(h, H[l[n].term], n)
  BY <1>2 DEF Follows
<1>4. Agree(l, h, n)
  BY <1>1, AgreeDown
<1> QED
  BY <1>3, <1>4, AgreeTrans

\* Its terms are bounded by the same bound.
LEMMA TermsAgreeing ==
    ASSUME NEW l \in Seq(Entry), NEW h \in Seq(Entry), NEW t, TermsUpTo(h, t),
           Agree(l, h, Len(l))
    PROVE  TermsUpTo(l, t)
<1>1. Len(l) \in Nat /\ Len(h) \in Nat
  BY LenProperties
<1> QED
  BY <1>1 DEF Agree, TermsUpTo

\* A log that passes the consistency check agrees with the caller's up to
\* prevLogIndex.
LEMMA PrevAgrees ==
    ASSUME NEW l \in Seq(Entry), NEW h \in Seq(Entry), NEW H \in History,
           Follows(l, H), Follows(h, H),
           NEW m \in AppendEntriesArgs, Carries(m, h), PrevMatches(m, l)
    PROVE  Agree(l, h, m.prevLogIndex)
<1>1. /\ m.prevLogIndex \in Nat /\ m.entries \in Seq(Entry) /\ Len(m.entries) \in Nat
      /\ Len(l) \in Nat /\ Len(h) \in Nat
  BY LenProperties DEF AppendEntriesArgs
<1>2. m.prevLogIndex <= Len(h) /\ m.prevLogIndex <= Len(l)
  BY <1>1 DEF Carries, NewMatch, PrevMatches
<1>3. CASE m.prevLogIndex = 0
  BY <1>1, <1>2, <1>3 DEF Agree
<1>4. CASE m.prevLogIndex > 0
  <2>1. l[m.prevLogIndex].term = h[m.prevLogIndex].term
    BY <1>4, <1>1 DEF PrevMatches, Carries, TermAt
  <2> QED
    BY <1>1, <1>2, <1>4, <2>1, SameTermAgrees
<1> QED
  BY <1>1, <1>3, <1>4

\* What accepting a slice of the leader's log h makes of a log l: it agrees
\* with h up to the end of the slice, no agreement is lost, and beyond the
\* slice nothing is left but l itself.
LEMMA MergeAgrees ==
    ASSUME NEW l \in Seq(Entry), NEW h \in Seq(Entry), NEW H \in History,
           Follows(l, H), Follows(h, H),
           NEW m \in AppendEntriesArgs, Carries(m, h), PrevMatches(m, l),
           NEW r, r = MergedLog(l, m.prevLogIndex, m.entries)
    PROVE  /\ r \in Seq(Entry)
           /\ Agree(r, h, NewMatch(m))
           /\ r = l \/ Len(r) = NewMatch(m)
           /\ \A n \in Nat : Agree(l, h, n) => Agree(r, h, n)
<1> DEFINE prev == m.prevLogIndex
           es == m.entries
           top == prev + Len(es)
           clash == Conflict(l, prev, es)
<1>1. /\ prev \in Nat /\ es \in Seq(Entry) /\ Len(es) \in Nat /\ top \in Nat
      /\ Len(l) \in Nat /\ Len(h) \in Nat
  BY LenProperties DEF AppendEntriesArgs
<1>2. Agree(l, h, prev)
  BY PrevAgrees
<1>3. /\ top <= Len(h) /\ prev <= Len(l)
      /\ \A n \in Nat : prev < n /\ n <= top => es[n - prev] = h[n]
  <2>1. top <= Len(h) /\ prev <= Len(l)
    BY DEF Carries, NewMatch, PrevMatches
  <2>2. ASSUME NEW n \in Nat, prev < n, n <= top PROVE es[n - prev] = h[n]
    <3>1. n - prev \in 1..Len(es) /\ prev + (n - prev) = n
      BY <1>1, <2>2
    <3> QED
      BY <3>1 DEF Carries
  <2> QED
    BY <2>1, <2>2
<1>4. r \in Seq(Entry)
  BY <1>1, <1>3, MergedLogType DEF PrevMatches
<1> DEFINE size == IF clash THEN top ELSE Max2(Len(l), top)
<1>5. size \in Nat /\ top <= size /\ (~clash => Len(l) <= size)
  BY <1>1 DEF Max2
<1>6. /\ Len(r) = size
      /\ \A n \in 1..size :
            r[n] = IF ScanPasses(l, prev, es, n) THEN l[n] ELSE es[n - prev]
  <2>1. r = [n \in 1..size |-> IF ScanPasses(l, prev, es, n) THEN l[n] ELSE es[n - prev]]
    BY DEF MergedLog
  <2>2. DOMAIN r = 1..size
    BY <2>1
  <2>3. Len(r) = size
    BY <1>4, <1>5, <2>2, LenProperties
  <2> QED
    BY <2>1, <2>3
<1> HIDE DEF size
<1>7. ASSUME NEW n \in Nat, n >= 1, n <= top PROVE r[n] = h[n]
  <2>1. n \in 1..size
    BY <1>1, <1>5, <1>7
  <2>2. CASE n <= prev
    <3>1. ScanPasses(l, prev, es, n)
      BY <1>1, <2>2 DEF ScanPasses
    <3> QED
      BY <1>1, <1>2, <1>6, <1>7, <2>1, <2>2, <3>1 DEF Agree
  <2>3. CASE n > prev /\ ScanPasses(l, prev, es, n)
    <3>1. n <= Len(l) /\ (n - prev <= Len(es) => l[n].term = es[n - prev].term)
      BY <1>1, <2>3 DEF ScanPasses
    <3>2. l[n].term = h[n].term
      BY <1>1, <1>3, <1>7, <2>3, <3>1
    <3>3. Agree(l, h, n)
      BY <1>1, <1>3, <1>7, <3>1, <3>2, SameTermAgrees
    <3> QED
      BY <1>6, <1>7, <2>1, <2>3, <3>3 DEF Agree
  <2>4. CASE n > prev /\ ~ScanPasses(l, prev, es, n)
    BY <1>1, <1>3, <1>6, <1>7, <2>1, <2>4
  <2> QED
    BY <1>1, <2>2, <2>3, <2>4
<1>8. Agree(r, h, top)
  BY <1>1, <1>3, <1>5, <1>6, <1>7 DEF Agree
<1>9. ASSUME ~clash, Len(l) >= top PROVE r = l
  <2>1. size = Len(l)
    BY <1>1, <1>9 DEF size, Max2
  <2>2. ASSUME NEW n \in 1..size PROVE r[n] = l[n]
    <3>1. ASSUME NEW x \in (prev + 1)..n
          PROVE  x <= Len(l) /\ (x - prev <= Len(es) => l[x].term = es[x - prev].term)
      <4>1. x \in Nat /\ n \in Nat /\ n <= Len(l) /\ prev < x /\ x <= n
        BY <1>1, <2>1, <2>2, <3>1
      <4>2. ASSUME x - prev <= Len(es) PROVE l[x].term = es[x - prev].term
        <5>1. x \in (prev + 1)..Min2(Len(l), prev + Len(es))
          BY <1>1, <4>1, <4>2 DEF Min2
        <5> QED
          BY <1>9, <5>1 DEF Conflict
      <4> QED
        BY <1>1, <4>1, <4>2
    <3>2. ScanPasses(l, prev, es, n)
      BY <3>1 DEF ScanPasses
    <3> QED
      BY <1>6, <2>2, <3>2
  <2> QED
    BY <1>4, <1>6, <2>1, <2>2, SeqEqual
<1>10. r = l \/ Len(r) = top
  <2>1. CASE clash \/ Len(l) < top
    BY <1>1, <1>6, <2>1 DEF size, Max2
  <2> QED
    BY <1>1, <1>9, <2>1
<1>11. ASSUME NEW n \in Nat, Agree(l, h, n) PROVE Agree(r, h, n)
  <2>1. CASE n <= top
    BY <1>1, <1>4, <1>8, <2>1, AgreeDown
  <2>2. CASE n > top
    <3>1. ASSUME clash PROVE FALSE
      <4>1. PICK x \in (prev + 1)..Min2(Len(l), prev + Len(es)) : l[x].term # es[x - prev].term
        BY <3>1 DEF Conflict
      <4>2. x \in Nat /\ x >= 1 /\ prev < x /\ x <= top /\ x <= n
        BY <1>1, <2>2, <4>1 DEF Min2
      <4>3. l[x] = h[x] /\ es[x - prev] = h[x]
        BY <1>3, <1>11, <4>2 DEF Agree
      <4> QED
        BY <4>1, <4>3
    <3>2. n <= Len(l)
      BY <1>11 DEF Agree
    <3> QED
      BY <1>1, <1>9, <1>11, <2>2, <3>1, <3>2
  <2> QED
    BY <1>1, <2>1, <2>2
<1> QED
  BY <1>4, <1>8, <1>10, <1>11 DEF NewMatch

-----------------------------------------------------------------------------
(* What any step does to the logs, the calls and matchIndex *)

\* A log is left alone, extended by Start, or merged with an accepted call.
LogStep(k) ==
    \/ log'[k] = log[k]
    \/ /\ state[k] = Leader /\ state'[k] = Leader /\ currentTerm'[k] = currentTerm[k]
       /\ Len(log[k]) < MaxLog
       /\ \E c \in Command : log'[k] = Append(log[k], [term |-> currentTerm[k], cmd |-> c])
    \/ \E m \in DOMAIN net : Accepts(m) /\ m.to = k

LogEffects == \A k \in Server : LogStep(k)

\* A restart, or a crash in a handler, reads back the log that was there.
LEMMA RebootKeepsLog ==
    ASSUME TypeOK, PersistedAgrees, NEW i \in Server, NEW disk, disk.log = persister[i].log,
           Reboot(i, disk)
    PROVE  log' = log
<1>1. persister[i].log = log[i]
  <2>1. persister[i] = [currentTerm |-> currentTerm[i], votedFor |-> votedFor[i],
                        log |-> log[i]]
    BY DEF PersistedAgrees
  <2> QED
    BY <2>1
<1>2. log \in [Server -> Seq(Entry)]
  BY TypeFacts
<1> QED
  BY <1>1, <1>2 DEF Reboot

\* The handler of AppendEntries accepts the call or leaves the logs alone.
LEMMA HandlerLogs ==
    ASSUME TypeOK, NEW m \in DOMAIN net, AppendEntries(m)
    PROVE  /\ m \in AppendEntriesArgs /\ IsAppend(m)
           /\ PrevMatches(m, log[m.to]) => Accepts(m)
           /\ ~PrevMatches(m, log[m.to]) => log' = log
           /\ \A k \in Server : k # m.to => log'[k] = log[k]
<1>1. /\ NetOK(net) /\ log \in [Server -> Seq(Entry)] /\ currentTerm \in [Server -> Nat]
      /\ state \in [Server -> {Follower, Candidate, Leader}]
  BY TypeFacts
<1>2. m \in AppendEntriesArgs /\ IsAppend(m)
  BY <1>1, MessageKinds DEF AppendEntries, NetOK, IsAppend
<1>3. m.to \in Server
  BY <1>2 DEF AppendEntriesArgs
<1>4. /\ m.term >= currentTerm[m.to]
      /\ state' = [state EXCEPT ![m.to] = Follower]
      /\ currentTerm' = [currentTerm EXCEPT ![m.to] = m.term]
      /\ log' = IF PrevMatches(m, log[m.to])
                THEN [log EXCEPT ![m.to] = MergedLog(@, m.prevLogIndex, m.entries)]
                ELSE log
  BY DEF AppendEntries
<1>5. /\ currentTerm'[m.to] = m.term /\ state'[m.to] = Follower
      /\ \A k \in Server : k # m.to => log'[k] = log[k]
      /\ PrevMatches(m, log[m.to]) =>
            log'[m.to] = MergedLog(log[m.to], m.prevLogIndex, m.entries)
  BY <1>1, <1>3, <1>4
<1> QED
  BY <1>2, <1>4, <1>5 DEF Accepts

\* Every step treats every log so.
LEMMA StepLogs ==
    ASSUME TypeOK, PersistedAgrees, [Next]_vars
    PROVE  LogEffects
<1>0. /\ NetOK(net) /\ log \in [Server -> Seq(Entry)] /\ currentTerm \in [Server -> Nat]
      /\ state \in [Server -> {Follower, Candidate, Leader}]
  BY TypeFacts
<1>1. ASSUME log' = log PROVE LogEffects
  BY <1>1 DEF LogEffects, LogStep
<1>2. CASE UNCHANGED vars
  BY <1>1, <1>2 DEF vars
<1>3. ASSUME NEW i \in Server, ElectionTimeout(i) \/ StaleTimeout(i) PROVE LogEffects
  BY <1>1, <1>3 DEF ElectionTimeout, StaleTimeout, BecomeCandidate
<1>4. ASSUME NEW i \in Server, TickerPause(i) \/ StaleRest(i) \/ WinElection(i)
      PROVE  LogEffects
  BY <1>1, <1>4 DEF TickerPause, StaleRest, WinElection
<1>5. ASSUME NEW i \in Server, Restart(i) PROVE LogEffects
  BY <1>1, <1>5, RebootKeepsLog DEF Restart
<1>6. ASSUME NEW i \in Server, NEW c \in Command, Start(i, c) PROVE LogEffects
  <2>1. /\ state[i] = Leader /\ state' = state /\ currentTerm' = currentTerm
        /\ Len(log[i]) < MaxLog
        /\ log' = [log EXCEPT ![i] = Append(@, [term |-> currentTerm[i], cmd |-> c])]
    BY <1>6 DEF Start
  <2>2. /\ log'[i] = Append(log[i], [term |-> currentTerm[i], cmd |-> c])
        /\ \A k \in Server : k # i => log'[k] = log[k]
    BY <1>0, <2>1
  <2> QED
    BY <2>1, <2>2 DEF LogEffects, LogStep
<1>7. ASSUME NEW i \in Server, NEW j \in Server,
             Heartbeat(i, j) \/ SendEntries(i, j) \/ ReplicatorDone(i, j)
      PROVE  LogEffects
  BY <1>1, <1>7 DEF Heartbeat, SendEntries, ReplicatorDone
<1>8. ASSUME NEW m \in DOMAIN net, RejectStaleVote(m) \/ RejectStaleAppend(m) \/ RequestVote(m)
      PROVE  LogEffects
  BY <1>1, <1>8 DEF RejectStaleVote, RejectStaleAppend, RequestVote
<1>9. ASSUME NEW m \in DOMAIN net, VoteReply(m) \/ HeartbeatReplied(m) PROVE LogEffects
  BY <1>1, <1>9 DEF VoteReply, HeartbeatReplied, StepDownIfAbove, BecomeFollower
<1>10. ASSUME NEW m \in DOMAIN net, AppendReply(m) PROVE LogEffects
  BY <1>1, <1>10 DEF AppendReply, BecomeFollower
<1>11. ASSUME NEW m \in DOMAIN net, AppendEntries(m) PROVE LogEffects
  BY <1>11, HandlerLogs DEF LogEffects, LogStep
<1>12. ASSUME NEW m \in DOMAIN net, CrashInHandler(m) PROVE LogEffects
  <2>1. m \in RequestVoteArgs \/ m \in AppendEntriesArgs
    BY <1>0, <1>12, MessageKinds DEF CrashInHandler, NetOK
  <2>2. m.to \in Server
    BY <2>1 DEF RequestVoteArgs, AppendEntriesArgs
  <2> DEFINE disk == [currentTerm |-> m.term, votedFor |-> Nil, log |-> persister[m.to].log]
  <2>3. disk.log = persister[m.to].log /\ Reboot(m.to, disk)
    BY <1>12 DEF CrashInHandler
  <2> HIDE DEF disk
  <2> QED
    BY <1>1, <2>2, <2>3, RebootKeepsLog
<1> QED
  BY <1>2, <1>3, <1>4, <1>5, <1>6, <1>7, <1>8, <1>9, <1>10, <1>11, <1>12 DEF Next

\* A new AppendEntries call is a slice of the log of the leader it is from; it
\* goes to the end of the log where one call can hold all of it.
NewCall(m) ==
    /\ IsAppend(m) /\ m.from \in Server /\ Leads(m.from, m.term)
    /\ state' = state /\ currentTerm' = currentTerm /\ log' = log
    /\ Carries(m, log[m.from])
    /\ m.leaderCommit = commitIndex[m.from]
    /\ MaxLog <= MaxEntries /\ Len(log[m.from]) <= MaxLog => NewMatch(m) = Len(log[m.from])

\* A success is only ever reported for a call that was accepted.
NewAnswer(m) ==
    /\ IsAnswer(m)
    /\ m.success = TRUE => \E r \in DOMAIN net : /\ Accepts(r) /\ r.to = m.from
                                                 /\ r.term = m.term /\ NewMatch(r) = m.match

IsRequest(m) == m.type = "RequestVote"

\* A new RequestVote call is for a term above the caller's last and describes
\* the end of its log.
NewRequest(m) ==
    /\ IsRequest(m) /\ m.from \in Server
    /\ currentTerm[m.from] < m.term /\ currentTerm'[m.from] = m.term
    /\ log' = log
    /\ m.lastLogIndex = Len(log[m.from]) /\ m.lastLogTerm = LastTerm(log[m.from])

SendEffects ==
    \A m \in DOMAIN net' :
        m \in DOMAIN net \/ NewCall(m) \/ NewAnswer(m) \/ NewRequest(m)
          \/ m.type \in {"VoteReply", "HeartbeatReply"}

\* The AppendEntries handler reports success where it accepts the call.
LEMMA HandlerSends ==
    ASSUME TypeOK, NEW m \in DOMAIN net, RejectStaleAppend(m) \/ AppendEntries(m)
    PROVE  SendEffects
<1>1. NetOK(net) /\ replicators \in Matrix
  BY TypeFacts
<1>2. m \in AppendEntriesArgs /\ IsAppend(m)
  BY <1>1, MessageKinds DEF RejectStaleAppend, AppendEntries, NetOK, IsAppend
<1>3. m.to \in Server /\ currentTerm[m.to] \in Nat
  BY <1>2 DEF AppendEntriesArgs, TypeOK
<1> DEFINE idle == [replicators EXCEPT ![m.to] = [j \in Server |-> 0]]
<1>4. idle \in Matrix
  BY <1>1, <1>3 DEF Matrix
<1>5. PrevMatches(m, log[m.to]) \in BOOLEAN
  BY DEF PrevMatches
<1>6. ASSUME NEW ok \in BOOLEAN, ok = TRUE => Accepts(m),
             DOMAIN net' \subseteq DOMAIN net \cup {AppendReplyMsg(m, currentTerm[m.to], ok),
                                                   HeartbeatReplyMsg(m, currentTerm[m.to])}
      PROVE  SendEffects
  <2> DEFINE answer == AppendReplyMsg(m, currentTerm[m.to], ok)
             beat == HeartbeatReplyMsg(m, currentTerm[m.to])
  <2>1. beat.type = "HeartbeatReply"
    BY DEF HeartbeatReplyMsg
  <2>2. /\ IsAnswer(answer) /\ answer.from = m.to /\ answer.term = m.term
        /\ answer.match = NewMatch(m) /\ answer.success = ok
    BY DEF AppendReplyMsg, IsAnswer
  <2> HIDE DEF answer, beat
  <2>3. DOMAIN net' \subseteq DOMAIN net \cup {answer, beat}
    BY <1>6 DEF answer, beat
  <2>4. NewAnswer(answer)
    BY <1>6, <2>2 DEF NewAnswer
  <2> QED
    BY <2>1, <2>3, <2>4 DEF SendEffects
<1>7. CASE RejectStaleAppend(m)
  <2>1. AppendReplyTo(m, currentTerm[m.to], FALSE, replicators)
    BY <1>7 DEF RejectStaleAppend
  <2>2. DOMAIN net' \subseteq DOMAIN net \cup {AppendReplyMsg(m, currentTerm[m.to], FALSE),
                                              HeartbeatReplyMsg(m, currentTerm[m.to])}
    BY <1>1, <1>2, <1>3, <2>1, AppendReplyNet
  <2> QED
    BY <1>6, <2>2
<1>8. CASE AppendEntries(m)
  <2>1. AppendReplyTo(m, currentTerm[m.to], PrevMatches(m, log[m.to]), idle)
    BY <1>8 DEF AppendEntries
  <2> HIDE DEF idle
  <2>2. DOMAIN net' \subseteq DOMAIN net
            \cup {AppendReplyMsg(m, currentTerm[m.to], PrevMatches(m, log[m.to])),
                  HeartbeatReplyMsg(m, currentTerm[m.to])}
    BY <1>1, <1>2, <1>3, <1>4, <1>5, <2>1, AppendReplyNet
  <2>3. PrevMatches(m, log[m.to]) = TRUE => Accepts(m)
    BY <1>8, HandlerLogs
  <2> QED
    BY <1>5, <1>6, <2>2, <2>3
<1> QED
  BY <1>7, <1>8

\* A heartbeat is the empty slice at the end of the leader's log.
LEMMA HeartbeatSends ==
    ASSUME TypeOK, NEW i \in Server, NEW j \in Server, Heartbeat(i, j)
    PROVE  SendEffects
<1> DEFINE e == HeartbeatArgs(i, j)
<1>1. DOMAIN net' = DOMAIN net \cup {e}
  BY TypeFacts, BagAddDomain DEF Heartbeat, NetOK
<1>2. /\ IsAppend(e) /\ e.from = i /\ e.term = currentTerm[i] /\ e.prevLogIndex = Len(log[i])
      /\ e.prevLogTerm = LastTerm(log[i]) /\ e.entries = <<>>
      /\ e.leaderCommit = commitIndex[i]
  BY DEF HeartbeatArgs, IsAppend
<1> HIDE DEF e
<1>3. Len(log[i]) \in Nat
  BY TypeFacts, LenProperties
<1>4. NewMatch(e) = Len(log[i])
  BY <1>2, <1>3 DEF NewMatch
<1>5. Carries(e, log[i])
  BY <1>2, <1>3, <1>4 DEF Carries, LastTerm
<1>6. Leads(i, currentTerm[i]) /\ state' = state /\ currentTerm' = currentTerm /\ log' = log
  BY DEF Heartbeat, Leads, volatile
<1>7. NewCall(e)
  BY <1>2, <1>4, <1>5, <1>6 DEF NewCall
<1> QED
  BY <1>1, <1>7 DEF SendEffects

\* replicateToPeer sends a slice of the leader's log, to its end unless it has
\* more than MaxEntries entries to send.
LEMMA EntriesSends ==
    ASSUME TypeOK, NextPositive, NEW i \in Server, NEW j \in Server, SendEntries(i, j)
    PROVE  SendEffects
<1> DEFINE next == nextIndex[i][j]
           last == Min2(Len(log[i]), next + MaxEntries - 1)
<1>1. /\ nextIndex \in Matrix /\ log[i] \in Seq(Entry) /\ Len(log[i]) \in Nat /\ NetOK(net)
  BY TypeFacts, LenProperties
<1>2. next \in Nat /\ next >= 1 /\ next <= Len(log[i]) /\ Leads(i, currentTerm[i])
  BY <1>1 DEF SendEntries, NextPositive, Matrix, Leads
<1>3. /\ last \in Nat /\ next <= last /\ last <= Len(log[i])
      /\ MaxLog <= MaxEntries /\ Len(log[i]) <= MaxLog => last = Len(log[i])
  BY <1>1, <1>2, BoundAssumption DEF Min2
<1>4. PICK e : /\ net' = BagAdd(net, e)
               /\ IsAppend(e) /\ e.from = i /\ e.term = currentTerm[i]
               /\ e.prevLogIndex = next - 1 /\ e.prevLogTerm = TermAt(log[i], next - 1)
               /\ e.entries = SubSeq(log[i], next, last)
               /\ e.leaderCommit = commitIndex[i]
  BY DEF SendEntries, IsAppend
<1>5. state' = state /\ currentTerm' = currentTerm /\ log' = log
  BY DEF SendEntries, volatile
<1> HIDE DEF next, last
<1>6. /\ Len(e.entries) = last - next + 1
      /\ \A k \in 1..Len(e.entries) : e.entries[k] = log[i][(next - 1) + k]
  <2>1. /\ Len(SubSeq(log[i], next, last)) = last - next + 1
        /\ \A k \in 1..(last - next + 1) : SubSeq(log[i], next, last)[k] = log[i][next + k - 1]
    BY <1>1, <1>2, <1>3, SubSeqProperties
  <2>2. \A k \in 1..(last - next + 1) : next + k - 1 = (next - 1) + k
    BY <1>2, <1>3
  <2> QED
    BY <1>4, <2>1, <2>2
<1>7. NewMatch(e) = last
  BY <1>2, <1>3, <1>4, <1>6 DEF NewMatch
<1>8. Carries(e, log[i])
  BY <1>3, <1>4, <1>6, <1>7 DEF Carries
<1>9. NewCall(e)
  BY <1>2, <1>3, <1>4, <1>5, <1>7, <1>8 DEF NewCall
<1>10. DOMAIN net' = DOMAIN net \cup {e}
  BY <1>1, <1>4, BagAddDomain DEF NetOK
<1> QED
  BY <1>9, <1>10 DEF SendEffects

\* A new candidate describes its log to the peers it reaches.
LEMMA CampaignSends ==
    ASSUME TypeOK, NEW i \in Server, ElectionTimeout(i) \/ StaleTimeout(i)
    PROVE  SendEffects
<1>1. currentTerm \in [Server -> Nat]
  BY TypeFacts
<1>2. /\ currentTerm' = [currentTerm EXCEPT ![i] = @ + 1] /\ log' = log
      /\ \/ net' = net
         \/ \E reached \in SUBSET (Server \ {i}) : StartElection(i, reached)
  BY DEF ElectionTimeout, StaleTimeout, BecomeCandidate
<1>3. CASE net' = net
  BY <1>3 DEF SendEffects
<1>4. ASSUME NEW reached \in SUBSET (Server \ {i}), StartElection(i, reached)
      PROVE  SendEffects
  <2>1. DOMAIN net' = DOMAIN net \cup {VoteRequest(i, j) : j \in reached}
    BY <1>4, StartElectionType
  <2>2. ASSUME NEW j \in reached PROVE NewRequest(VoteRequest(i, j))
    <3> DEFINE e == VoteRequest(i, j)
    <3>1. /\ IsRequest(e) /\ e.from = i /\ e.term = currentTerm[i] + 1
          /\ e.lastLogIndex = Len(log[i]) /\ e.lastLogTerm = LastTerm(log[i])
      BY DEF VoteRequest, IsRequest
    <3> HIDE DEF e
    <3>2. currentTerm[i] < e.term /\ currentTerm'[i] = e.term
      BY <1>1, <1>2, <3>1
    <3>3. NewRequest(e)
      BY <1>2, <3>1, <3>2 DEF NewRequest
    <3> QED
      BY <3>3 DEF e
  <2> QED
    BY <2>1, <2>2 DEF SendEffects
<1> QED
  BY <1>2, <1>3, <1>4

\* Every step puts only such messages on the network.
LEMMA StepSends ==
    ASSUME TypeOK, NextPositive, [Next]_vars
    PROVE  SendEffects
<1>0. NetOK(net)
  BY TypeFacts
<1>1. ASSUME DOMAIN net' \subseteq DOMAIN net PROVE SendEffects
  BY <1>1 DEF SendEffects
<1>2. CASE UNCHANGED vars
  BY <1>1, <1>2 DEF vars
<1>3. ASSUME NEW i \in Server, TickerPause(i) \/ StaleRest(i) PROVE SendEffects
  BY <1>1, <1>3 DEF TickerPause, StaleRest
<1>4. ASSUME NEW i \in Server, WinElection(i) \/ Restart(i) PROVE SendEffects
  <2>1. DOMAIN net' \subseteq DOMAIN net
    BY <1>0, <1>4, WithoutDomain DEF WinElection, Restart, WithoutRepliesTo, NetOK
  <2> QED
    BY <1>1, <2>1
<1>5. ASSUME NEW i \in Server, NEW c \in Command, Start(i, c) PROVE SendEffects
  BY <1>1, <1>5 DEF Start
<1>6. ASSUME NEW i \in Server, NEW j \in Server, ReplicatorDone(i, j) PROVE SendEffects
  BY <1>1, <1>6 DEF ReplicatorDone
<1>7. ASSUME NEW m \in DOMAIN net, RejectStaleVote(m) \/ RequestVote(m) PROVE SendEffects
  <2>1. m \in RequestVoteArgs
    BY <1>0, <1>7, MessageKinds DEF RejectStaleVote, RequestVote, NetOK
  <2>2. currentTerm[m.to] \in Nat
    BY <2>1 DEF RequestVoteArgs, TypeOK
  <2>3. \E g \in BOOLEAN : VoteReplyTo(m, currentTerm[m.to], g)
    BY <1>7 DEF RejectStaleVote, RequestVote, CandidateUpToDate
  <2>4. PICK g \in BOOLEAN :
          DOMAIN net' \subseteq DOMAIN net \cup {VoteReplyMsg(m, currentTerm[m.to], g)}
    BY <1>0, <2>1, <2>2, <2>3, VoteReplyNet
  <2>5. VoteReplyMsg(m, currentTerm[m.to], g).type = "VoteReply"
    BY DEF VoteReplyMsg
  <2> QED
    BY <2>4, <2>5 DEF SendEffects
<1>8. ASSUME NEW m \in DOMAIN net, VoteReply(m) \/ AppendReply(m) \/ HeartbeatReplied(m)
      PROVE  SendEffects
  <2>1. Consume(m)
    BY <1>8 DEF VoteReply, AppendReply, HeartbeatReplied
  <2> QED
    BY <1>0, <1>1, <2>1, ConsumeNet
<1>9. ASSUME NEW m \in DOMAIN net, CrashInHandler(m) PROVE SendEffects
  <2>1. IsABag(BagRemove(net, m)) /\ DOMAIN BagRemove(net, m) \subseteq DOMAIN net
    BY <1>0, BagRemoveDomain DEF NetOK
  <2>2. DOMAIN net' \subseteq DOMAIN net
    BY <1>9, <2>1, WithoutDomain DEF CrashInHandler, WithoutRepliesTo
  <2> QED
    BY <1>1, <2>2
<1> QED
  BY <1>2, <1>3, <1>4, <1>5, <1>6, <1>7, <1>8, <1>9, HandlerSends, HeartbeatSends,
     EntriesSends, CampaignSends DEF Next

\* What a leader takes for known of a follower: nothing when it has just won,
\* what it knew, its own log, or the match of a successful answer.
MatchStep(i, j) ==
    \/ matchIndex'[i][j] = 0
    \/ state[i] = Leader /\ matchIndex'[i][j] = matchIndex[i][j]
    \/ i = j /\ matchIndex'[i][j] = Len(log'[i])
    \/ /\ state[i] = Leader
       /\ \E m \in DOMAIN net : /\ IsAnswer(m) /\ m.success = TRUE /\ m.from = j
                                /\ m.term = currentTerm[i] /\ matchIndex'[i][j] = m.match

MatchEffects == \A i, j \in Server : state'[i] = Leader => MatchStep(i, j)

\* Nothing that leaves matchIndex alone and makes no leader is more.
LEMMA MatchKept ==
    ASSUME matchIndex' = matchIndex,
           \A i \in Server : state'[i] = Leader => state[i] = Leader
    PROVE  MatchEffects
BY DEF MatchEffects, MatchStep

\* Every step treats matchIndex so.
LEMMA StepMatches ==
    ASSUME TypeOK, [Next]_vars
    PROVE  MatchEffects
<1>0. /\ NetOK(net) /\ state \in [Server -> {Follower, Candidate, Leader}]
      /\ currentTerm \in [Server -> Nat] /\ log \in [Server -> Seq(Entry)]
      /\ matchIndex \in Matrix
  BY TypeFacts
<1>1. CASE UNCHANGED vars
  BY <1>1, MatchKept DEF vars
<1>2. ASSUME NEW i \in Server, ElectionTimeout(i) \/ StaleTimeout(i) PROVE MatchEffects
  <2>1. state' = [state EXCEPT ![i] = Candidate] /\ matchIndex' = matchIndex
    BY <1>2 DEF ElectionTimeout, StaleTimeout, BecomeCandidate
  <2> QED
    BY <1>0, <2>1, MatchKept DEF Leader, Candidate
<1>3. ASSUME NEW i \in Server, TickerPause(i) \/ StaleRest(i) PROVE MatchEffects
  BY <1>3, MatchKept DEF TickerPause, StaleRest, volatile
<1>4. ASSUME NEW i \in Server, WinElection(i) PROVE MatchEffects
  <2>1. /\ matchIndex' = [matchIndex EXCEPT ![i] = [j \in Server |-> 0]]
        /\ state' = [state EXCEPT ![i] = Leader]
    BY <1>4 DEF WinElection
  <2>2. ASSUME NEW k \in Server, NEW j \in Server, state'[k] = Leader PROVE MatchStep(k, j)
    <3>1. CASE k = i
      BY <1>0, <2>1, <3>1 DEF MatchStep, Matrix
    <3>2. CASE k # i
      BY <1>0, <2>1, <2>2, <3>2 DEF MatchStep, Matrix
    <3> QED
      BY <3>1, <3>2
  <2> QED
    BY <2>2 DEF MatchEffects
<1>5. ASSUME NEW i \in Server, NEW disk, Reboot(i, disk) PROVE MatchEffects
  <2>1. /\ matchIndex' = [matchIndex EXCEPT ![i] = [j \in Server |-> 0]]
        /\ state' = [state EXCEPT ![i] = Follower]
    BY <1>5 DEF Reboot
  <2>2. ASSUME NEW k \in Server, NEW j \in Server, state'[k] = Leader PROVE MatchStep(k, j)
    <3>1. k # i /\ state[k] = Leader
      BY <1>0, <2>1, <2>2 DEF Follower, Leader
    <3> QED
      BY <1>0, <2>1, <3>1 DEF MatchStep, Matrix
  <2> QED
    BY <2>2 DEF MatchEffects
<1>6. ASSUME NEW i \in Server, Restart(i) PROVE MatchEffects
  BY <1>5, <1>6 DEF Restart
<1>7. ASSUME NEW i \in Server, NEW c \in Command, Start(i, c) PROVE MatchEffects
  <2>1. /\ matchIndex' = [matchIndex EXCEPT ![i][i] = Max2(@, Len(log[i]) + 1)]
        /\ state' = state
        /\ log' = [log EXCEPT ![i] = Append(@, [term |-> currentTerm[i], cmd |-> c])]
    BY <1>7 DEF Start
  <2>2. Len(log'[i]) = Len(log[i]) + 1
    <3>1. [term |-> currentTerm[i], cmd |-> c] \in Entry
      BY <1>0 DEF Entry
    <3>2. log'[i] = Append(log[i], [term |-> currentTerm[i], cmd |-> c])
      BY <1>0, <2>1
    <3> QED
      BY <1>0, <3>1, <3>2, AppendProperties
  <2>3. /\ matchIndex'[i][i] = Max2(matchIndex[i][i], Len(log[i]) + 1)
        /\ \A k, j \in Server : k # i \/ j # i => matchIndex'[k][j] = matchIndex[k][j]
    BY <1>0, <2>1 DEF Matrix
  <2>4. matchIndex'[i][i] \in {matchIndex[i][i], Len(log'[i])}
    BY <2>2, <2>3 DEF Max2
  <2>5. ASSUME NEW k \in Server, NEW j \in Server, state'[k] = Leader PROVE MatchStep(k, j)
    <3>1. CASE k = i /\ j = i
      BY <2>1, <2>4, <2>5, <3>1 DEF MatchStep
    <3>2. CASE k # i \/ j # i
      BY <2>1, <2>3, <2>5, <3>2 DEF MatchStep
    <3> QED
      BY <3>1, <3>2
  <2> QED
    BY <2>5 DEF MatchEffects
<1>8. ASSUME NEW i \in Server, NEW j \in Server,
             Heartbeat(i, j) \/ SendEntries(i, j) \/ ReplicatorDone(i, j)
      PROVE  MatchEffects
  BY <1>8, MatchKept DEF Heartbeat, SendEntries, ReplicatorDone, volatile
<1>9. ASSUME NEW m \in DOMAIN net, RejectStaleVote(m) \/ RejectStaleAppend(m)
      PROVE  MatchEffects
  BY <1>9, MatchKept DEF RejectStaleVote, RejectStaleAppend, volatile
<1>10. ASSUME NEW m \in DOMAIN net, NEW t, matchIndex' = matchIndex,
              \/ state' = state \/ state' = [state EXCEPT ![t] = Follower]
       PROVE  MatchEffects
  <2>1. \A k \in Server : state'[k] = Leader => state[k] = Leader
    BY <1>0, <1>10 DEF Follower, Leader
  <2> QED
    BY <1>10, <2>1, MatchKept
<1>11. ASSUME NEW m \in DOMAIN net,
              RequestVote(m) \/ VoteReply(m) \/ HeartbeatReplied(m) \/ AppendEntries(m)
       PROVE  MatchEffects
  <2>1. /\ matchIndex' = matchIndex
        /\ state' = state \/ state' = [state EXCEPT ![m.to] = Follower]
    BY <1>11 DEF RequestVote, VoteReply, HeartbeatReplied, AppendEntries, StepDownIfAbove,
                 BecomeFollower
  <2> QED
    BY <1>10, <2>1
<1>12. ASSUME NEW m \in DOMAIN net, AppendReply(m) PROVE MatchEffects
  <2>1. m \in AppendEntriesReply /\ IsAnswer(m)
    BY <1>0, <1>12, MessageKinds DEF AppendReply, NetOK, IsAnswer
  <2>2. m.to \in Server /\ m.from \in Server /\ m.match \in Nat
    BY <2>1 DEF AppendEntriesReply
  <2>3. CASE /\ matchIndex' = matchIndex
             /\ state' = state \/ state' = [state EXCEPT ![m.to] = Follower]
    BY <1>10, <2>3
  <2>4. CASE /\ state[m.to] = Leader /\ currentTerm[m.to] = m.term /\ m.success /\ state' = state
             /\ matchIndex' = [matchIndex EXCEPT ![m.to][m.from] = Max2(@, m.match)]
    <3>1. /\ matchIndex'[m.to][m.from] = Max2(matchIndex[m.to][m.from], m.match)
          /\ \A k, j \in Server : k # m.to \/ j # m.from => matchIndex'[k][j] = matchIndex[k][j]
      BY <1>0, <2>2, <2>4 DEF Matrix
    <3>2. m.success = TRUE
      BY <2>1, <2>4 DEF AppendEntriesReply
    <3>3. matchIndex'[m.to][m.from] \in {matchIndex[m.to][m.from], m.match}
      BY <3>1 DEF Max2
    <3>4. ASSUME NEW k \in Server, NEW j \in Server, state'[k] = Leader PROVE MatchStep(k, j)
      <4>1. CASE k = m.to /\ j = m.from
        BY <2>1, <2>4, <3>2, <3>3, <3>4, <4>1 DEF MatchStep
      <4>2. CASE k # m.to \/ j # m.from
        BY <2>4, <3>1, <3>4, <4>2 DEF MatchStep
      <4> QED
        BY <4>1, <4>2
    <3> QED
      BY <3>4 DEF MatchEffects
  <2> QED
    BY <1>12, <2>3, <2>4 DEF AppendReply, BecomeFollower
<1>13. ASSUME NEW m \in DOMAIN net, CrashInHandler(m) PROVE MatchEffects
  <2>1. m \in RequestVoteArgs \/ m \in AppendEntriesArgs
    BY <1>0, <1>13, MessageKinds DEF CrashInHandler, NetOK
  <2>2. m.to \in Server
    BY <2>1 DEF RequestVoteArgs, AppendEntriesArgs
  <2> QED
    BY <1>5, <1>13, <2>2 DEF CrashInHandler
<1> QED
  BY <1>1, <1>2, <1>3, <1>4, <1>6, <1>7, <1>8, <1>9, <1>11, <1>12, <1>13 DEF Next

-----------------------------------------------------------------------------
(* The history of the leaders' logs through a step *)

\* A step between states in which what RaftProofs proves holds, and in which no
\* term has two winners.
GoodStep ==
    /\ TypeInv /\ TypeInv' /\ VoteInv /\ LeaderInv /\ LeaderInv'
    /\ OneLeaderPerTerm /\ OneLeaderPerTerm'
    /\ [Next]_vars

\* What such a step does.
LEMMA GoodStepFacts ==
    ASSUME GoodStep
    PROVE  /\ LogEffects /\ SendEffects /\ MatchEffects /\ LeaderEffects
           /\ log \in [Server -> Seq(Entry)] /\ log' \in [Server -> Seq(Entry)]
           /\ currentTerm \in [Server -> Nat] /\ currentTerm' \in [Server -> Nat]
           /\ DOMAIN net \subseteq Message /\ DOMAIN net' \subseteq Message
           /\ \A i \in Server : currentTerm[i] <= currentTerm'[i]
           /\ \A i \in Server : won[i] \subseteq won'[i]
           /\ TermsWon /\ TermsWon' /\ CallsFromWinners /\ CallsFromWinners'
<1>1. LogEffects
  BY StepLogs DEF GoodStep, TypeInv, VoteInv
<1>2. SendEffects
  BY StepSends DEF GoodStep, TypeInv
<1>3. MatchEffects
  BY StepMatches DEF GoodStep, TypeInv
<1>4. LeaderEffects
  BY StepLeaders DEF GoodStep, TypeInv, LeaderInv
<1>5. \A i \in Server : currentTerm[i] <= currentTerm'[i]
  BY StepEffects DEF GoodStep, TypeInv, VoteInv, VoteEffects
<1>6. \A i \in Server : won[i] \subseteq won'[i]
  BY <1>4 DEF LeaderEffects, LeaderStep
<1>7. /\ log \in [Server -> Seq(Entry)] /\ log' \in [Server -> Seq(Entry)]
      /\ currentTerm \in [Server -> Nat] /\ currentTerm' \in [Server -> Nat]
      /\ DOMAIN net \subseteq Message /\ DOMAIN net' \subseteq Message
  BY DEF GoodStep, TypeInv, TypeOK
<1>8. TermsWon /\ TermsWon' /\ CallsFromWinners /\ CallsFromWinners'
  BY DEF GoodStep, LeaderInv
<1> QED
  BY <1>1, <1>2, <1>3, <1>4, <1>5, <1>6, <1>7, <1>8

\* A term that was won stays won.
LEMMA ElectedStays ==
    ASSUME GoodStep, NEW t, Elected(t)
    PROVE  Elected(t)'
BY GoodStepFacts DEF Elected

\* Who leads after a step led before and has at most appended an entry, or has
\* just won a term that nobody had.
LEMMA LeaderWas ==
    ASSUME GoodStep, NEW i \in Server, NEW t \in Nat, NowLeads(i, t)
    PROVE  \/ Leads(i, t) /\ log'[i] = log[i]
           \/ /\ Leads(i, t) /\ Len(log[i]) < MaxLog
              /\ \E c \in Command : log'[i] = Append(log[i], [term |-> t, cmd |-> c])
           \/ /\ state[i] = Candidate /\ currentTerm[i] = t /\ ~Elected(t)
              /\ log'[i] = log[i]
<1>1. state'[i] = Leader /\ currentTerm'[i] = t
  BY DEF Leads, NowLeads
<1>2. LogStep(i) /\ LeaderStep(i)
  BY GoodStepFacts DEF LogEffects, LeaderEffects
<1>3. ASSUME NEW m \in DOMAIN net, Accepts(m), m.to = i PROVE FALSE
  BY <1>1, <1>3 DEF Accepts, Follower, Leader
<1>4. \/ log'[i] = log[i]
      \/ /\ state[i] = Leader /\ currentTerm'[i] = currentTerm[i] /\ Len(log[i]) < MaxLog
         /\ \E c \in Command : log'[i] = Append(log[i], [term |-> currentTerm[i], cmd |-> c])
  BY <1>2, <1>3 DEF LogStep
<1>5. CASE state[i] = Leader /\ currentTerm'[i] = currentTerm[i]
  BY <1>1, <1>4, <1>5 DEF Leads, NowLeads
<1>6. CASE /\ state[i] = Candidate /\ currentTerm'[i] = currentTerm[i]
           /\ won'[i] = won[i] \cup {currentTerm[i]}
  <2>1. t \notin won[i]
    BY <1>1, <1>6, GoodStepFacts DEF TermsWon
  <2>2. t \in won'[i]
    BY <1>1, <1>6
  <2>3. ASSUME NEW j \in Server, j # i PROVE t \notin won[j]
    <3>1. won'[i] \cap won'[j] = {}
      BY <2>3 DEF GoodStep, OneLeaderPerTerm
    <3> QED
      BY <2>2, <2>3, <3>1, GoodStepFacts
  <2>4. ~Elected(t)
    BY <2>1, <2>3 DEF Elected
  <2> QED
    BY <1>1, <1>4, <1>6, <2>4 DEF Leader, Candidate
<1> QED
  BY <1>1, <1>2, <1>5, <1>6 DEF LeaderStep

\* A term has one leader.
LEMMA LeaderUnique ==
    ASSUME GoodStep, NEW i \in Server, NEW j \in Server, NEW t, NowLeads(i, t), NowLeads(j, t)
    PROVE  i = j
<1>1. t \in won'[i] /\ t \in won'[j]
  BY GoodStepFacts DEF TermsWon, NowLeads
<1> QED
  BY <1>1 DEF GoodStep, OneLeaderPerTerm

\* The next history exists.
LEMMA HistoryExists ==
    ASSUME GoodStep, NEW H \in History
    PROVE  \E K : HistoryStep(H, K)
<1> DEFINE lead(t) == {i \in Server : state'[i] = Leader /\ currentTerm'[i] = t}
           K == [t \in Nat |-> IF lead(t) # {} THEN log'[CHOOSE i \in lead(t) : TRUE] ELSE H[t]]
<1>1. \A t, i : i \in lead(t) <=> i \in Server /\ NowLeads(i, t)
  BY DEF Leads, NowLeads
<1>2. \A t \in Nat : K[t] = IF lead(t) # {} THEN log'[CHOOSE i \in lead(t) : TRUE] ELSE H[t]
  OBVIOUS
<1>3. ASSUME NEW t \in Nat
      PROVE  /\ K[t] \in Seq(Entry)
             /\ \/ \E i \in lead(t) : K[t] = log'[i]
                \/ K[t] = H[t] /\ lead(t) = {}
  <2> HIDE DEF K
  <2>1. CASE lead(t) # {}
    <3>1. \E i \in lead(t) : K[t] = log'[i]
      BY <1>2, <2>1
    <3>2. \A i \in lead(t) : log'[i] \in Seq(Entry)
      BY GoodStepFacts
    <3> QED
      BY <3>1, <3>2
  <2>2. CASE lead(t) = {}
    BY <1>2, <2>2 DEF History
  <2> QED
    BY <2>1, <2>2
<1>4. K \in History
  BY <1>3 DEF History
<1> HIDE DEF K, lead
<1>5. \A t \in Nat : \/ \E i \in Server : NowLeads(i, t) /\ K[t] = log'[i]
                     \/ K[t] = H[t] /\ \A i \in Server : ~NowLeads(i, t)
  BY <1>1, <1>3
<1> QED
  BY <1>4, <1>5 DEF HistoryStep

\* What becomes of the log of the leader of term t.
LEMMA HistoryCases ==
    ASSUME GoodStep, NEW H, LeaderLogs(H), NEW K, HistoryStep(H, K), NEW t \in Nat
    PROVE  \/ K[t] = H[t]
           \/ \E c \in Command : K[t] = Append(H[t], [term |-> t, cmd |-> c])
           \/ /\ ~Elected(t) /\ H[t] = <<>>
              /\ \E i \in Server : /\ state[i] = Candidate /\ currentTerm[i] = t
                                   /\ NowLeads(i, t) /\ K[t] = log[i]
<1>1. CASE K[t] = H[t]
  BY <1>1
<1>2. ASSUME NEW i \in Server, NowLeads(i, t), K[t] = log'[i]
      PROVE  \/ K[t] = H[t]
             \/ \E c \in Command : K[t] = Append(H[t], [term |-> t, cmd |-> c])
             \/ /\ ~Elected(t) /\ H[t] = <<>>
                /\ state[i] = Candidate /\ currentTerm[i] = t /\ K[t] = log[i]
  <2>1. CASE Leads(i, t) /\ log'[i] = log[i]
    BY <1>2, <2>1 DEF LeaderLogs, Leads
  <2>2. CASE /\ Leads(i, t)
             /\ \E c \in Command : log'[i] = Append(log[i], [term |-> t, cmd |-> c])
    BY <1>2, <2>2 DEF LeaderLogs, Leads
  <2>3. CASE /\ state[i] = Candidate /\ currentTerm[i] = t /\ ~Elected(t)
             /\ log'[i] = log[i]
    BY <1>2, <2>3 DEF LeaderLogs
  <2> QED
    BY <1>2, <2>1, <2>2, <2>3, LeaderWas
<1> QED
  BY <1>1, <1>2 DEF HistoryStep

\* No leader's log of the history ever loses an entry.
LEMMA HistoryGrows ==
    ASSUME GoodStep, NEW H, LeaderLogs(H), NEW K, HistoryStep(H, K), NEW t \in Nat
    PROVE  /\ H[t] \in Seq(Entry) /\ K[t] \in Seq(Entry)
           /\ Agree(H[t], K[t], Len(H[t]))
<1>1. H[t] \in Seq(Entry) /\ K[t] \in Seq(Entry) /\ Len(H[t]) \in Nat
  BY LenProperties DEF LeaderLogs, HistoryStep, History
<1>2. CASE K[t] = H[t]
  BY <1>1, <1>2, AgreeSelf
<1>3. ASSUME NEW c \in Command, K[t] = Append(H[t], [term |-> t, cmd |-> c])
      PROVE  Agree(H[t], K[t], Len(H[t]))
  <2>1. [term |-> t, cmd |-> c] \in Entry
    BY DEF Entry
  <2> QED
    BY <1>1, <1>3, <2>1, AppendProperties DEF Agree
<1>4. CASE H[t] = <<>>
  <2>1. Len(H[t]) = 0
    BY <1>4
  <2> QED
    BY <1>1, <2>1, AgreeZero
<1>5. \/ K[t] = H[t] \/ H[t] = <<>>
      \/ \E c \in Command : K[t] = Append(H[t], [term |-> t, cmd |-> c])
  BY HistoryCases
<1> QED
  BY <1>1, <1>2, <1>3, <1>4, <1>5

\* What followed the leaders before still does: their logs only grow.
LEMMA FollowsGrows ==
    ASSUME NEW l \in Seq(Entry), NEW H \in History, NEW K \in History, Follows(l, H),
           \A t \in Nat : Agree(H[t], K[t], Len(H[t]))
    PROVE  Follows(l, K)
<1> SUFFICES ASSUME NEW n \in 1..Len(l) PROVE Agree(l, K[l[n].term], n)
  BY DEF Follows
<1> DEFINE t == l[n].term
<1>1. t \in Nat /\ n \in Nat
  BY EntryType, LenProperties
<1>2. Agree(l, H[t], n)
  BY DEF Follows
<1> HIDE DEF t
<1>3. H[t] \in Seq(Entry) /\ K[t] \in Seq(Entry) /\ Len(H[t]) \in Nat /\ n <= Len(H[t])
  BY <1>1, <1>2, LenProperties DEF History, Agree
<1>4. Agree(H[t], K[t], n)
  BY <1>1, <1>3, AgreeDown
<1> QED
  BY <1>2, <1>4, AgreeTrans DEF t

\* A slice of a log is a slice of every extension of it.
LEMMA CarriesGrows ==
    ASSUME NEW m \in AppendEntriesArgs, NEW h \in Seq(Entry), NEW k \in Seq(Entry),
           Carries(m, h), Agree(h, k, Len(h))
    PROVE  Carries(m, k)
<1>1. /\ m.prevLogIndex \in Nat /\ Len(m.entries) \in Nat /\ Len(h) \in Nat /\ Len(k) \in Nat
  BY LenProperties DEF AppendEntriesArgs
<1>2. m.prevLogIndex + Len(m.entries) <= Len(h) /\ Len(h) <= Len(k)
  BY DEF Carries, NewMatch, Agree
<1>3. TermAt(k, m.prevLogIndex) = TermAt(h, m.prevLogIndex)
  <2>1. CASE m.prevLogIndex = 0
    BY <2>1 DEF TermAt
  <2>2. CASE m.prevLogIndex # 0
    <3>1. m.prevLogIndex \in 1..Len(h)
      BY <1>1, <1>2, <2>2
    <3>2. h[m.prevLogIndex] = k[m.prevLogIndex]
      BY <3>1 DEF Agree
    <3> QED
      BY <3>2 DEF TermAt
  <2> QED
    BY <2>1, <2>2
<1>4. ASSUME NEW x \in 1..Len(m.entries) PROVE m.entries[x] = k[m.prevLogIndex + x]
  <2>1. m.prevLogIndex + x \in 1..Len(h)
    BY <1>1, <1>2, <1>4
  <2> QED
    BY <1>1, <2>1 DEF Carries, Agree
<1> QED
  BY <1>1, <1>2, <1>3, <1>4 DEF Carries, NewMatch

\* The history after a step is a history of the leaders' logs.
LEMMA StepLeaderLogs ==
    ASSUME GoodStep, NEW H, LogInv(H), NEW K, HistoryStep(H, K)
    PROVE  LeaderLogs(K)'
<1>1. /\ LeaderLogs(H) /\ H \in History /\ K \in History
      /\ log \in [Server -> Seq(Entry)] /\ currentTerm \in [Server -> Nat]
  BY GoodStepFacts DEF LogInv, LeaderLogs, HistoryStep
<1>2. \A t \in Nat : H[t] \in Seq(Entry) /\ K[t] \in Seq(Entry) /\ Agree(H[t], K[t], Len(H[t]))
  BY <1>1, HistoryGrows
<1>3. ASSUME NEW t \in Nat PROVE Follows(K[t], K) /\ TermsUpTo(K[t], t)
  <2>1. Follows(H[t], K) /\ TermsUpTo(H[t], t)
    BY <1>1, <1>2, FollowsGrows DEF LeaderLogs
  <2>2. ASSUME NEW c \in Command, K[t] = Append(H[t], [term |-> t, cmd |-> c])
        PROVE  Follows(K[t], K) /\ TermsUpTo(K[t], t)
    <3>1. [term |-> t, cmd |-> c] \in Entry
      BY DEF Entry
    <3>2. /\ Len(H[t]) \in Nat /\ Len(K[t]) = Len(H[t]) + 1
          /\ K[t][Len(K[t])].term = t
          /\ \A n \in 1..Len(H[t]) : K[t][n] = H[t][n]
      BY <1>2, <2>2, <3>1, AppendProperties, LenProperties
    <3>3. ASSUME NEW n \in 1..Len(K[t]) PROVE Agree(K[t], K[K[t][n].term], n)
      <4>1. CASE n = Len(K[t])
        BY <1>2, <3>2, <4>1, AgreeSelf
      <4>2. CASE n # Len(K[t])
        <5>1. n \in 1..Len(H[t]) /\ n \in Nat /\ n <= Len(H[t])
          BY <3>2, <3>3, <4>2
        <5>2. Agree(H[t], K[H[t][n].term], n)
          BY <2>1, <5>1 DEF Follows
        <5>3. Agree(K[t], H[t], n)
          BY <1>2, <3>2, <5>1, AgreeDown, AgreeSym
        <5> QED
          BY <3>2, <5>1, <5>2, <5>3, AgreeTrans
      <4> QED
        BY <4>1, <4>2
    <3>4. TermsUpTo(K[t], t)
      BY <2>1, <3>2 DEF TermsUpTo
    <3> QED
      BY <3>3, <3>4 DEF Follows
  <2>3. ASSUME NEW i \in Server, currentTerm[i] = t, K[t] = log[i]
        PROVE  Follows(K[t], K) /\ TermsUpTo(K[t], t)
    <3>1. Follows(log[i], H) /\ TermsUpTo(log[i], t)
      BY <2>3 DEF LogInv
    <3>2. log[i] \in Seq(Entry)
      BY <1>1
    <3>3. Follows(log[i], K)
      BY <1>1, <1>2, <3>1, <3>2, FollowsGrows
    <3> QED
      BY <2>3, <3>1, <3>3
  <2>4. \/ K[t] = H[t]
        \/ \E c \in Command : K[t] = Append(H[t], [term |-> t, cmd |-> c])
        \/ \E i \in Server : currentTerm[i] = t /\ K[t] = log[i]
    <3>1. LeaderLogs(H)
      BY <1>1
    <3>2. \/ K[t] = H[t]
          \/ \E c \in Command : K[t] = Append(H[t], [term |-> t, cmd |-> c])
          \/ /\ ~Elected(t) /\ H[t] = <<>>
             /\ \E i \in Server : /\ state[i] = Candidate /\ currentTerm[i] = t
                                  /\ NowLeads(i, t) /\ K[t] = log[i]
      BY <3>1, HistoryCases
    <3> QED
      BY <3>2
  <2> QED
    BY <2>1, <2>2, <2>3, <2>4
<1>4. ASSUME NEW t \in Nat, ~Elected(t)' PROVE K[t] = <<>>
  <2>1. ~Elected(t)
    BY <1>4, ElectedStays
  <2>2. \A i \in Server : ~NowLeads(i, t)
    BY <1>4, GoodStepFacts DEF Elected, TermsWon, NowLeads
  <2>3. K[t] = H[t]
    BY <2>2 DEF HistoryStep
  <2> QED
    BY <1>1, <2>1, <2>3 DEF LeaderLogs
<1>5. ASSUME NEW i \in Server, state'[i] = Leader PROVE K[currentTerm'[i]] = log'[i]
  <2>1. PICK t \in Nat : t = currentTerm'[i] /\ NowLeads(i, t)
    BY <1>5, GoodStepFacts DEF NowLeads
  <2>2. PICK j \in Server : NowLeads(j, t) /\ K[t] = log'[j]
    BY <2>1 DEF HistoryStep
  <2>3. j = i
    BY <2>1, <2>2, LeaderUnique
  <2> QED
    BY <2>1, <2>2, <2>3
<1> QED
  BY <1>1, <1>3, <1>4, <1>5 DEF LeaderLogs, Elected

\* An accepted call came from the history.
LEMMA AcceptFacts ==
    ASSUME GoodStep, NEW H, LogInv(H), NEW m \in DOMAIN net, Accepts(m)
    PROVE  /\ m \in AppendEntriesArgs /\ m.to \in Server /\ m.term \in Nat
           /\ NewMatch(m) \in Nat /\ NewMatch(m) <= Len(H[m.term])
           /\ H[m.term] \in Seq(Entry) /\ Elected(m.term)
           /\ currentTerm[m.to] <= m.term /\ currentTerm'[m.to] = m.term
           /\ Agree(log'[m.to], H[m.term], NewMatch(m))
           /\ log'[m.to] = log[m.to] \/ Len(log'[m.to]) = NewMatch(m)
           /\ \A n \in Nat : Agree(log[m.to], H[m.term], n) => Agree(log'[m.to], H[m.term], n)
<1>1. m \in AppendEntriesArgs
  BY GoodStepFacts, MessageKinds DEF Accepts, IsAppend
<1>2. /\ m.to \in Server /\ m.term \in Nat /\ m.prevLogIndex \in Nat
      /\ m.entries \in Seq(Entry) /\ Len(m.entries) \in Nat
  BY <1>1, LenProperties DEF AppendEntriesArgs
<1>3. NewMatch(m) \in Nat
  BY <1>2 DEF NewMatch
<1>4. H \in History /\ H[m.term] \in Seq(Entry) /\ Follows(H[m.term], H)
  BY <1>2 DEF LogInv, LeaderLogs, History
<1>5. Carries(m, H[m.term])
  BY DEF LogInv, Accepts
<1>6. log[m.to] \in Seq(Entry) /\ Follows(log[m.to], H)
  BY <1>2, GoodStepFacts DEF LogInv
<1>7. PrevMatches(m, log[m.to]) /\ log'[m.to] = MergedLog(log[m.to], m.prevLogIndex, m.entries)
  BY DEF Accepts
<1>8. /\ Agree(log'[m.to], H[m.term], NewMatch(m))
      /\ log'[m.to] = log[m.to] \/ Len(log'[m.to]) = NewMatch(m)
      /\ \A n \in Nat : Agree(log[m.to], H[m.term], n) => Agree(log'[m.to], H[m.term], n)
  BY <1>1, <1>4, <1>5, <1>6, <1>7, MergeAgrees
<1>9. Elected(m.term)
  BY GoodStepFacts DEF CallsFromWinners, Accepts, Elected
<1>10. currentTerm[m.to] <= m.term /\ currentTerm'[m.to] = m.term
  BY <1>2, GoodStepFacts DEF Accepts
<1> QED
  BY <1>1, <1>2, <1>3, <1>4, <1>5, <1>8, <1>9, <1>10 DEF Carries

\* The logs after a step follow the history after it.
LEMMA StepLogInv ==
    ASSUME GoodStep, NEW H, LogInv(H), NEW K, HistoryStep(H, K)
    PROVE  LogInv(K)'
<1>1. /\ LeaderLogs(H) /\ H \in History /\ K \in History
      /\ log \in [Server -> Seq(Entry)] /\ log' \in [Server -> Seq(Entry)]
      /\ currentTerm \in [Server -> Nat] /\ currentTerm' \in [Server -> Nat]
      /\ \A i \in Server : currentTerm[i] <= currentTerm'[i]
  BY GoodStepFacts DEF LogInv, LeaderLogs, HistoryStep
<1>2. \A t \in Nat : H[t] \in Seq(Entry) /\ K[t] \in Seq(Entry) /\ Agree(H[t], K[t], Len(H[t]))
  BY <1>1, HistoryGrows
<1>3. LeaderLogs(K)'
  BY StepLeaderLogs
<1>4. ASSUME NEW i \in Server
      PROVE  Follows(log'[i], K) /\ TermsUpTo(log'[i], currentTerm'[i])
  <2>1. /\ log[i] \in Seq(Entry) /\ log'[i] \in Seq(Entry)
        /\ currentTerm[i] \in Nat /\ currentTerm'[i] \in Nat /\ currentTerm[i] <= currentTerm'[i]
    BY <1>1
  <2>2. CASE log'[i] = log[i]
    <3>1. Follows(log[i], H) /\ TermsUpTo(log[i], currentTerm[i])
      BY DEF LogInv
    <3>2. Follows(log[i], K)
      BY <1>1, <1>2, <2>1, <3>1, FollowsGrows
    <3>3. \A n \in 1..Len(log[i]) : log[i][n].term \in Nat
      BY <2>1, EntryType
    <3>4. TermsUpTo(log[i], currentTerm'[i])
      BY <2>1, <3>1, <3>3 DEF TermsUpTo
    <3> QED
      BY <2>2, <3>2, <3>4
  <2>3. CASE state'[i] = Leader
    <3>1. K[currentTerm'[i]] = log'[i]
      BY <1>3, <2>3 DEF LeaderLogs
    <3> QED
      BY <1>3, <2>1, <3>1 DEF LeaderLogs
  <2>4. ASSUME NEW m \in DOMAIN net, Accepts(m), m.to = i, log'[i] # log[i]
        PROVE  Follows(log'[i], K) /\ TermsUpTo(log'[i], currentTerm'[i])
    <3> DEFINE h == H[m.term]
    <3>1. /\ h \in Seq(Entry) /\ m.term \in Nat /\ currentTerm'[i] = m.term
          /\ Agree(log'[i], h, Len(log'[i]))
      BY <2>4, AcceptFacts
    <3>2. Follows(h, H) /\ TermsUpTo(h, m.term)
      BY <1>1, <3>1 DEF LeaderLogs
    <3> HIDE DEF h
    <3>3. Follows(log'[i], H) /\ TermsUpTo(log'[i], m.term)
      BY <1>1, <2>1, <3>1, <3>2, FollowsAgreeing, TermsAgreeing
    <3>4. Follows(log'[i], K)
      BY <1>1, <1>2, <2>1, <3>3, FollowsGrows
    <3> QED
      BY <3>1, <3>3, <3>4
  <2>5. LogStep(i)
    BY GoodStepFacts DEF LogEffects
  <2> QED
    BY <2>2, <2>3, <2>4, <2>5 DEF LogStep
<1>5. ASSUME NEW m \in DOMAIN net', IsAppend(m) PROVE Carries(m, K[m.term])
  <2>1. m \in AppendEntriesArgs
    BY <1>5, GoodStepFacts, MessageKinds DEF IsAppend
  <2>2. m.term \in Nat
    BY <2>1 DEF AppendEntriesArgs
  <2>3. Carries(m, H[m.term])
    <3>1. CASE m \in DOMAIN net
      BY <1>5, <3>1 DEF LogInv
    <3>2. CASE NewCall(m)
      BY <1>1, <3>2 DEF NewCall, LeaderLogs, Leads
    <3> QED
      BY <1>5, <3>1, <3>2, GoodStepFacts DEF SendEffects, NewAnswer, NewRequest, IsAppend,
                                             IsAnswer, IsRequest
  <2> QED
    BY <1>2, <2>1, <2>2, <2>3, CarriesGrows
<1> QED
  BY <1>3, <1>4, <1>5 DEF LogInv, IsAppend

-----------------------------------------------------------------------------
(* The history of the reported agreements through a step *)

\* The next history exists.
LEMMA AcksExist ==
    ASSUME NEW A \in Acks
    PROVE  \E D : AckStep(A, D)
<1> DEFINE new(v, t) ==
             {n \in Nat : \/ \E m \in DOMAIN net : /\ Accepts(m) /\ m.to = v /\ m.term = t
                                                  /\ n <= NewMatch(m)
                          \/ NowLeads(v, t) /\ n <= Len(log'[v])}
           D == [v \in Server |-> [t \in Nat |-> A[v][t] \cup new(v, t)]]
<1>1. \A v, t : \A n \in Nat :
          n \in new(v, t) <=> \/ \E m \in DOMAIN net : /\ Accepts(m) /\ m.to = v /\ m.term = t
                                                       /\ n <= NewMatch(m)
                              \/ NowLeads(v, t) /\ n <= Len(log'[v])
  OBVIOUS
<1>2. \A v, t : new(v, t) \subseteq Nat
  OBVIOUS
<1> HIDE DEF new
<1>3. \A v \in Server, t \in Nat : D[v][t] = A[v][t] \cup new(v, t)
  OBVIOUS
<1>4. D \in Acks
  BY <1>2 DEF Acks
<1> HIDE DEF D
<1> QED
  BY <1>1, <1>3, <1>4 DEF AckStep

\* What a leader lacks, it lacks for ever: it only appends entries of its own
\* term.
LEMMA LostStays ==
    ASSUME GoodStep, NEW H, LogInv(H), NEW K, HistoryStep(H, K),
           NEW t \in Nat, NEW n \in Nat, n <= Len(H[t]),
           NEW u \in Nat, Lost(ElectedTerms, H, t, n, u)
    PROVE  \A w \in Nat : u <= w => Lost(ElectedTerms', K, t, n, w)
<1>1. PICK s \in ElectedTerms : t < s /\ s <= u /\ ~Agree(H[s], H[t], n)
  BY DEF Lost
<1>2. s \in Nat /\ Elected(s) /\ s \in ElectedTerms'
  BY <1>1, ElectedStays DEF ElectedTerms
<1>3. LeaderLogs(H)
  BY DEF LogInv
<1>4. /\ H[s] \in Seq(Entry) /\ K[s] \in Seq(Entry) /\ Agree(H[s], K[s], Len(H[s]))
      /\ H[t] \in Seq(Entry) /\ K[t] \in Seq(Entry) /\ Agree(H[t], K[t], Len(H[t]))
      /\ Len(H[s]) \in Nat /\ Len(K[s]) \in Nat /\ Len(H[t]) \in Nat
  BY <1>2, <1>3, HistoryGrows, LenProperties
<1>5. Agree(H[t], K[t], n)
  BY <1>4, AgreeDown
<1>6. ASSUME Agree(K[s], K[t], n) PROVE FALSE
  <2>1. Agree(K[s], H[t], n)
    BY <1>5, <1>6, AgreeSym, AgreeTrans
  <2>2. CASE n <= Len(H[s])
    <3>1. Agree(H[s], K[s], n)
      BY <1>4, <2>2, AgreeDown
    <3> QED
      BY <1>1, <2>1, <3>1, AgreeTrans
  <2>3. CASE n > Len(H[s])
    <3>1. K[s] # H[s]
      BY <1>4, <2>1, <2>3 DEF Agree
    <3>2. PICK c \in Command : K[s] = Append(H[s], [term |-> s, cmd |-> c])
      <4>1. \/ K[s] = H[s]
            \/ \E c \in Command : K[s] = Append(H[s], [term |-> s, cmd |-> c])
            \/ ~Elected(s)
        BY <1>2, <1>3, HistoryCases
      <4> QED
        BY <1>2, <3>1, <4>1
    <3>3. [term |-> s, cmd |-> c] \in Entry
      BY <1>2 DEF Entry
    <3>4. Len(K[s]) = Len(H[s]) + 1 /\ K[s][Len(K[s])].term = s
      BY <1>4, <3>2, <3>3, AppendProperties
    <3>5. n = Len(K[s]) /\ n >= 1
      BY <1>4, <2>1, <2>3, <3>4 DEF Agree
    <3>6. H[t][n].term = s /\ n \in 1..Len(H[t])
      BY <1>4, <2>1, <3>4, <3>5 DEF Agree
    <3>7. H[t][n].term <= t
      BY <1>3, <3>6 DEF LeaderLogs, TermsUpTo
    <3> QED
      BY <1>1, <1>2, <3>6, <3>7
  <2> QED
    BY <1>4, <2>2, <2>3
<1>7. ASSUME NEW w \in Nat, u <= w PROVE s <= w
  BY <1>1, <1>2, <1>7
<1> QED
  BY <1>1, <1>2, <1>6, <1>7 DEF Lost

\* A peer that had the entries up to n of the leader of t keeps them, or a
\* later leader without them has been elected.
LEMMA AgreementKept ==
    ASSUME GoodStep, NEW H, LogInv(H), NEW v \in Server, NEW t \in Nat, NEW n \in Nat,
           t <= currentTerm[v], Agree(log[v], H[t], n)
    PROVE  \/ Agree(log'[v], H[t], n)
           \/ \E s \in ElectedTerms : t < s /\ s = currentTerm'[v] /\ ~Agree(H[s], H[t], n)
<1>1. /\ log[v] \in Seq(Entry) /\ log'[v] \in Seq(Entry) /\ Len(log[v]) \in Nat
      /\ currentTerm[v] \in Nat /\ H[t] \in Seq(Entry) /\ n <= Len(log[v])
  BY GoodStepFacts, LenProperties DEF LogInv, LeaderLogs, History, Agree
<1>2. CASE log'[v] = log[v]
  BY <1>2
<1>3. ASSUME NEW c \in Command, log'[v] = Append(log[v], [term |-> currentTerm[v], cmd |-> c])
      PROVE  Agree(log'[v], H[t], n)
  <2>1. [term |-> currentTerm[v], cmd |-> c] \in Entry
    BY <1>1 DEF Entry
  <2>2. /\ Len(log'[v]) = Len(log[v]) + 1
        /\ \A k \in 1..Len(log[v]) : log'[v][k] = log[v][k]
    BY <1>1, <1>3, <2>1, AppendProperties
  <2>3. Agree(log'[v], log[v], n)
    BY <1>1, <2>2 DEF Agree
  <2> QED
    BY <2>3, AgreeTrans
<1>4. ASSUME NEW m \in DOMAIN net, Accepts(m), m.to = v
      PROVE  \/ Agree(log'[v], H[t], n)
             \/ \E s \in ElectedTerms : t < s /\ s = currentTerm'[v] /\ ~Agree(H[s], H[t], n)
  <2> DEFINE s == m.term
  <2>1. /\ s \in Nat /\ Elected(s) /\ currentTerm[v] <= s /\ currentTerm'[v] = s
        /\ \A k \in Nat : Agree(log[v], H[s], k) => Agree(log'[v], H[s], k)
    BY <1>4, AcceptFacts
  <2>2. s \in ElectedTerms /\ t <= s
    BY <1>1, <2>1 DEF ElectedTerms
  <2> HIDE DEF s
  <2>3. CASE Agree(H[s], H[t], n)
    <3>1. Agree(log[v], H[s], n)
      BY <2>3, AgreeSym, AgreeTrans
    <3>2. Agree(log'[v], H[s], n)
      BY <2>1, <3>1
    <3> QED
      BY <2>3, <3>2, AgreeTrans
  <2>4. CASE ~Agree(H[s], H[t], n)
    <3>1. s # t
      <4>1. Agree(H[t], H[t], n)
        BY <1>1, AgreeSelf DEF Agree
      <4> QED
        BY <2>4, <4>1
    <3> QED
      BY <2>1, <2>2, <2>4, <3>1
  <2> QED
    BY <2>3, <2>4
<1> QED
  BY <1>2, <1>3, <1>4, GoodStepFacts DEF LogEffects, LogStep

\* What was reported is kept through a step.
LEMMA StepAcksKept ==
    ASSUME GoodStep, NEW H, LogInv(H), NEW K, HistoryStep(H, K),
           NEW A, AckInv(H, A), NEW D, AckStep(A, D)
    PROVE  AcksKept(K, D)'
<1>1. /\ log \in [Server -> Seq(Entry)] /\ log' \in [Server -> Seq(Entry)]
      /\ currentTerm \in [Server -> Nat] /\ currentTerm' \in [Server -> Nat]
      /\ \A i \in Server : currentTerm[i] <= currentTerm'[i]
      /\ A \in Acks /\ D \in Acks /\ LeaderLogs(H)
  BY GoodStepFacts DEF AckInv, AckStep, LogInv
<1>2. \A t \in Nat : /\ H[t] \in Seq(Entry) /\ K[t] \in Seq(Entry)
                     /\ Agree(H[t], K[t], Len(H[t]))
                     /\ Len(H[t]) \in Nat /\ Len(K[t]) \in Nat /\ Len(H[t]) <= Len(K[t])
  BY <1>1, HistoryGrows, LenProperties DEF Agree
<1> SUFFICES ASSUME NEW v \in Server, NEW t \in Nat, NEW n \in D[v][t]
             PROVE  /\ t <= currentTerm'[v] /\ n <= Len(K[t])
                    /\ \A k \in Nat : k <= n => k \in D[v][t]
                    /\ \/ Agree(log'[v], K[t], n)
                       \/ Lost(ElectedTerms', K, t, n, currentTerm'[v])
  BY DEF AcksKept
<1>3. n \in Nat /\ currentTerm[v] \in Nat /\ currentTerm'[v] \in Nat
  BY <1>1 DEF Acks
<1>4. ASSUME Agree(log'[v], H[t], n), n <= Len(H[t]) PROVE Agree(log'[v], K[t], n)
  <2>1. Agree(H[t], K[t], n)
    BY <1>2, <1>3, <1>4, AgreeDown
  <2> QED
    BY <1>4, <2>1, AgreeTrans
<1>5. CASE n \in A[v][t]
  <2>1. /\ t <= currentTerm[v] /\ n <= Len(H[t])
        /\ \A k \in Nat : k <= n => k \in A[v][t]
        /\ Agree(log[v], H[t], n) \/ Lost(ElectedTerms, H, t, n, currentTerm[v])
    BY <1>5 DEF AckInv, AcksKept
  <2>2. \A k \in Nat : k <= n => k \in D[v][t]
    BY <2>1 DEF AckStep
  <2>3. t <= currentTerm'[v] /\ n <= Len(K[t])
    BY <1>1, <1>2, <1>3, <2>1
  <2>4. CASE Lost(ElectedTerms, H, t, n, currentTerm[v])
    <3>1. Lost(ElectedTerms', K, t, n, currentTerm'[v])
      BY <1>1, <1>3, <2>1, <2>4, LostStays
    <3> QED
      BY <2>2, <2>3, <3>1
  <2>5. CASE Agree(log[v], H[t], n)
    <3>1. CASE Agree(log'[v], H[t], n)
      BY <1>4, <2>1, <2>2, <2>3, <3>1
    <3>2. ASSUME NEW s \in ElectedTerms, t < s, s = currentTerm'[v], ~Agree(H[s], H[t], n)
          PROVE  Lost(ElectedTerms', K, t, n, currentTerm'[v])
      <4>1. Lost(ElectedTerms, H, t, n, currentTerm'[v])
        BY <1>3, <3>2 DEF Lost
      <4> QED
        BY <1>3, <2>1, <4>1, LostStays
    <3> QED
      BY <1>3, <2>1, <2>2, <2>3, <2>5, <3>1, <3>2, AgreementKept
  <2> QED
    BY <2>1, <2>4, <2>5
<1>6. ASSUME NEW m \in DOMAIN net, Accepts(m), m.to = v, m.term = t, n <= NewMatch(m)
      PROVE  /\ t <= currentTerm'[v] /\ n <= Len(K[t])
             /\ \A k \in Nat : k <= n => k \in D[v][t]
             /\ Agree(log'[v], K[t], n)
  <2>1. /\ NewMatch(m) \in Nat /\ NewMatch(m) <= Len(H[t]) /\ currentTerm'[v] = t
        /\ Agree(log'[v], H[t], NewMatch(m))
    BY <1>6, AcceptFacts
  <2>2. Agree(log'[v], H[t], n) /\ n <= Len(H[t])
    BY <1>1, <1>2, <1>3, <1>6, <2>1, AgreeDown
  <2>3. ASSUME NEW k \in Nat, k <= n PROVE k \in D[v][t]
    <3>1. k <= NewMatch(m)
      BY <1>3, <1>6, <2>1, <2>3
    <3> QED
      BY <1>6, <3>1 DEF AckStep
  <2> QED
    BY <1>2, <1>3, <1>4, <2>1, <2>2, <2>3
<1>7. CASE NowLeads(v, t) /\ n <= Len(log'[v])
  <2>1. state'[v] = Leader /\ currentTerm'[v] = t
    BY <1>7 DEF NowLeads
  <2>2. K[t] = log'[v]
    BY <2>1, StepLeaderLogs DEF LeaderLogs
  <2>3. Agree(log'[v], K[t], n)
    BY <1>2, <1>3, <1>7, <2>2, AgreeSelf
  <2>4. ASSUME NEW k \in Nat, k <= n PROVE k \in D[v][t]
    <3>1. k <= Len(log'[v])
      BY <1>2, <1>3, <1>7, <2>2, <2>4
    <3> QED
      BY <1>7, <3>1 DEF AckStep
  <2> QED
    BY <1>3, <1>7, <2>1, <2>2, <2>3, <2>4
<1> QED
  BY <1>3, <1>5, <1>6, <1>7 DEF AckStep

\* What a leader counts on after a step was reported.
LEMMA StepAcksCounted ==
    ASSUME GoodStep, NEW H, NEW A, AckInv(H, A), NEW D, AckStep(A, D)
    PROVE  AcksCounted(D)'
<1> SUFFICES ASSUME NEW i \in Server, state'[i] = Leader
             PROVE  /\ Len(log'[i]) \in D[i][currentTerm'[i]]
                    /\ \A j \in Server : \/ matchIndex'[i][j] = 0
                                         \/ matchIndex'[i][j] \in D[j][currentTerm'[i]]
  BY DEF AcksCounted
<1>1. PICK t \in Nat : t = currentTerm'[i] /\ NowLeads(i, t)
  BY GoodStepFacts DEF NowLeads
<1>2. Len(log'[i]) \in Nat /\ log'[i] \in Seq(Entry) /\ A \in Acks
  BY GoodStepFacts, LenProperties DEF AckInv
<1>3. Len(log'[i]) \in D[i][t]
  BY <1>1, <1>2 DEF AckStep
<1>4. \A v \in Server : A[v][t] \subseteq D[v][t]
  BY <1>2 DEF AckStep, Acks
<1>5. state[i] = Leader => currentTerm[i] = t
  BY <1>1, LeaderWas DEF Leads, Leader, Candidate
<1>6. ASSUME NEW j \in Server PROVE matchIndex'[i][j] = 0 \/ matchIndex'[i][j] \in D[j][t]
  <2>1. CASE state[i] = Leader /\ matchIndex'[i][j] = matchIndex[i][j]
    BY <1>4, <1>5, <2>1 DEF AckInv, AcksCounted
  <2>2. CASE i = j /\ matchIndex'[i][j] = Len(log'[i])
    BY <1>3, <2>2
  <2>3. ASSUME state[i] = Leader, NEW m \in DOMAIN net, IsAnswer(m), m.success = TRUE,
               m.from = j, m.term = currentTerm[i], matchIndex'[i][j] = m.match
        PROVE  matchIndex'[i][j] \in D[j][t]
    BY <1>4, <1>5, <2>3 DEF AckInv, AcksSent
  <2>4. MatchStep(i, j)
    BY GoodStepFacts DEF MatchEffects
  <2> QED
    BY <2>1, <2>2, <2>3, <2>4 DEF MatchStep
<1> QED
  BY <1>1, <1>3, <1>6

\* So was what the answers under way report.
LEMMA StepAcksSent ==
    ASSUME GoodStep, NEW H, LogInv(H), NEW A, AckInv(H, A), NEW D, AckStep(A, D)
    PROVE  AcksSent(D)'
<1> SUFFICES ASSUME NEW m \in DOMAIN net', IsAnswer(m), m.success = TRUE
             PROVE  m.match \in D[m.from][m.term]
  BY DEF AcksSent, IsAnswer
<1>1. m \in AppendEntriesReply
  BY GoodStepFacts, MessageKinds DEF IsAnswer
<1>2. m.from \in Server /\ m.term \in Nat /\ m.match \in Nat
  BY <1>1 DEF AppendEntriesReply
<1>3. CASE m \in DOMAIN net
  BY <1>2, <1>3 DEF AckInv, AcksSent, AckStep
<1>4. CASE NewAnswer(m)
  <2>1. PICK r \in DOMAIN net : Accepts(r) /\ r.to = m.from /\ r.term = m.term /\ NewMatch(r) = m.match
    BY <1>4 DEF NewAnswer
  <2> QED
    BY <1>2, <2>1 DEF AckStep
<1> QED
  BY <1>3, <1>4, GoodStepFacts DEF SendEffects, NewCall, NewRequest, IsAppend, IsAnswer, IsRequest

LEMMA StepAckInv ==
    ASSUME GoodStep, NEW H, LogInv(H), NEW K, HistoryStep(H, K),
           NEW A, AckInv(H, A), NEW D, AckStep(A, D)
    PROVE  AckInv(K, D)'
<1>1. D \in Acks
  BY DEF AckStep
<1> QED
  BY <1>1, StepAcksKept, StepAcksCounted, StepAcksSent DEF AckInv

-----------------------------------------------------------------------------
(* The invariant *)

HasHistory == \E H, A : LogInv(H) /\ AckInv(H, A)

\* Where nobody has voted twice there are such histories.
LogHistory == NoRevote => HasHistory

\* Where nobody has voted twice after a step, nobody had before, and neither
\* state has two winners of a term.
LEMMA NoRevoteStep ==
    ASSUME TypeInv, TypeInv', VoteInv, LeaderInv, LeaderInv', ElectionSafety, ElectionSafety',
           [Next]_vars, NoRevote'
    PROVE  NoRevote /\ GoodStep
<1>1. cast \subseteq cast'
  BY StepEffects DEF TypeInv, VoteInv, VoteEffects
<1>2. NoRevote
  BY <1>1 DEF NoRevote
<1> QED
  BY <1>2 DEF GoodStep, ElectionSafety, OneLeaderPerTerm

\* Nothing has happened yet: the empty histories are the ones.
LEMMA InitHistory ==
    ASSUME Init
    PROVE  /\ LogInv([t \in Nat |-> <<>>])
           /\ AckInv([t \in Nat |-> <<>>], [v \in Server |-> [t \in Nat |-> {}]])
<1> DEFINE H == [t \in Nat |-> <<>>]
           A == [v \in Server |-> [t \in Nat |-> {}]]
<1>1. /\ \A i \in Server : log[i] = <<>> /\ state[i] = Follower /\ currentTerm[i] = 0
      /\ DOMAIN net = {}
  BY DEF Init, EmptyBag, SetToBag
<1>2. H \in History /\ A \in Acks /\ \A t \in Nat : H[t] = <<>>
  BY DEF History, Acks
<1>3. \A v \in Server, t \in Nat : A[v][t] = {}
  OBVIOUS
<1> HIDE DEF H, A
<1>4. \A K, t : Follows(<<>>, K) /\ TermsUpTo(<<>>, t)
  BY DEF Follows, TermsUpTo
<1>5. LogInv(H)
  BY <1>1, <1>2, <1>4 DEF LogInv, LeaderLogs, Leader, Follower
<1>6. AckInv(H, A)
  BY <1>1, <1>2, <1>3 DEF AckInv, AcksKept, AcksCounted, AcksSent, Leader, Follower
<1> QED
  BY <1>5, <1>6 DEF H, A

\* The inductive invariant behind LogMatching and MatchIndexIsTrue: at any time
\* the logs, the calls and the successes under way are explained by what the
\* leader of each term had in its log.
THEOREM RaftLogHistory == Spec => []LogHistory
<1>1. Init => LogHistory
  BY InitHistory DEF LogHistory, HasHistory
<1>2. (/\ TypeInv /\ TypeInv' /\ VoteInv /\ LeaderInv /\ LeaderInv'
       /\ ElectionSafety /\ ElectionSafety' /\ LogHistory /\ [Next]_vars)
        => LogHistory'
  <2> SUFFICES ASSUME TypeInv, TypeInv', VoteInv, LeaderInv, LeaderInv', ElectionSafety,
                      ElectionSafety', LogHistory, [Next]_vars
               PROVE  LogHistory'
    OBVIOUS
  <2>1. ASSUME NoRevote'
        PROVE  HasHistory'
    <3>1. NoRevote /\ GoodStep
      BY <2>1, NoRevoteStep
    <3>2. PICK H, A : LogInv(H) /\ AckInv(H, A)
      BY <3>1 DEF LogHistory, HasHistory
    <3>3. H \in History /\ A \in Acks
      BY <3>2 DEF LogInv, LeaderLogs, AckInv
    <3>4. PICK K : HistoryStep(H, K)
      BY <3>1, <3>3, HistoryExists
    <3>5. PICK D : AckStep(A, D)
      BY <3>3, AcksExist
    <3>6. LogInv(K)' /\ AckInv(K, D)'
      BY <3>1, <3>2, <3>4, <3>5, StepLogInv, StepAckInv
    <3> QED
      BY <3>6 DEF HasHistory, LogInv, LeaderLogs, AckInv, AcksKept, AcksCounted, AcksSent,
                  Elected, ElectedTerms
  <2> QED
    BY <2>1 DEF LogHistory
<1> QED
  BY <1>1, <1>2, RaftTypeInv, RaftVoteInv, RaftLeaderInv, RaftElectionSafety, PTL DEF Spec

-----------------------------------------------------------------------------
(* What follows from it *)

\* Agreement up to n in the words of the properties.
LEMMA AgreePrefix ==
    ASSUME NEW l \in Seq(Entry), NEW h \in Seq(Entry), NEW n \in Nat, Agree(l, h, n)
    PROVE  Prefix(l, n) = Prefix(h, n)
<1>1. Len(l) \in Nat /\ Len(h) \in Nat /\ n <= Len(l) /\ n <= Len(h)
  BY LenProperties DEF Agree
<1> DEFINE a == SubSeq(l, 1, n)
           b == SubSeq(h, 1, n)
<1>2. /\ a \in Seq(Entry) /\ b \in Seq(Entry) /\ Len(a) = n /\ Len(b) = n
      /\ \A k \in 1..n : a[k] = l[k] /\ b[k] = h[k]
  BY <1>1, SubSeqProperties
<1> HIDE DEF a, b
<1>3. a = b
  BY <1>2, SeqEqual DEF Agree
<1> QED
  BY <1>3 DEF Prefix, a, b

\* Log matching among any number of peers, as long as no peer votes twice in a
\* term: whatever AppendEntries calls are lost, late or reordered and whoever
\* crashes, two logs with the same term at an index are equal up to it.
THEOREM RaftLogMatching == Spec => []LogMatching
<1>1. TypeOK /\ LogHistory => LogMatching
  <2> SUFFICES ASSUME TypeOK, LogHistory, NoRevote, NEW i \in Server, NEW j \in Server,
                      NEW n \in 1..Min2(Len(log[i]), Len(log[j])),
                      log[i][n].term = log[j][n].term
               PROVE  Prefix(log[i], n) = Prefix(log[j], n)
    BY DEF LogMatching
  <2>1. PICK H, A : LogInv(H)
    BY DEF LogHistory, HasHistory
  <2>2. /\ log[i] \in Seq(Entry) /\ log[j] \in Seq(Entry)
        /\ Len(log[i]) \in Nat /\ Len(log[j]) \in Nat
    BY TypeFacts, LenProperties
  <2>3. n \in Nat /\ n >= 1 /\ n <= Len(log[i]) /\ n <= Len(log[j])
    BY <2>2 DEF Min2
  <2>4. Follows(log[i], H) /\ Follows(log[j], H)
    BY <2>1 DEF LogInv
  <2>5. Agree(log[i], log[j], n)
    BY <2>2, <2>3, <2>4, SameTermAgrees
  <2> QED
    BY <2>2, <2>3, <2>5, AgreePrefix
<1> QED
  BY <1>1, RaftTypeCorrect, RaftLogHistory, PTL

\* What tryAdvanceCommitLocked counts is true, among any number of peers, as
\* long as no peer votes twice in a term: a follower still in the leader's term
\* has the leader's log up to matchIndex, whichever of the racing replicateToPeer
\* goroutines reported it and in whatever order.
THEOREM RaftMatchIndex == Spec => []MatchIndexIsTrue
<1>1. TypeOK /\ LogHistory => MatchIndexIsTrue
  <2> SUFFICES ASSUME TypeOK, LogHistory, NoRevote, NEW i \in Server, NEW j \in Server,
                      state[i] = Leader, currentTerm[j] = currentTerm[i]
               PROVE  /\ matchIndex[i][j] <= Len(log[i])
                      /\ matchIndex[i][j] <= Len(log[j])
                      /\ Prefix(log[j], matchIndex[i][j]) = Prefix(log[i], matchIndex[i][j])
    BY DEF MatchIndexIsTrue
  <2>1. PICK H, A : LogInv(H) /\ AckInv(H, A)
    BY DEF LogHistory, HasHistory
  <2>2. /\ log[i] \in Seq(Entry) /\ log[j] \in Seq(Entry) /\ currentTerm[i] \in Nat
    BY TypeFacts
  <2>3. matchIndex[i][j] \in Nat
    BY TypeFacts DEF Matrix
  <2>4. H[currentTerm[i]] = log[i]
    BY <2>1 DEF LogInv, LeaderLogs
  <2>5. Agree(log[j], log[i], matchIndex[i][j])
    <3>1. CASE matchIndex[i][j] = 0
      BY <2>2, <3>1, AgreeZero
    <3>2. CASE matchIndex[i][j] \in A[j][currentTerm[i]]
      <4>1. \/ Agree(log[j], H[currentTerm[i]], matchIndex[i][j])
            \/ Lost(ElectedTerms, H, currentTerm[i], matchIndex[i][j], currentTerm[i])
        BY <2>1, <2>2, <3>2 DEF AckInv, AcksKept
      <4>2. \A s \in ElectedTerms : ~(currentTerm[i] < s /\ s <= currentTerm[i])
        BY <2>2 DEF ElectedTerms
      <4> QED
        BY <2>4, <4>1, <4>2 DEF Lost
    <3> QED
      BY <2>1, <3>1, <3>2 DEF AckInv, AcksCounted
  <2> QED
    BY <2>2, <2>3, <2>5, AgreePrefix DEF Agree
<1> QED
  BY <1>1, RaftTypeCorrect, RaftLogHistory, PTL
=============================================================================
