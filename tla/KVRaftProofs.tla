---------------------------- MODULE KVRaftProofs ----------------------------
(* The replicated key/value service, for any number of servers, Clerks,      *)
(* terms and restarts.                                                       *)
EXTENDS KVRaft, TLAPS, FiniteSetTheorems, SequenceTheorems

Op == [type : OpType, key : Key, client : Client, seq : Nat \ {0}]
Entry == [term : Nat, op : Op]

-----------------------------------------------------------------------------
(* What Raft shows to the service *)

\* The requests that are in some log, about to be started, or last made.
OpsIn(l) == {l[n].op : n \in 1..Len(l)}
LogOps == UNION {OpsIn(log[i]) : i \in Server}
LateOps == {h.op : h \in late}
LastOps == {op[c] : c \in {d \in Client : seqNum[d] > 0}}
Known == LogOps \cup OpsIn(clog) \cup LateOps \cup LastOps

TypeRaft ==
    /\ term \in [Server -> 0..MaxTerm] /\ leads \in [Server -> BOOLEAN]
    /\ log \in [Server -> Seq(Entry)] /\ \A i \in Server : Len(log[i]) <= MaxLog
    /\ clog \in Seq(Entry) /\ Len(clog) <= MaxLog
    /\ commitIndex \in [Server -> Nat] /\ \A i \in Server : commitIndex[i] <= Len(clog)

\* No entry is of a term nobody has reached.
TermsReached ==
    /\ \A i \in Server : \A n \in 1..Len(log[i]) : \E k \in Server : log[i][n].term <= term[k]
    /\ \A n \in 1..Len(clog) : \E k \in Server : clog[n].term <= term[k]

OneLeader ==
    \A i, j \in Server : leads[i] /\ leads[j] /\ term[i] = term[j] => i = j

\* The log has all that is committed up to n.
Holds(l, n) == n <= Len(l) /\ \A k \in 1..n : l[k] = clog[k]

\* The leader of the newest term has all that is committed, and those entries of
\* its own term it has committed itself: what it commits next lies beyond.
NewestLeader ==
    \A i \in Server :
        leads[i] /\ (\A k \in Server : term[k] <= term[i]) =>
            /\ Holds(log[i], Len(clog))
            /\ \A n \in 1..Len(clog) : clog[n].term = term[i] => n <= commitIndex[i]

\* What a leader takes for committed is so, also when it was replaced long ago.
LeadersHold == \A i \in Server : leads[i] => Holds(log[i], commitIndex[i])

RaftInv == TypeRaft /\ TermsReached /\ OneLeader /\ NewestLeader /\ LeadersHold

\* A leader appends an entry of its term.
Started(i, e) ==
    /\ leads[i] /\ Len(log[i]) < MaxLog /\ e \in Entry /\ e.term = term[i] /\ e.op \in Known
    /\ log' = [log EXCEPT ![i] = Append(@, e)]
    /\ UNCHANGED <<term, leads, clog, commitIndex>>

\* Some peers lose what they had in memory.
Rebooted(i) ==
    /\ leads' = [leads EXCEPT ![i] = FALSE]
    /\ commitIndex' = [commitIndex EXCEPT ![i] = 0]
    /\ UNCHANGED <<term, log, clog>>

RaftMove ==
    \/ UNCHANGED raftVars
    \/ \E i \in Server : \/ Elect(i) \/ StepDown(i)
                         \/ \E e \in Entry : Started(i, e)
                         \/ \E n \in 1..Len(log[i]) : Commit(i, n)
                         \/ \E n \in 1..Len(clog) : Learn(i, n)

RaftStep == RaftMove \/ \E i \in Server : Rebooted(i)

\* A finite set of numbers that is not empty has a greatest: otherwise the
\* numbers up to one of them would be finitely many and closed under successor.
LEMMA Greatest ==
    ASSUME NEW T, T \subseteq Nat, T # {}, NEW b \in Nat, \A x \in T : x <= b
    PROVE  \E x \in T : \A y \in T : y <= x
<1> SUFFICES ASSUME \A x \in T : \E y \in T : x < y
             PROVE  FALSE
  OBVIOUS
<1> DEFINE Down == {y \in Nat : \E x \in T : y <= x}
           Rest == Down \ {0}
           next == [y \in Down |-> y + 1]
<1>1. IsFiniteSet(Down)
  <2>1. Down \in SUBSET Nat /\ \A y \in Down : y <= b
    OBVIOUS
  <2> HIDE DEF Down
  <2> QED
    BY <2>1, FS_BoundedSetOfNaturals
<1>2. 0 \in Down
  <2>1. PICK x \in T : x \in Nat
    OBVIOUS
  <2> QED
    BY <2>1
<1>3. ASSUME NEW y \in Down PROVE y + 1 \in Rest
  <2>1. PICK x \in T : y <= x
    OBVIOUS
  <2>2. PICK z \in T : x < z
    OBVIOUS
  <2>3. x \in Nat /\ y \in Nat /\ z \in Nat
    OBVIOUS
  <2> QED
    BY <2>1, <2>2, <2>3
<1> HIDE DEF Down
<1>4. next \in [Down -> Rest]
  BY <1>3
<1>5. IsFiniteSet(Rest) /\ Cardinality(Rest) = Cardinality(Down) - 1 /\ Cardinality(Down) \in Nat
  BY <1>1, <1>2, FS_RemoveElement, FS_CardinalityType
<1> HIDE DEF Rest, next
<1>6. \E x, y \in Down : x # y /\ next[x] = next[y]
  BY <1>1, <1>4, <1>5, FS_PigeonHole
<1> QED
  BY <1>6 DEF next, Down

LEMMA ServerFacts == 0 \in Server /\ Server \subseteq Nat /\ N \in Nat
  BY SizeAssumption DEF Server

\* LastElected is the newest term.
LEMMA LastElectedIs ==
    ASSUME TypeRaft
    PROVE  /\ \E i \in Server : LastElected = term[i]
           /\ \A i \in Server : term[i] <= LastElected
           /\ LastElected \in 0..MaxTerm
<1> DEFINE T == {term[i] : i \in Server}
<1>1. T \subseteq Nat /\ T # {} /\ \A x \in T : x <= MaxTerm
  BY ServerFacts, LimitAssumption DEF TypeRaft
<1>2. PICK x \in T : \A y \in T : y <= x
  BY <1>1, LimitAssumption, Greatest
<1>3. \E t \in T : \A i \in Server : term[i] <= t
  BY <1>2
<1>4. LastElected \in T /\ \A i \in Server : term[i] <= LastElected
  BY <1>3 DEF LastElected
<1> QED
  BY <1>4 DEF TypeRaft

\* The beginning of a log.
LEMMA Beginning ==
    ASSUME NEW s \in Seq(Entry), NEW n \in 0..Len(s)
    PROVE  /\ SubSeq(s, 1, n) \in Seq(Entry) /\ Len(SubSeq(s, 1, n)) = n
           /\ \A k \in 1..n : SubSeq(s, 1, n)[k] = s[k]
<1>1. Len(s) \in Nat
  BY LenProperties
<1> QED
  BY <1>1, SubSeqProperties

LEMMA AgreesHolds ==
    ASSUME TypeRaft, NEW l \in Seq(Entry), NEW n \in 0..Len(clog), Agrees(l, n)
    PROVE  Holds(l, n)
<1>1. Len(l) \in Nat /\ Len(clog) \in Nat /\ clog \in Seq(Entry)
  BY LenProperties DEF TypeRaft
<1>2. n \in 0..Len(l) /\ n <= Len(l) /\ SubSeq(l, 1, n) = SubSeq(clog, 1, n)
  BY <1>1 DEF Agrees
<1>3. ASSUME NEW k \in 1..n PROVE l[k] = clog[k]
  <2>1. SubSeq(l, 1, n)[k] = l[k]
    BY <1>2, Beginning
  <2>2. SubSeq(clog, 1, n)[k] = clog[k]
    BY <1>1, Beginning
  <2> QED
    BY <1>2, <2>1, <2>2
<1> QED
  BY <1>2, <1>3 DEF Holds

\* Committed entries are never replaced.
ClogGrows ==
    /\ Len(clog) <= Len(clog')
    /\ \A k \in 1..Len(clog) : clog'[k] = clog[k]

\* Terms only grow, so that what was reached stays reached.
LEMMA TermsStillReached ==
    ASSUME RaftInv, log' = log, clog' = clog,
           \A k \in Server : term[k] \in Nat /\ term'[k] \in Nat /\ term[k] <= term'[k]
    PROVE  TermsReached'
<1>1. ASSUME NEW e \in Entry, NEW v \in Server, e.term <= term[v]
      PROVE  e.term <= term'[v]
  BY <1>1 DEF Entry
<1>2. \A k \in Server : \A x \in 1..Len(log[k]) : log[k][x] \in Entry
  BY ElementOfSeq DEF RaftInv, TypeRaft
<1>3. \A x \in 1..Len(clog) : clog[x] \in Entry
  BY ElementOfSeq DEF RaftInv, TypeRaft
<1> QED
  BY <1>1, <1>2, <1>3 DEF RaftInv, TermsReached

LEMMA RaftElect ==
    ASSUME RaftInv, NEW i \in Server, Elect(i)
    PROVE  RaftInv' /\ ClogGrows
<1>1. /\ TypeRaft /\ LastElected \in 0..MaxTerm /\ \A k \in Server : term[k] <= LastElected
      /\ \A k \in Server : term[k] \in Nat /\ log[k] \in Seq(Entry) /\ Len(log[k]) \in Nat
      /\ clog \in Seq(Entry) /\ Len(clog) \in Nat
  BY LastElectedIs, LenProperties DEF RaftInv, TypeRaft
<1>2. PICK j \in Server : \E n \in Len(clog)..Len(log[j]) :
         Agrees(log[j], Len(clog)) /\ log' = [log EXCEPT ![i] = SubSeq(log[j], 1, n)]
  BY DEF Elect
<1>3. PICK n \in Len(clog)..Len(log[j]) :
         Agrees(log[j], Len(clog)) /\ log' = [log EXCEPT ![i] = SubSeq(log[j], 1, n)]
  BY <1>2
<1>4. PICK t \in Nat : t = LastElected + 1 /\ t <= MaxTerm
  BY <1>1, LimitAssumption DEF Elect
<1>5. /\ term' = [term EXCEPT ![i] = t] /\ leads' = [leads EXCEPT ![i] = TRUE]
      /\ clog' = clog /\ commitIndex' = commitIndex
  BY <1>4 DEF Elect
<1>6. n \in 0..Len(log[j]) /\ n <= MaxLog /\ Len(clog) <= n
  BY <1>1, <1>3, LimitAssumption DEF TypeRaft
<1>7. /\ log'[i] \in Seq(Entry) /\ Len(log'[i]) = n
      /\ \A k \in 1..n : log'[i][k] = log[j][k]
  <2>1. log'[i] = SubSeq(log[j], 1, n)
    BY <1>3 DEF RaftInv, TypeRaft
  <2> QED
    BY <1>1, <1>6, <2>1, Beginning
<1>8. \A k \in Server \ {i} : log'[k] = log[k] /\ term'[k] = term[k] /\ leads'[k] = leads[k]
  BY <1>3, <1>5 DEF RaftInv, TypeRaft
<1>9. /\ term'[i] = t /\ \A k \in Server : term[k] < t /\ term[k] <= term'[k] /\ term'[k] <= t
  BY <1>1, <1>4, <1>5, <1>8 DEF TypeRaft
<1>10. TypeRaft'
  <2>1. term' \in [Server -> 0..MaxTerm] /\ leads' \in [Server -> BOOLEAN]
    BY <1>4, <1>5 DEF RaftInv, TypeRaft
  <2>2. log' \in [Server -> Seq(Entry)]
    BY <1>3, <1>7, <1>8 DEF RaftInv, TypeRaft
  <2>3. \A k \in Server : Len(log'[k]) <= MaxLog
    BY <1>6, <1>7, <1>8 DEF RaftInv, TypeRaft
  <2> QED
    BY <1>5, <2>1, <2>2, <2>3 DEF RaftInv, TypeRaft
<1>11. TermsReached'
  <2>1. ASSUME NEW k \in Server, NEW x \in 1..Len(log'[k])
        PROVE  \E v \in Server : log'[k][x].term <= term'[v]
    <3>1. PICK u \in Server : x \in 1..Len(log[u]) /\ log'[k][x] = log[u][x]
      <4>1. CASE k = i
        BY <1>1, <1>6, <1>7, <4>1
      <4>2. CASE k # i
        BY <1>8, <4>2
      <4> QED
        BY <4>1, <4>2
    <3>2. PICK v \in Server : log[u][x].term <= term[v]
      BY <3>1 DEF RaftInv, TermsReached
    <3>3. log[u][x] \in Entry
      BY <1>1, <3>1, ElementOfSeq
    <3> QED
      BY <1>1, <1>4, <1>9, <3>1, <3>2, <3>3 DEF Entry
  <2>2. ASSUME NEW x \in 1..Len(clog)
        PROVE  \E v \in Server : clog[x].term <= term'[v]
    <3>1. PICK v \in Server : clog[x].term <= term[v]
      BY DEF RaftInv, TermsReached
    <3>2. clog[x] \in Entry
      BY <1>1, ElementOfSeq
    <3> QED
      BY <1>1, <1>4, <1>9, <3>1, <3>2 DEF Entry
  <2> QED
    BY <1>5, <2>1, <2>2 DEF TermsReached
<1>12. OneLeader'
  BY <1>1, <1>8, <1>9 DEF OneLeader, RaftInv
<1>13. NewestLeader'
  <2> SUFFICES ASSUME NEW k \in Server, leads'[k], \A v \in Server : term'[v] <= term'[k]
               PROVE  /\ Len(clog) <= Len(log'[k]) /\ \A x \in 1..Len(clog) : log'[k][x] = clog[x]
                      /\ \A x \in 1..Len(clog) : clog[x].term = term'[k] => x <= commitIndex[k]
    BY <1>5 DEF NewestLeader, Holds
  <2>1. k = i
    BY <1>1, <1>4, <1>8, <1>9
  <2>2. Len(clog) \in 0..Len(clog)
    BY <1>1
  <2>3. Holds(log[j], Len(clog))
    BY <1>1, <1>3, <2>2, AgreesHolds
  <2>4. ASSUME NEW x \in 1..Len(clog) PROVE clog[x].term # t
    <3>1. PICK v \in Server : clog[x].term <= term[v]
      BY DEF RaftInv, TermsReached
    <3>2. clog[x] \in Entry
      BY <1>1, ElementOfSeq
    <3> QED
      BY <1>1, <1>9, <3>1, <3>2 DEF Entry
  <2> QED
    BY <1>1, <1>6, <1>7, <1>9, <2>1, <2>3, <2>4 DEF Holds
<1>14. LeadersHold'
  <2>1. Len(clog) \in 0..Len(clog)
    BY <1>1
  <2>2. Holds(log[j], Len(clog))
    BY <1>1, <1>3, <2>1, AgreesHolds
  <2>3. commitIndex[i] \in Nat /\ commitIndex[i] <= Len(clog)
    BY DEF RaftInv, TypeRaft
  <2>4. commitIndex[i] <= Len(log'[i]) /\ \A x \in 1..commitIndex[i] : log'[i][x] = clog[x]
    BY <1>1, <1>6, <1>7, <2>2, <2>3 DEF Holds
  <2> QED
    BY <1>5, <1>8, <2>4 DEF RaftInv, LeadersHold, Holds
<1> QED
  BY <1>1, <1>5, <1>10, <1>11, <1>12, <1>13, <1>14 DEF RaftInv, ClogGrows

LEMMA RaftStepDown ==
    ASSUME RaftInv, NEW i \in Server, StepDown(i)
    PROVE  RaftInv' /\ ClogGrows
<1>1. PICK j \in Server : term[j] > term[i] /\ term' = [term EXCEPT ![i] = term[j]]
  BY DEF StepDown
<1>2. /\ leads' = [leads EXCEPT ![i] = FALSE]
      /\ log' = log /\ clog' = clog /\ commitIndex' = commitIndex
  BY DEF StepDown
<1>3. \A k \in Server : term[k] \in Nat /\ term[k] <= term'[k] /\ (k # i => term'[k] = term[k])
  BY <1>1 DEF RaftInv, TypeRaft
<1>4. /\ \A k \in Server : k # i => leads'[k] = leads[k]
      /\ ~leads'[i]
  BY <1>2 DEF RaftInv, TypeRaft
<1>5. Len(clog) \in Nat /\ clog \in Seq(Entry)
  BY LenProperties DEF RaftInv, TypeRaft
<1>6. TypeRaft'
  BY <1>1, <1>2 DEF RaftInv, TypeRaft
<1>7. TermsReached'
  <2>1. \A k \in Server : term'[k] \in Nat
    BY <1>6 DEF TypeRaft
  <2> QED
    BY <1>2, <1>3, <2>1, TermsStillReached
<1>8. OneLeader'
  BY <1>3, <1>4 DEF RaftInv, OneLeader
<1>9. NewestLeader'
  <2> SUFFICES ASSUME NEW k \in Server, leads'[k], \A v \in Server : term'[v] <= term'[k]
               PROVE  /\ Holds(log[k], Len(clog))
                      /\ \A x \in 1..Len(clog) : clog[x].term = term[k] => x <= commitIndex[k]
    BY <1>2, <1>3, <1>4 DEF NewestLeader, Holds
  <2>1. k # i /\ leads[k] /\ term'[k] = term[k]
    BY <1>3, <1>4
  <2>2. \A v \in Server : term'[v] \in Nat
    BY <1>6 DEF TypeRaft
  <2>3. \A v \in Server : term[v] <= term[k]
    BY <1>3, <2>1, <2>2
  <2> QED
    BY <2>1, <2>3 DEF RaftInv, NewestLeader
<1>10. LeadersHold'
  BY <1>2, <1>4 DEF RaftInv, LeadersHold, Holds
<1> QED
  BY <1>2, <1>5, <1>6, <1>7, <1>8, <1>9, <1>10 DEF RaftInv, ClogGrows

\* The newest leader commits beyond what is committed.
LEMMA RaftCommit ==
    ASSUME RaftInv, NEW i \in Server, NEW n \in 1..Len(log[i]), Commit(i, n)
    PROVE  RaftInv' /\ ClogGrows
<1>1. /\ TypeRaft /\ \A k \in Server : term[k] <= term[i] /\ term[k] \in Nat
      /\ log[i] \in Seq(Entry) /\ Len(log[i]) \in Nat /\ clog \in Seq(Entry) /\ Len(clog) \in Nat
      /\ commitIndex[i] \in Nat /\ Len(log[i]) <= MaxLog
  BY LastElectedIs, LenProperties DEF RaftInv, TypeRaft, Commit
<1>2. /\ leads[i] /\ n > commitIndex[i] /\ log[i][n].term = term[i]
      /\ clog' = SubSeq(log[i], 1, n) /\ commitIndex' = [commitIndex EXCEPT ![i] = n]
      /\ term' = term /\ leads' = leads /\ log' = log
  BY DEF Commit
<1>3. /\ Holds(log[i], Len(clog))
      /\ \A x \in 1..Len(clog) : clog[x].term = term[i] => x <= commitIndex[i]
  BY <1>1, <1>2 DEF RaftInv, NewestLeader
<1>4. n \in Nat /\ n > Len(clog) /\ n \in 0..Len(log[i])
  BY <1>1, <1>2, <1>3 DEF Holds
<1>5. clog' \in Seq(Entry) /\ Len(clog') = n /\ \A k \in 1..n : clog'[k] = log[i][k]
  BY <1>1, <1>2, <1>4, Beginning
<1>6. ClogGrows
  BY <1>1, <1>3, <1>4, <1>5 DEF ClogGrows, Holds
<1>7. /\ \A k \in Server : k # i => commitIndex'[k] = commitIndex[k]
      /\ commitIndex'[i] = n /\ commitIndex' \in [Server -> Nat]
  BY <1>2, <1>4 DEF RaftInv, TypeRaft
<1>8. TypeRaft'
  <2>1. ASSUME NEW k \in Server PROVE commitIndex'[k] <= Len(clog')
    <3>1. commitIndex[k] <= Len(clog) /\ commitIndex[k] \in Nat
      BY DEF RaftInv, TypeRaft
    <3> QED
      BY <1>1, <1>4, <1>5, <1>7, <3>1
  <2> QED
    BY <1>1, <1>2, <1>4, <1>5, <1>7, <2>1, LimitAssumption DEF RaftInv, TypeRaft
<1>9. TermsReached'
  <2>1. \A x \in 1..Len(clog') : x \in 1..Len(log[i]) /\ clog'[x] = log[i][x]
    BY <1>1, <1>4, <1>5
  <2> QED
    BY <1>2, <2>1 DEF RaftInv, TermsReached
<1>10. OneLeader'
  BY <1>2 DEF RaftInv, OneLeader
<1>11. NewestLeader'
  <2> SUFFICES ASSUME NEW k \in Server, leads[k], \A v \in Server : term[v] <= term[k]
               PROVE  /\ Len(clog') <= Len(log[k]) /\ \A x \in 1..Len(clog') : log[k][x] = clog'[x]
                      /\ \A x \in 1..Len(clog') : x <= commitIndex'[k]
    BY <1>2 DEF NewestLeader, Holds
  <2>1. term[k] = term[i]
    BY <1>1
  <2>2. k = i
    BY <1>2, <2>1 DEF RaftInv, OneLeader
  <2> QED
    BY <1>1, <1>4, <1>5, <1>7, <2>2
<1>12. LeadersHold'
  <2> SUFFICES ASSUME NEW k \in Server, leads[k]
               PROVE  /\ commitIndex'[k] <= Len(log[k])
                      /\ \A x \in 1..commitIndex'[k] : log[k][x] = clog'[x]
    BY <1>2 DEF LeadersHold, Holds
  <2>1. CASE k = i
    BY <1>1, <1>4, <1>5, <1>7, <2>1
  <2>2. CASE k # i
    <3>1. Holds(log[k], commitIndex[k]) /\ commitIndex[k] \in Nat /\ commitIndex[k] <= Len(clog)
      BY DEF RaftInv, LeadersHold, TypeRaft
    <3> QED
      BY <1>1, <1>6, <1>7, <2>2, <3>1 DEF Holds, ClogGrows
  <2> QED
    BY <2>1, <2>2
<1> QED
  BY <1>6, <1>8, <1>9, <1>10, <1>11, <1>12 DEF RaftInv

LEMMA RaftLearn ==
    ASSUME RaftInv, NEW i \in Server, NEW n \in 1..Len(clog), Learn(i, n)
    PROVE  RaftInv' /\ ClogGrows
<1>1. /\ \A k \in Server : /\ term[k] \in Nat /\ term[k] <= MaxTerm
                           /\ log[k] \in Seq(Entry) /\ Len(log[k]) \in Nat
      /\ clog \in Seq(Entry) /\ Len(clog) \in Nat /\ Len(clog) <= MaxLog /\ clog[n] \in Entry
  BY LenProperties, ElementOfSeq DEF RaftInv, TypeRaft
<1>2. n \in Nat /\ n <= Len(clog) /\ n \in 0..Len(clog) /\ clog[n].term \in Nat
  BY <1>1 DEF Entry
<1>3. PICK t \in Nat : t = IF term[i] < clog[n].term THEN clog[n].term ELSE term[i]
  BY <1>1, <1>2
<1>4. term[i] <= t /\ t <= MaxTerm /\ \E k \in Server : t <= term[k]
  <2>1. PICK k \in Server : clog[n].term <= term[k]
    BY DEF RaftInv, TermsReached
  <2> QED
    BY <1>1, <1>2, <1>3, <2>1, LimitAssumption
<1>5. PICK l : l = IF Agrees(log[i], n) THEN log[i] ELSE SubSeq(clog, 1, n)
  OBVIOUS
<1>6. /\ term' = [term EXCEPT ![i] = t] /\ leads' = [leads EXCEPT ![i] = FALSE]
      /\ log' = [log EXCEPT ![i] = l] /\ commitIndex' = [commitIndex EXCEPT ![i] = n]
      /\ clog' = clog
  BY <1>3, <1>5 DEF Learn, RaftInv, TypeRaft
<1>7. /\ \A k \in Server : /\ term[k] <= term'[k] /\ term'[k] \in Nat
                           /\ (k # i => term'[k] = term[k])
      /\ term' \in [Server -> 0..MaxTerm]
  BY <1>1, <1>3, <1>4, <1>6, LimitAssumption DEF RaftInv, TypeRaft
<1>8. /\ \A k \in Server : k # i => /\ leads'[k] = leads[k] /\ log'[k] = log[k]
                                    /\ commitIndex'[k] = commitIndex[k]
      /\ ~leads'[i] /\ log'[i] = l /\ commitIndex'[i] = n
      /\ leads' \in [Server -> BOOLEAN] /\ commitIndex' \in [Server -> Nat]
  BY <1>2, <1>6 DEF RaftInv, TypeRaft
<1>9. l \in Seq(Entry) /\ (l = log[i] \/ (Len(l) = n /\ \A x \in 1..n : l[x] = clog[x]))
  BY <1>1, <1>2, <1>5, Beginning
<1>10. TypeRaft'
  <2>1. log' \in [Server -> Seq(Entry)]
    BY <1>6, <1>9 DEF RaftInv, TypeRaft
  <2>2. ASSUME NEW k \in Server PROVE Len(log'[k]) <= MaxLog /\ commitIndex'[k] <= Len(clog')
    BY <1>1, <1>2, <1>6, <1>8, <1>9, LimitAssumption DEF RaftInv, TypeRaft
  <2> QED
    BY <1>6, <1>7, <1>8, <2>1, <2>2 DEF RaftInv, TypeRaft
<1>11. TermsReached'
  <2>1. ASSUME NEW e \in Entry, NEW v \in Server, e.term <= term[v] PROVE e.term <= term'[v]
    BY <1>1, <1>7, <2>1 DEF Entry
  <2>2. ASSUME NEW k \in Server, NEW x \in 1..Len(log'[k])
        PROVE  \E v \in Server : log'[k][x].term <= term'[v]
    <3>1. CASE k # i \/ l = log[i]
      <4>1. log'[k] = log[k]
        BY <1>8, <3>1
      <4>2. log[k][x] \in Entry /\ \E v \in Server : log[k][x].term <= term[v]
        BY <1>1, <2>2, <4>1, ElementOfSeq DEF RaftInv, TermsReached
      <4> QED
        BY <2>1, <4>1, <4>2
    <3>2. CASE k = i /\ l # log[i]
      <4>1. x \in 1..Len(clog) /\ log'[k][x] = clog[x]
        BY <1>1, <1>2, <1>8, <1>9, <2>2, <3>2
      <4>2. clog[x] \in Entry /\ \E v \in Server : clog[x].term <= term[v]
        BY <1>1, <4>1, ElementOfSeq DEF RaftInv, TermsReached
      <4> QED
        BY <2>1, <4>1, <4>2
    <3> QED
      BY <3>1, <3>2
  <2>3. ASSUME NEW x \in 1..Len(clog) PROVE \E v \in Server : clog[x].term <= term'[v]
    <3>1. clog[x] \in Entry /\ \E v \in Server : clog[x].term <= term[v]
      BY <1>1, ElementOfSeq DEF RaftInv, TermsReached
    <3> QED
      BY <2>1, <3>1
  <2> QED
    BY <1>6, <2>2, <2>3 DEF TermsReached
<1>12. OneLeader'
  BY <1>7, <1>8 DEF RaftInv, OneLeader
<1>13. NewestLeader'
  <2> SUFFICES ASSUME NEW k \in Server, leads'[k], \A v \in Server : term'[v] <= term'[k]
               PROVE  /\ Holds(log[k], Len(clog))
                      /\ \A x \in 1..Len(clog) : clog[x].term = term[k] => x <= commitIndex[k]
    BY <1>6, <1>7, <1>8 DEF NewestLeader, Holds
  <2>1. k # i /\ leads[k] /\ term'[k] = term[k]
    BY <1>7, <1>8
  <2>2. \A v \in Server : term[v] <= term[k]
    BY <1>1, <1>7, <2>1
  <2> QED
    BY <2>1, <2>2 DEF RaftInv, NewestLeader
<1>14. LeadersHold'
  BY <1>6, <1>8 DEF RaftInv, LeadersHold, Holds
<1> QED
  BY <1>1, <1>6, <1>10, <1>11, <1>12, <1>13, <1>14 DEF RaftInv, ClogGrows

LEMMA RaftStarted ==
    ASSUME RaftInv, NEW i \in Server, NEW e \in Entry, Started(i, e)
    PROVE  RaftInv' /\ ClogGrows
<1>1. /\ log[i] \in Seq(Entry) /\ Len(log[i]) \in Nat /\ clog \in Seq(Entry) /\ Len(clog) \in Nat
      /\ \A k \in Server : term[k] \in Nat /\ commitIndex[k] \in Nat
  BY LenProperties DEF RaftInv, TypeRaft
<1>2. /\ leads[i] /\ Len(log[i]) < MaxLog /\ e.term = term[i]
      /\ log' = [log EXCEPT ![i] = Append(log[i], e)]
      /\ term' = term /\ leads' = leads /\ clog' = clog /\ commitIndex' = commitIndex
  BY DEF Started
<1>3. /\ log'[i] \in Seq(Entry) /\ Len(log'[i]) = Len(log[i]) + 1
      /\ log'[i][Len(log[i]) + 1] = e /\ \A x \in 1..Len(log[i]) : log'[i][x] = log[i][x]
  <2>1. log'[i] = Append(log[i], e)
    BY <1>2 DEF RaftInv, TypeRaft
  <2> QED
    BY <1>1, <2>1, AppendProperties
<1>4. \A k \in Server : k # i => log'[k] = log[k]
  BY <1>2 DEF RaftInv, TypeRaft
<1>5. TypeRaft'
  <2>1. log' \in [Server -> Seq(Entry)]
    BY <1>2, <1>3, <1>4 DEF RaftInv, TypeRaft
  <2>2. \A k \in Server : Len(log'[k]) <= MaxLog
    BY <1>1, <1>2, <1>3, <1>4, LimitAssumption DEF RaftInv, TypeRaft
  <2> QED
    BY <1>2, <2>1, <2>2 DEF RaftInv, TypeRaft
<1>6. TermsReached'
  <2>1. ASSUME NEW k \in Server, NEW x \in 1..Len(log'[k])
        PROVE  \E v \in Server : log'[k][x].term <= term[v]
    <3>1. CASE k = i /\ x = Len(log[i]) + 1
      BY <1>1, <1>2, <1>3, <3>1
    <3>2. CASE k # i \/ x # Len(log[i]) + 1
      <4>1. x \in 1..Len(log[k]) /\ log'[k][x] = log[k][x]
        BY <1>1, <1>3, <1>4, <2>1, <3>2
      <4> QED
        BY <4>1 DEF RaftInv, TermsReached
    <3> QED
      BY <3>1, <3>2
  <2> QED
    BY <1>2, <2>1 DEF RaftInv, TermsReached
<1>7. ASSUME NEW k \in Server, NEW n \in Nat, Holds(log[k], n)
      PROVE  n <= Len(log'[k]) /\ \A x \in 1..n : log'[k][x] = clog[x]
  <2>1. CASE k = i
    BY <1>1, <1>3, <1>7, <2>1 DEF Holds
  <2>2. CASE k # i
    BY <1>4, <1>7, <2>2 DEF Holds
  <2> QED
    BY <2>1, <2>2
<1>8. NewestLeader'
  BY <1>1, <1>2, <1>7 DEF RaftInv, NewestLeader, Holds
<1>9. LeadersHold'
  BY <1>1, <1>2, <1>7 DEF RaftInv, LeadersHold, Holds
<1>10. OneLeader'
  BY <1>2 DEF RaftInv, OneLeader
<1> QED
  BY <1>1, <1>2, <1>5, <1>6, <1>8, <1>9, <1>10 DEF RaftInv, ClogGrows

LEMMA RaftRebooted ==
    ASSUME RaftInv, NEW i \in Server, Rebooted(i)
    PROVE  RaftInv' /\ ClogGrows
<1>1. /\ \A k \in Server : k # i => leads'[k] = leads[k] /\ commitIndex'[k] = commitIndex[k]
      /\ ~leads'[i] /\ commitIndex'[i] = 0
      /\ leads' \in [Server -> BOOLEAN] /\ commitIndex' \in [Server -> Nat]
      /\ term' = term /\ log' = log /\ clog' = clog
  BY DEF Rebooted, RaftInv, TypeRaft
<1>2. Len(clog) \in Nat
  BY LenProperties DEF RaftInv, TypeRaft
<1>3. TypeRaft'
  <2>1. \A k \in Server : commitIndex[k] <= Len(clog)
    BY DEF RaftInv, TypeRaft
  <2>2. ASSUME NEW k \in Server PROVE commitIndex'[k] <= Len(clog)
    BY <1>1, <1>2, <2>1
  <2> QED
    BY <1>1, <2>2 DEF RaftInv, TypeRaft
<1>4. TermsReached'
  BY <1>1 DEF RaftInv, TermsReached
<1>5. OneLeader'
  BY <1>1 DEF RaftInv, OneLeader
<1>6. NewestLeader'
  BY <1>1 DEF RaftInv, NewestLeader, Holds
<1>7. LeadersHold'
  BY <1>1 DEF RaftInv, LeadersHold, Holds
<1> QED
  BY <1>1, <1>2, <1>3, <1>4, <1>5, <1>6, <1>7 DEF RaftInv, ClogGrows

\* Every step of what the service sees of Raft keeps the invariant.
LEMMA StepRaftInv ==
    ASSUME RaftInv, RaftStep
    PROVE  RaftInv' /\ ClogGrows
<1>1. CASE UNCHANGED raftVars
  <2>1. Len(clog) \in Nat
    BY LenProperties DEF RaftInv, TypeRaft
  <2>2. term' = term /\ leads' = leads /\ log' = log /\ clog' = clog /\ commitIndex' = commitIndex
    BY <1>1 DEF raftVars
  <2>3. TypeRaft' /\ TermsReached'
    BY <2>2 DEF RaftInv, TypeRaft, TermsReached
  <2>4. OneLeader' /\ NewestLeader' /\ LeadersHold'
    BY <2>2 DEF RaftInv, OneLeader, NewestLeader, LeadersHold, Holds
  <2> QED
    BY <2>1, <2>2, <2>3, <2>4 DEF RaftInv, ClogGrows
<1> QED
  BY <1>1, RaftElect, RaftStepDown, RaftRebooted, RaftStarted, RaftCommit, RaftLearn
     DEF RaftStep, RaftMove

-----------------------------------------------------------------------------
(* Clerks and handlers *)

TypeClerk ==
    /\ seqNum \in [Client -> Nat] /\ op \in [Client -> Op \cup {Nil}]
    /\ server \in [Client -> Server] /\ lastLeader \in [Client -> Server]
    /\ pc \in [Client -> {"idle", "sent", "checked", "started", "waiting"}]
    /\ wait = [c \in Client |-> wait[c]] /\ result = [c \in Client |-> result[c]]
    /\ late \subseteq [op : Op, server : Server]
    /\ notifyChans \in [Server -> [1..MaxLog -> Client \cup {Nil}]]

\* A Clerk's call under way is the last it has made.
OwnOp ==
    \A c \in Client : pc[c] # "idle" =>
        op[c] \in Op /\ op[c].client = c /\ op[c].seq = seqNum[c]

ClerkInv == TypeClerk /\ OwnOp

LEMMA NextServerIn ==
    ASSUME NEW i \in Server
    PROVE  (i + 1) % N \in Server
BY SizeAssumption DEF Server

\* The loop of a Clerk goes round.
LEMMA ClerkGoesRound ==
    ASSUME ClerkInv, NEW c \in Client, pc[c] # "idle", NextServer(c)
    PROVE  /\ server' \in [Client -> Server] /\ lastLeader' \in [Client -> Server]
           /\ pc' \in [Client -> {"idle", "sent", "checked", "started", "waiting"}]
           /\ \A k \in Client : pc'[k] # "idle" => pc[k] # "idle"
           /\ pc'[c] = "sent" /\ \A k \in Client : k # c => pc'[k] = pc[k] /\ server'[k] = server[k]
<1>1. server[c] \in Server
  BY DEF ClerkInv, TypeClerk
<1>2. (server[c] + 1) % N \in Server
  BY <1>1, NextServerIn
<1> QED
  BY <1>2 DEF NextServer, ClerkInv, TypeClerk

\* A handler's reply ends the call or sends the Clerk round.
LEMMA ClerkReply ==
    ASSUME ClerkInv, NEW c \in Client, pc[c] # "idle", NEW err, NEW value, Reply(c, err, value)
    PROVE  /\ server' \in [Client -> Server] /\ lastLeader' \in [Client -> Server]
           /\ pc' \in [Client -> {"idle", "sent", "checked", "started", "waiting"}]
           /\ \A k \in Client : pc'[k] # "idle" => pc[k] # "idle"
           /\ pc'[c] \in {"idle", "sent"}
           /\ \A k \in Client : k # c => /\ pc'[k] = pc[k] /\ server'[k] = server[k]
                                         /\ wait'[k] = wait[k]
           /\ wait' = [k \in Client |-> wait'[k]]
<1>1. wait' = [wait EXCEPT ![c] = Nil]
  BY DEF Reply
<1>2. /\ \A k \in Client : k # c => wait'[k] = wait[k]
      /\ wait' = [k \in Client |-> wait'[k]]
  BY <1>1 DEF ClerkInv, TypeClerk
<1>3. CASE NextServer(c)
  BY <1>2, <1>3, ClerkGoesRound
<1>4. CASE Return(c, value)
  <2>1. server' = server /\ pc' = [pc EXCEPT ![c] = "idle"]
        /\ lastLeader' = [lastLeader EXCEPT ![c] = server[c]]
    BY <1>4 DEF Return
  <2>2. server[c] \in Server
    BY DEF ClerkInv, TypeClerk
  <2> QED
    BY <1>2, <2>1, <2>2 DEF ClerkInv, TypeClerk
<1> QED
  BY <1>3, <1>4 DEF Reply

\* What no Clerk and no handler notices.
Unnoticed == UNCHANGED <<clerkVars, late, notifyChans, result>>

LEMMA ClerkUnnoticed ==
    ASSUME ClerkInv, Unnoticed
    PROVE  ClerkInv'
BY DEF ClerkInv, TypeClerk, OwnOp, Unnoticed, clerkVars

LEMMA ClerkInvoke ==
    ASSUME ClerkInv, NEW c \in Client, Invoke(c)
    PROVE  ClerkInv'
<1>1. PICK t \in OpType, k \in Key : op' = [op EXCEPT ![c] = OpOf(t, k, c, seqNum[c] + 1)]
  BY DEF Invoke
<1>2. /\ seqNum' = [seqNum EXCEPT ![c] = seqNum[c] + 1]
      /\ server' = [server EXCEPT ![c] = lastLeader[c]]
      /\ pc' = [pc EXCEPT ![c] = "sent"]
      /\ UNCHANGED <<notifyChans, lastLeader, wait, result, late>>
  BY DEF Invoke
<1>3. PICK o \in Op : o = OpOf(t, k, c, seqNum[c] + 1)
  <2>1. seqNum[c] + 1 \in Nat \ {0}
    BY DEF ClerkInv, TypeClerk
  <2>2. OpOf(t, k, c, seqNum[c] + 1) \in Op
    BY <2>1 DEF OpOf, Op
  <2> QED
    BY <2>2
<1>4. o.client = c /\ o.seq = seqNum[c] + 1
  BY <1>3 DEF OpOf
<1>5. lastLeader[c] \in Server /\ seqNum[c] + 1 \in Nat
  BY DEF ClerkInv, TypeClerk
<1>6. TypeClerk'
  BY <1>1, <1>2, <1>3, <1>5 DEF ClerkInv, TypeClerk
<1>7. OwnOp'
  <2> SUFFICES ASSUME NEW x \in Client, pc'[x] # "idle"
               PROVE  op'[x] \in Op /\ op'[x].client = x /\ op'[x].seq = seqNum'[x]
    BY DEF OwnOp
  <2>1. CASE x = c
    BY <1>1, <1>2, <1>3, <1>4, <2>1 DEF ClerkInv, TypeClerk
  <2>2. CASE x # c
    <3>1. pc'[x] = pc[x] /\ op'[x] = op[x] /\ seqNum'[x] = seqNum[x]
      BY <1>1, <1>2, <2>2 DEF ClerkInv, TypeClerk
    <3> QED
      BY <3>1 DEF ClerkInv, OwnOp
  <2> QED
    BY <2>1, <2>2
<1> QED
  BY <1>6, <1>7 DEF ClerkInv

\* The conditions under which the call of a Clerk stays its own.
LEMMA OwnOpKept ==
    ASSUME ClerkInv, op' = op, seqNum' = seqNum,
           \A k \in Client : pc'[k] # "idle" => pc[k] # "idle"
    PROVE  OwnOp'
BY DEF ClerkInv, OwnOp

LEMMA ClerkLoseCall ==
    ASSUME ClerkInv, NEW c \in Client, LoseCall(c)
    PROVE  ClerkInv'
<1>1. /\ pc[c] # "idle" /\ NextServer(c)
      /\ UNCHANGED <<notifyChans, seqNum, op, wait, result, late>>
  BY DEF LoseCall
<1>2. OwnOp'
  BY <1>1, ClerkGoesRound, OwnOpKept
<1>3. TypeClerk'
  BY <1>1, ClerkGoesRound DEF ClerkInv, TypeClerk
<1> QED
  BY <1>2, <1>3 DEF ClerkInv

LEMMA ClerkReceive ==
    ASSUME ClerkInv, NEW c \in Client, Receive(c)
    PROVE  ClerkInv'
<1>1. pc[c] # "idle" /\ UNCHANGED <<notifyChans, seqNum, op, result, late>>
  BY DEF Receive
<1>2. CASE \E err, value : Reply(c, err, value)
  <2>1. OwnOp'
    BY <1>1, <1>2, ClerkReply, OwnOpKept
  <2>2. TypeClerk'
    BY <1>1, <1>2, ClerkReply DEF ClerkInv, TypeClerk
  <2> QED
    BY <2>1, <2>2 DEF ClerkInv
<1>3. CASE pc' = [pc EXCEPT ![c] = "checked"] /\ UNCHANGED <<server, lastLeader, wait, replies>>
  <2>1. \A k \in Client : pc'[k] # "idle" => pc[k] # "idle"
    BY <1>1, <1>3 DEF ClerkInv, TypeClerk
  <2>2. OwnOp'
    BY <1>1, <2>1, OwnOpKept
  <2> QED
    BY <1>1, <1>3, <2>2 DEF ClerkInv, TypeClerk
<1> QED
  BY <1>2, <1>3 DEF Receive

LEMMA ClerkStartOp ==
    ASSUME ClerkInv, NEW c \in Client, StartOp(c)
    PROVE  ClerkInv'
<1>1. pc[c] # "idle" /\ UNCHANGED <<notifyChans, seqNum, op, result, late>>
  BY DEF StartOp
<1>2. CASE \E err, value : Reply(c, err, value)
  <2>1. OwnOp'
    BY <1>1, <1>2, ClerkReply, OwnOpKept
  <2>2. TypeClerk'
    BY <1>1, <1>2, ClerkReply DEF ClerkInv, TypeClerk
  <2> QED
    BY <2>1, <2>2 DEF ClerkInv
<1>3. CASE /\ wait' = [wait EXCEPT ![c] = [index |-> Len(log[server[c]]) + 1,
                                           term |-> term[server[c]]]]
           /\ pc' = [pc EXCEPT ![c] = "started"] /\ UNCHANGED <<server, lastLeader, replies>>
  <2>1. \A k \in Client : pc'[k] # "idle" => pc[k] # "idle"
    BY <1>1, <1>3 DEF ClerkInv, TypeClerk
  <2>2. OwnOp'
    BY <1>1, <2>1, OwnOpKept
  <2> QED
    BY <1>1, <1>3, <2>2 DEF ClerkInv, TypeClerk
<1> QED
  BY <1>2, <1>3 DEF StartOp

LEMMA ClerkAbandon ==
    ASSUME ClerkInv, NEW c \in Client, Abandon(c)
    PROVE  ClerkInv'
<1>1. /\ pc[c] # "idle" /\ NextServer(c) /\ wait' = [wait EXCEPT ![c] = Nil]
      /\ UNCHANGED <<notifyChans, seqNum, op, result>>
      /\ late' = late \/ late' = late \cup {[op |-> op[c], server |-> server[c]]}
  BY DEF Abandon
<1>2. op[c] \in Op /\ server[c] \in Server
  BY <1>1 DEF ClerkInv, OwnOp, TypeClerk
<1>3. OwnOp'
  BY <1>1, ClerkGoesRound, OwnOpKept
<1>4. TypeClerk'
  <2>1. /\ server' \in [Client -> Server] /\ lastLeader' \in [Client -> Server]
        /\ pc' \in [Client -> {"idle", "sent", "checked", "started", "waiting"}]
    BY <1>1, ClerkGoesRound
  <2>2. late' \subseteq [op : Op, server : Server]
    BY <1>1, <1>2 DEF ClerkInv, TypeClerk
  <2> QED
    BY <1>1, <2>1, <2>2 DEF ClerkInv, TypeClerk
<1> QED
  BY <1>3, <1>4 DEF ClerkInv

LEMMA ClerkRegister ==
    ASSUME ClerkInv, NEW c \in Client, Register(c)
    PROVE  ClerkInv'
<1>1. /\ pc[c] # "idle" /\ pc' = [pc EXCEPT ![c] = "waiting"]
      /\ notifyChans' = [notifyChans EXCEPT ![server[c]][wait[c].index] = c]
      /\ result' = [result EXCEPT ![c] = Nil]
      /\ UNCHANGED <<seqNum, op, server, lastLeader, wait, late>>
  BY DEF Register
<1>2. notifyChans' \in [Server -> [1..MaxLog -> Client \cup {Nil}]]
  BY <1>1 DEF ClerkInv, TypeClerk
<1>3. \A k \in Client : pc'[k] # "idle" => pc[k] # "idle"
  BY <1>1 DEF ClerkInv, TypeClerk
<1>4. OwnOp'
  BY <1>1, <1>3, OwnOpKept
<1> QED
  BY <1>1, <1>2, <1>4 DEF ClerkInv, TypeClerk

LEMMA ClerkDone ==
    ASSUME ClerkInv, NEW c \in Client, Notified(c) \/ Timeout(c)
    PROVE  ClerkInv'
<1>1. /\ pc[c] # "idle" /\ \E err, value : Reply(c, err, value)
      /\ notifyChans' = [notifyChans EXCEPT ![server[c]][wait[c].index] = Nil]
      /\ result' = [result EXCEPT ![c] = Nil]
      /\ UNCHANGED <<seqNum, op, late>>
  BY DEF Notified, Timeout, Unregister
<1>2. notifyChans' \in [Server -> [1..MaxLog -> Client \cup {Nil}]]
  BY <1>1 DEF ClerkInv, TypeClerk
<1>3. OwnOp'
  BY <1>1, ClerkReply, OwnOpKept
<1>4. /\ server' \in [Client -> Server] /\ lastLeader' \in [Client -> Server]
      /\ pc' \in [Client -> {"idle", "sent", "checked", "started", "waiting"}]
      /\ wait' = [k \in Client |-> wait'[k]]
  BY <1>1, ClerkReply
<1>5. TypeClerk'
  BY <1>1, <1>2, <1>4 DEF ClerkInv, TypeClerk
<1> QED
  BY <1>3, <1>5 DEF ClerkInv

LEMMA ClerkRestart ==
    ASSUME ClerkInv, NEW i \in Server, Restart(i)
    PROVE  ClerkInv'
<1> DEFINE served == {c \in Client : server[c] = i /\ pc[c] \in {"checked", "started", "waiting"}}
<1>1. /\ notifyChans' = [notifyChans EXCEPT ![i] = [n \in 1..MaxLog |-> Nil]]
      /\ server' = [c \in Client |-> IF c \in served THEN (i + 1) % N ELSE server[c]]
      /\ pc' = [c \in Client |-> IF c \in served THEN "sent" ELSE pc[c]]
      /\ wait' = [c \in Client |-> IF c \in served THEN Nil ELSE wait[c]]
      /\ result' = [c \in Client |-> IF c \in served THEN Nil ELSE result[c]]
      /\ late' \subseteq late
      /\ UNCHANGED <<seqNum, op, lastLeader>>
  BY DEF Restart
<1>2. \A c \in served : pc[c] # "idle"
  OBVIOUS
<1> HIDE DEF served
<1>3. (i + 1) % N \in Server
  BY NextServerIn
<1>4. \A k \in Client : pc'[k] # "idle" => pc[k] # "idle"
  BY <1>1, <1>2
<1>5. OwnOp'
  BY <1>1, <1>4, OwnOpKept
<1>6. TypeClerk'
  BY <1>1, <1>3 DEF ClerkInv, TypeClerk
<1> QED
  BY <1>5, <1>6 DEF ClerkInv

LEMMA ClerkDeliver ==
    ASSUME ClerkInv, NEW i \in Server, NEW n, Deliver(i, n)
    PROVE  ClerkInv'
<1>1. UNCHANGED <<clerkVars, late, notifyChans>>
  BY DEF Deliver
<1>2. \/ result' = result
      \/ \E h, r : result' = [result EXCEPT ![h] = r]
  BY DEF Deliver
<1>3. result' = [c \in Client |-> result'[c]]
  BY <1>2 DEF ClerkInv, TypeClerk
<1> QED
  BY <1>1, <1>3 DEF ClerkInv, TypeClerk, OwnOp, clerkVars

LEMMA StepClerkInv ==
    ASSUME ClerkInv, [Next]_vars
    PROVE  ClerkInv'
<1>1. CASE UNCHANGED vars
  BY <1>1, ClerkUnnoticed DEF vars, Unnoticed
<1>2. ASSUME NEW i \in Server, Elect(i) \/ StepDown(i) \/ ApplyTake(i) \/ ApplyDone(i)
      PROVE  Unnoticed
  BY <1>2 DEF Unnoticed, Elect, StepDown, ApplyTake, ApplyDone
<1>3. ASSUME NEW i \in Server, NEW n, Commit(i, n) \/ Learn(i, n)
      PROVE  Unnoticed
  BY <1>3 DEF Unnoticed, Commit, Learn
<1>4. ASSUME NEW h \in late, LateStart(h)
      PROVE  ClerkInv'
  BY <1>4 DEF LateStart, ClerkInv, TypeClerk, OwnOp, clerkVars
<1> QED
  BY <1>1, <1>2, <1>3, <1>4, ClerkUnnoticed, ClerkRestart, ClerkDeliver, ClerkInvoke,
     ClerkLoseCall, ClerkReceive, ClerkStartOp, ClerkAbandon, ClerkRegister, ClerkDone DEF Next

\* What a step does to Raft.
LEMMA StepRaft ==
    ASSUME TypeRaft, ClerkInv, [Next]_vars
    PROVE  RaftMove \/ \E i \in Server : Restart(i)
<1>1. CASE UNCHANGED vars
  BY <1>1 DEF vars, RaftMove
<1>2. ASSUME NEW i \in Server, ApplyTake(i) \/ ApplyDone(i) PROVE UNCHANGED raftVars
  BY <1>2 DEF ApplyTake, ApplyDone
<1>3. ASSUME NEW i \in Server, NEW n, Deliver(i, n) PROVE UNCHANGED raftVars
  BY <1>3 DEF Deliver
<1>4. ASSUME NEW c \in Client, \/ Invoke(c) \/ LoseCall(c) \/ Receive(c) \/ Abandon(c)
                               \/ Register(c) \/ Notified(c) \/ Timeout(c)
      PROVE  UNCHANGED raftVars
  BY <1>4 DEF Invoke, LoseCall, Receive, Abandon, Register, Notified, Timeout
<1>5. ASSUME NEW c \in Client, StartOp(c)
      PROVE  RaftMove
  <2>1. server[c] \in Server /\ op[c] \in Op /\ op[c].seq = seqNum[c]
    BY <1>5 DEF StartOp, ClerkInv, TypeClerk, OwnOp
  <2>2. PICK e \in Entry : e = [term |-> term[server[c]], op |-> op[c]]
    <3>1. term[server[c]] \in Nat
      BY <2>1 DEF TypeRaft
    <3>2. [term |-> term[server[c]], op |-> op[c]] \in Entry
      BY <2>1, <3>1 DEF Entry
    <3> QED
      BY <3>2
  <2>3. CASE leads[server[c]]
    <3>1. seqNum[c] > 0
      BY <2>1 DEF Op
    <3>2. e.op \in Known
      <4>1. op[c] \in LastOps
        BY <3>1 DEF LastOps
      <4>2. e.op = op[c]
        BY <2>2
      <4> QED
        BY <4>1, <4>2 DEF Known
    <3>3. Started(server[c], e)
      BY <1>5, <2>2, <2>3, <3>2 DEF StartOp, Started
    <3> QED
      BY <2>1, <3>3 DEF RaftMove
  <2>4. CASE ~leads[server[c]]
    BY <1>5, <2>4 DEF StartOp, RaftMove, raftVars
  <2> QED
    BY <2>3, <2>4
<1>6. ASSUME NEW h \in late, LateStart(h)
      PROVE  RaftMove
  <2>1. h.server \in Server /\ h.op \in Op
    BY DEF ClerkInv, TypeClerk
  <2>2. PICK e \in Entry : e = [term |-> term[h.server], op |-> h.op]
    <3>1. term[h.server] \in Nat
      BY <2>1 DEF TypeRaft
    <3>2. [term |-> term[h.server], op |-> h.op] \in Entry
      BY <2>1, <3>1 DEF Entry
    <3> QED
      BY <3>2
  <2>3. CASE leads[h.server]
    <3>1. e.op \in Known
      <4>1. e.op = h.op
        BY <2>2
      <4>2. h.op \in LateOps
        BY DEF LateOps
      <4> QED
        BY <4>1, <4>2 DEF Known
    <3>2. Started(h.server, e)
      BY <1>6, <2>2, <2>3, <3>1 DEF LateStart, Started
    <3> QED
      BY <2>1, <3>2 DEF RaftMove
  <2>4. CASE ~leads[h.server]
    BY <1>6, <2>4 DEF LateStart, RaftMove, raftVars
  <2> QED
    BY <2>3, <2>4
<1> QED
  BY <1>1, <1>2, <1>3, <1>4, <1>5, <1>6 DEF Next, RaftMove

LEMMA RestartReboots ==
    ASSUME NEW i \in Server, Restart(i)
    PROVE  Rebooted(i)
BY DEF Restart, Rebooted

-----------------------------------------------------------------------------
(* From the log to the state machine *)

TypeApply ==
    /\ lastApplied \in [Server -> Nat] /\ appliers \in [Server -> Nat]
    /\ sending \in [Server -> SUBSET Nat] /\ lastAppliedIndex \in [Server -> Nat]
    /\ machine = [i \in Server |-> machine[i]] /\ boot \in [Server -> Nat]

\* The indices an entry passes are in this order.
InOrder(i) ==
    /\ lastAppliedIndex[i] <= lastApplied[i] /\ lastApplied[i] <= commitIndex[i]
    /\ \A n \in sending[i] : 1 <= n /\ n <= lastApplied[i]

ApplyInv == TypeApply /\ (\A i \in Server : InOrder(i)) /\ NothingLost

\* What the appliers do not notice: at most a higher commitIndex.
ApplyIdle ==
    /\ UNCHANGED <<lastApplied, sending, serverVars, boot, overtaken>>
    /\ appliers' \in [Server -> Nat]
    /\ \A k \in Server : commitIndex[k] <= commitIndex'[k] /\ commitIndex'[k] \in Nat

LEMMA ApplyIdleStep ==
    ASSUME TypeRaft, ApplyInv, ApplyIdle
    PROVE  ApplyInv'
<1>1. TypeApply'
  BY DEF ApplyInv, TypeApply, ApplyIdle, serverVars
<1>2. NothingLost'
  BY DEF ApplyInv, ApplyIdle, serverVars, NothingLost, InTurn
<1>3. ASSUME NEW i \in Server PROVE InOrder(i)'
  <2>1. InOrder(i)
    BY DEF ApplyInv
  <2>2. /\ lastApplied[i] \in Nat /\ commitIndex[i] \in Nat /\ commitIndex'[i] \in Nat
        /\ commitIndex[i] <= commitIndex'[i]
        /\ lastApplied' = lastApplied /\ sending' = sending
        /\ lastAppliedIndex' = lastAppliedIndex
    BY DEF ApplyInv, TypeApply, TypeRaft, ApplyIdle, serverVars
  <2>3. lastApplied'[i] <= commitIndex'[i]
    BY <2>1, <2>2 DEF InOrder
  <2> QED
    BY <2>1, <2>2, <2>3 DEF InOrder
<1> QED
  BY <1>1, <1>2, <1>3 DEF ApplyInv

LEMMA ApplyTakeStep ==
    ASSUME TypeRaft, ApplyInv, NEW i \in Server, ApplyTake(i)
    PROVE  ApplyInv'
<1>1. PICK n \in Nat : n = lastApplied[i] + 1
  BY DEF ApplyInv, TypeApply
<1>2. /\ appliers[i] > 0 /\ lastApplied[i] < commitIndex[i]
      /\ lastApplied' = [lastApplied EXCEPT ![i] = n]
      /\ sending' = [sending EXCEPT ![i] = sending[i] \cup {n}]
      /\ appliers' = [appliers EXCEPT ![i] = appliers[i] - 1]
      /\ commitIndex' = commitIndex /\ machine' = machine /\ boot' = boot
      /\ lastAppliedIndex' = lastAppliedIndex /\ overtaken' = overtaken
  BY <1>1 DEF ApplyTake, raftVars, serverVars, ApplyInv, TypeApply
<1>3. lastApplied[i] \in Nat /\ lastAppliedIndex[i] \in Nat /\ commitIndex[i] \in Nat
      /\ appliers[i] - 1 \in Nat
  BY <1>2 DEF ApplyInv, TypeApply, TypeRaft
<1>4. TypeApply'
  BY <1>2, <1>3 DEF ApplyInv, TypeApply
<1>5. /\ lastApplied'[i] = n /\ sending'[i] = sending[i] \cup {n}
      /\ \A k \in Server : k # i => lastApplied'[k] = lastApplied[k] /\ sending'[k] = sending[k]
  BY <1>2 DEF ApplyInv, TypeApply
<1>6. ASSUME NEW k \in Server PROVE InOrder(k)'
  <2>1. InOrder(k) /\ sending[k] \in SUBSET Nat
    BY DEF ApplyInv, TypeApply
  <2>2. CASE k = i
    <3>1. /\ lastAppliedIndex[i] <= n /\ n <= commitIndex[i]
          /\ \A x \in sending[i] \cup {n} : 1 <= x /\ x <= n
      BY <1>1, <1>2, <1>3, <2>1, <2>2 DEF InOrder
    <3> QED
      BY <1>2, <1>5, <2>2, <3>1 DEF InOrder
  <2>3. CASE k # i
    BY <1>2, <1>5, <2>1, <2>3 DEF InOrder
  <2> QED
    BY <2>2, <2>3
<1>7. ASSUME NEW k \in Server, <<k, boot[k]>> \notin overtaken
      PROVE  sending'[k] = (lastAppliedIndex[k] + 1)..lastApplied'[k]
  <2>1. sending[k] = (lastAppliedIndex[k] + 1)..lastApplied[k]
    BY <1>7 DEF ApplyInv, NothingLost, InTurn
  <2>2. InOrder(i)
    BY DEF ApplyInv
  <2>3. CASE k = i
    <3>1. ((lastAppliedIndex[i] + 1)..lastApplied[i]) \cup {n} = (lastAppliedIndex[i] + 1)..n
      BY <1>1, <1>3, <2>2 DEF InOrder
    <3> QED
      BY <1>5, <2>1, <2>3, <3>1
  <2> QED
    BY <1>5, <2>1, <2>3
<1>8. NothingLost'
  BY <1>2, <1>7 DEF NothingLost, InTurn
<1> QED
  BY <1>4, <1>6, <1>8 DEF ApplyInv

LEMMA ApplyDeliver ==
    ASSUME TypeRaft, ApplyInv, NEW i \in Server, NEW n \in 1..Len(clog), Deliver(i, n)
    PROVE  ApplyInv'
<1>1. /\ n \in sending[i] /\ sending' = [sending EXCEPT ![i] = sending[i] \ {n}]
      /\ appliers' = [appliers EXCEPT ![i] = appliers[i] + 1]
      /\ lastApplied' = lastApplied /\ boot' = boot /\ commitIndex' = commitIndex
      /\ overtaken' = IF n = lastAppliedIndex[i] + 1
                      THEN overtaken ELSE overtaken \cup {<<i, boot[i]>>}
  BY DEF Deliver, raftVars, ApplyInv, TypeApply
<1>2. /\ n > lastAppliedIndex[i] => lastAppliedIndex' = [lastAppliedIndex EXCEPT ![i] = n]
      /\ ~(n > lastAppliedIndex[i]) => lastAppliedIndex' = lastAppliedIndex
  BY DEF Deliver, Fresh, serverVars
<1>3. /\ n \in Nat /\ lastAppliedIndex[i] \in Nat /\ lastApplied[i] \in Nat
      /\ appliers[i] + 1 \in Nat /\ sending[i] \in SUBSET Nat
  BY <1>1 DEF ApplyInv, TypeApply
<1>4. machine' = [k \in Server |-> machine'[k]]
  BY DEF Deliver, serverVars, ApplyInv, TypeApply
<1>5. TypeApply'
  BY <1>1, <1>2, <1>3, <1>4 DEF ApplyInv, TypeApply
<1>6. /\ sending'[i] = sending[i] \ {n}
      /\ \A k \in Server : k # i => /\ sending'[k] = sending[k]
                                    /\ lastAppliedIndex'[k] = lastAppliedIndex[k]
  BY <1>1, <1>2 DEF ApplyInv, TypeApply
<1>7. lastAppliedIndex'[i] = IF n > lastAppliedIndex[i] THEN n ELSE lastAppliedIndex[i]
  BY <1>2 DEF ApplyInv, TypeApply
<1>8. ASSUME NEW k \in Server PROVE InOrder(k)'
  <2>1. InOrder(k) /\ sending[k] \in SUBSET Nat
    BY DEF ApplyInv, TypeApply
  <2>2. CASE k = i
    <3>1. n <= lastApplied[i]
      BY <1>1, <2>1, <2>2 DEF InOrder
    <3>2. lastAppliedIndex'[i] <= lastApplied[i]
      BY <1>7, <2>1, <2>2, <3>1 DEF InOrder
    <3> QED
      BY <1>1, <1>6, <2>1, <2>2, <3>2 DEF InOrder
  <2>3. CASE k # i
    BY <1>1, <1>6, <2>1, <2>3 DEF InOrder
  <2> QED
    BY <2>2, <2>3
<1>9. ASSUME NEW k \in Server, <<k, boot[k]>> \notin overtaken'
      PROVE  sending'[k] = (lastAppliedIndex'[k] + 1)..lastApplied[k]
  <2>1. sending[k] = (lastAppliedIndex[k] + 1)..lastApplied[k]
    BY <1>1, <1>9 DEF ApplyInv, NothingLost, InTurn
  <2>2. CASE k = i
    <3>1. n = lastAppliedIndex[i] + 1
      BY <1>1, <1>9, <2>2
    <3>2. lastAppliedIndex'[i] = n
      BY <1>3, <1>7, <3>1
    <3>3. ((lastAppliedIndex[i] + 1)..lastApplied[i]) \ {n} = (n + 1)..lastApplied[i]
      BY <1>3, <3>1
    <3> QED
      BY <1>6, <2>1, <2>2, <3>2, <3>3
  <2> QED
    BY <1>6, <2>1, <2>2
<1>10. NothingLost'
  BY <1>1, <1>9 DEF NothingLost, InTurn
<1> QED
  BY <1>5, <1>8, <1>10 DEF ApplyInv

LEMMA ApplyRestart ==
    ASSUME TypeRaft, ApplyInv, NEW i \in Server, Restart(i)
    PROVE  ApplyInv'
<1>1. /\ boot' = [boot EXCEPT ![i] = boot[i] + 1]
      /\ commitIndex' = [commitIndex EXCEPT ![i] = 0]
      /\ lastApplied' = [lastApplied EXCEPT ![i] = 0]
      /\ appliers' = [appliers EXCEPT ![i] = 0]
      /\ sending' = [sending EXCEPT ![i] = {}]
      /\ machine' = [machine EXCEPT ![i] = EmptyMachine]
      /\ lastAppliedIndex' = [lastAppliedIndex EXCEPT ![i] = 0]
      /\ overtaken' = overtaken
  BY DEF Restart
<1>2. TypeApply'
  <2>1. boot[i] + 1 \in Nat /\ {} \in SUBSET Nat
    BY DEF ApplyInv, TypeApply
  <2>2. machine' = [k \in Server |-> machine'[k]]
    BY <1>1 DEF ApplyInv, TypeApply
  <2>3. boot' \in [Server -> Nat] /\ sending' \in [Server -> SUBSET Nat]
    BY <1>1, <2>1 DEF ApplyInv, TypeApply
  <2> QED
    BY <1>1, <2>2, <2>3 DEF ApplyInv, TypeApply
<1>3. /\ lastApplied'[i] = 0 /\ sending'[i] = {} /\ lastAppliedIndex'[i] = 0 /\ commitIndex'[i] = 0
      /\ \A k \in Server : k # i =>
            /\ lastApplied'[k] = lastApplied[k] /\ sending'[k] = sending[k]
            /\ lastAppliedIndex'[k] = lastAppliedIndex[k] /\ commitIndex'[k] = commitIndex[k]
            /\ boot'[k] = boot[k]
  BY <1>1 DEF ApplyInv, TypeApply, TypeRaft
<1>4. ASSUME NEW k \in Server PROVE InOrder(k)'
  <2>1. CASE k = i
    BY <1>3, <2>1 DEF InOrder
  <2>2. CASE k # i
    BY <1>3, <2>2 DEF InOrder, ApplyInv
  <2> QED
    BY <2>1, <2>2
<1>5. {} = (0 + 1)..0
  OBVIOUS
<1>6. ASSUME NEW k \in Server, <<k, boot'[k]>> \notin overtaken
      PROVE  sending'[k] = (lastAppliedIndex'[k] + 1)..lastApplied'[k]
  <2>1. CASE k = i
    BY <1>3, <1>5, <2>1
  <2>2. CASE k # i
    BY <1>3, <1>6, <2>2 DEF ApplyInv, NothingLost, InTurn
  <2> QED
    BY <2>1, <2>2
<1>7. NothingLost'
  BY <1>1, <1>6 DEF NothingLost, InTurn
<1> QED
  BY <1>2, <1>4, <1>7 DEF ApplyInv

LEMMA StepApplyInv ==
    ASSUME TypeRaft, ApplyInv, [Next]_vars
    PROVE  ApplyInv'
<1>0. /\ \A k \in Server : commitIndex[k] \in Nat /\ appliers[k] \in Nat
      /\ commitIndex \in [Server -> Nat] /\ appliers \in [Server -> Nat]
  BY DEF TypeRaft, ApplyInv, TypeApply
<1>1. ASSUME UNCHANGED <<commitIndex, applyVars, serverVars, boot, overtaken>>
      PROVE  ApplyIdle
  BY <1>0, <1>1 DEF ApplyIdle, applyVars
<1>2. CASE UNCHANGED vars
  BY <1>1, <1>2, ApplyIdleStep DEF vars, raftVars
<1>3. ASSUME NEW i \in Server, Elect(i) \/ StepDown(i)
      PROVE  ApplyIdle
  BY <1>1, <1>3 DEF Elect, StepDown
<1>4. ASSUME NEW i \in Server, ApplyDone(i)
      PROVE  ApplyIdle
  BY <1>0, <1>4 DEF ApplyIdle, ApplyDone, raftVars
<1>5. ASSUME NEW i \in Server, NEW n \in Nat, Commit(i, n) \/ Learn(i, n)
      PROVE  ApplyIdle
  <2>1. /\ n > commitIndex[i] /\ commitIndex' = [commitIndex EXCEPT ![i] = n]
        /\ appliers' = [appliers EXCEPT ![i] = appliers[i] + 1]
        /\ UNCHANGED <<lastApplied, sending, serverVars, boot, overtaken>>
    BY <1>5 DEF Commit, Learn
  <2> QED
    BY <1>0, <2>1 DEF ApplyIdle
<1>6. ASSUME NEW c \in Client, \/ Invoke(c) \/ LoseCall(c) \/ Receive(c) \/ StartOp(c)
                               \/ Abandon(c) \/ Register(c) \/ Notified(c) \/ Timeout(c)
      PROVE  ApplyIdle
  BY <1>1, <1>6 DEF Invoke, LoseCall, Receive, StartOp, Abandon, Register, Notified, Timeout,
                    raftVars
<1>7. ASSUME NEW h \in late, LateStart(h)
      PROVE  ApplyIdle
  BY <1>1, <1>7 DEF LateStart
<1>8. /\ \A i \in Server : \A n \in 1..Len(log[i]) : n \in Nat
      /\ \A n \in 1..Len(clog) : n \in Nat
  OBVIOUS
<1> QED
  BY <1>2, <1>3, <1>4, <1>5, <1>6, <1>7, <1>8, ApplyIdleStep, ApplyTakeStep, ApplyDeliver,
     ApplyRestart DEF Next

-----------------------------------------------------------------------------
(* First theorems *)

ServiceInv == RaftInv /\ ClerkInv /\ ApplyInv

LEMMA InitService == Init => ServiceInv
<1> SUFFICES ASSUME Init PROVE ServiceInv
  OBVIOUS
<1>1. <<>> \in Seq(Entry) /\ Len(<<>>) = 0 /\ 0 \in Server
  BY ServerFacts, EmptySeq
<1>2. RaftInv
  BY <1>1, LimitAssumption
     DEF Init, RaftInv, TypeRaft, TermsReached, OneLeader, NewestLeader, LeadersHold, Holds
<1>3. ClerkInv
  BY <1>1 DEF Init, ClerkInv, TypeClerk, OwnOp
<1>4. {} = (0 + 1)..0
  OBVIOUS
<1>5. ApplyInv
  BY <1>4 DEF Init, ApplyInv, TypeApply, InOrder, NothingLost, InTurn
<1> QED
  BY <1>2, <1>3, <1>5 DEF ServiceInv

LEMMA ServiceAlways == Spec => []ServiceInv
<1>1. ServiceInv /\ [Next]_vars => ServiceInv'
  <2> SUFFICES ASSUME ServiceInv, [Next]_vars PROVE ServiceInv'
    OBVIOUS
  <2>1. RaftStep
    BY StepRaft, RestartReboots DEF ServiceInv, RaftInv, RaftStep
  <2> QED
    BY <2>1, StepRaftInv, StepClerkInv, StepApplyInv DEF ServiceInv, RaftInv
<1> QED
  BY <1>1, InitService, PTL DEF Spec

\* The types and the order of the indices, for any number of servers, Clerks,
\* leaders and restarts: only committed entries are taken for the service, and
\* what the applier has seen was taken before.
THEOREM KVRaftTypeCorrect == Spec => []TypeOK
<1>1. ServiceInv => TypeOK
  <2> SUFFICES ASSUME ServiceInv PROVE TypeOK
    OBVIOUS
  <2>1. ASSUME NEW i \in Server
        PROVE  /\ commitIndex[i] \in 0..Len(clog) /\ lastApplied[i] \in 0..commitIndex[i]
               /\ lastAppliedIndex[i] \in 0..lastApplied[i] /\ sending[i] \subseteq 1..lastApplied[i]
    <3>1. /\ commitIndex[i] \in Nat /\ commitIndex[i] <= Len(clog) /\ clog \in Seq(Entry)
          /\ lastApplied[i] \in Nat /\ lastAppliedIndex[i] \in Nat /\ sending[i] \in SUBSET Nat
          /\ InOrder(i)
      BY DEF ServiceInv, RaftInv, TypeRaft, ApplyInv, TypeApply
    <3>2. Len(clog) \in Nat
      BY <3>1, LenProperties
    <3> QED
      BY <3>1, <3>2 DEF InOrder
  <2> QED
    BY <2>1 DEF TypeOK, ServiceInv, RaftInv, TypeRaft, ApplyInv, TypeApply, ClerkInv, TypeClerk
<1> QED
  BY <1>1, ServiceAlways, PTL

\* Nothing is handed to the service twice and nothing is left out on its way from
\* the log, with any number of applyCommittedEntries goroutines and restarts, on
\* a server whose applier received in turn.
THEOREM KVRaftNothingLost == Spec => []NothingLost
<1>1. ServiceInv => NothingLost
  BY DEF ServiceInv, ApplyInv
<1> QED
  BY <1>1, ServiceAlways, PTL

-----------------------------------------------------------------------------
(* The stores a log stands for *)

StoreStep(l, s, n) ==
    IF n = 0 THEN [k \in Key |-> Nil]
    ELSE IF FirstCopy(l, n) THEN Execute(s[n - 1], l[n].op) ELSE s[n - 1]

\* The recursive definition has a solution: up to the greatest place where it has
\* one there is nothing that keeps it from going a place further.
LEMMA StoresSolve ==
    ASSUME NEW l \in Seq(Entry)
    PROVE  Stores(l) = [n \in 0..Len(l) |-> StoreStep(l, Stores(l), n)]
<1> DEFINE Solved(m) == \E s : s = [n \in 0..m |-> StoreStep(l, s, n)]
           G == {m \in 0..Len(l) : Solved(m)}
<1>1. Len(l) \in Nat
  BY LenProperties
<1>2. Solved(0)
  <2> DEFINE s == [n \in 0..0 |-> [k \in Key |-> Nil]]
  <2>1. s = [n \in 0..0 |-> StoreStep(l, s, n)]
    BY DEF StoreStep
  <2> QED
    BY <2>1
<1>3. ASSUME NEW m \in 0..Len(l), m < Len(l), Solved(m) PROVE Solved(m + 1)
  <2>1. PICK s : s = [n \in 0..m |-> StoreStep(l, s, n)]
    BY <1>3
  <2> DEFINE t == [n \in 0..(m + 1) |-> StoreStep(l, s, n)]
  <2>2. ASSUME NEW n \in 0..m PROVE t[n] = s[n]
    BY <1>1, <2>1
  <2>3. ASSUME NEW n \in 0..(m + 1) PROVE StoreStep(l, s, n) = StoreStep(l, t, n)
    <3>1. n = 0 \/ n - 1 \in 0..m
      BY <1>1
    <3>2. n = 0 \/ t[n - 1] = s[n - 1]
      BY <2>2, <3>1
    <3> HIDE DEF t
    <3> QED
      BY <3>2 DEF StoreStep
  <2>4. t = [n \in 0..(m + 1) |-> StoreStep(l, t, n)]
    <3>1. \A n \in 0..(m + 1) : t[n] = StoreStep(l, t, n)
      BY <2>3
    <3> QED
      BY <3>1
  <2> QED
    BY <2>4
<1>4. Solved(Len(l))
  <2>1. 0 \in G
    BY <1>1, <1>2
  <2>2. G \subseteq Nat /\ G # {} /\ \A x \in G : x <= Len(l)
    BY <1>1, <2>1
  <2>3. PICK g \in G : \A y \in G : y <= g
    <3> HIDE DEF G
    <3> QED
      BY <1>1, <2>2, Greatest
  <2>4. g \in 0..Len(l) /\ Solved(g)
    OBVIOUS
  <2>5. CASE g < Len(l)
    <3>1. Solved(g + 1) /\ g + 1 \in 0..Len(l)
      BY <1>1, <1>3, <2>4, <2>5
    <3>2. g + 1 \in G
      BY <3>1
    <3> HIDE DEF G
    <3> QED
      BY <1>1, <2>3, <2>4, <3>2
  <2> HIDE DEF Solved, G
  <2>6. g < Len(l) \/ g = Len(l)
    BY <1>1, <2>4
  <2> QED
    BY <2>4, <2>5, <2>6
<1>5. PICK s : s = [n \in 0..Len(l) |-> StoreStep(l, s, n)]
  BY <1>4
<1> QED
  BY <1>5, Zenon DEF Stores, StoreStep

LEMMA StoresAt ==
    ASSUME NEW l \in Seq(Entry)
    PROVE  /\ Stores(l)[0] = [k \in Key |-> Nil]
           /\ \A n \in 1..Len(l) :
                 Stores(l)[n] = IF FirstCopy(l, n) THEN Execute(Stores(l)[n - 1], l[n].op)
                                ELSE Stores(l)[n - 1]
<1>1. Len(l) \in Nat /\ Stores(l) = [n \in 0..Len(l) |-> StoreStep(l, Stores(l), n)]
  BY StoresSolve, LenProperties
<1>2. \A n \in 0..Len(l) : Stores(l)[n] = StoreStep(l, Stores(l), n)
  BY <1>1
<1> QED
  BY <1>1, <1>2 DEF StoreStep

\* The log ll goes on where l ends.
Extends(l, ll) == Len(l) <= Len(ll) /\ \A k \in 1..Len(l) : ll[k] = l[k]

LEMMA FirstCopyKept ==
    ASSUME NEW l \in Seq(Entry), NEW ll \in Seq(Entry), Extends(l, ll), NEW n \in 1..Len(l)
    PROVE  FirstCopy(l, n) <=> FirstCopy(ll, n)
<1>1. Len(l) \in Nat
  BY LenProperties
<1>2. \A m \in 1..(n - 1) : m \in 1..Len(l)
  BY <1>1
<1> QED
  BY <1>2 DEF Extends, FirstCopy

LEMMA StoresKept ==
    ASSUME NEW l \in Seq(Entry), NEW ll \in Seq(Entry), Extends(l, ll)
    PROVE  \A n \in 0..Len(l) : Stores(ll)[n] = Stores(l)[n]
<1> DEFINE Same(m) == \A n \in 0..m : Stores(ll)[n] = Stores(l)[n]
           G == {m \in 0..Len(l) : Same(m)}
<1>1. Len(l) \in Nat /\ Len(ll) \in Nat /\ Len(l) <= Len(ll)
  BY LenProperties DEF Extends
<1>2. Same(0)
  BY StoresAt
<1>3. ASSUME NEW m \in 0..Len(l), m < Len(l), Same(m) PROVE Same(m + 1)
  <2>1. m + 1 \in 1..Len(l) /\ m + 1 \in 1..Len(ll) /\ (m + 1) - 1 = m
    BY <1>1, <1>3
  <2>2. Stores(ll)[m] = Stores(l)[m] /\ ll[m + 1] = l[m + 1]
    BY <1>3, <2>1 DEF Extends
  <2>3. Stores(ll)[m + 1] = Stores(l)[m + 1]
    <3>1. FirstCopy(l, m + 1) <=> FirstCopy(ll, m + 1)
      BY <2>1, FirstCopyKept
    <3>2. Stores(l)[m + 1] = IF FirstCopy(l, m + 1) THEN Execute(Stores(l)[m], l[m + 1].op)
                             ELSE Stores(l)[m]
      BY <2>1, StoresAt
    <3>3. Stores(ll)[m + 1] = IF FirstCopy(ll, m + 1) THEN Execute(Stores(ll)[m], ll[m + 1].op)
                              ELSE Stores(ll)[m]
      BY <2>1, StoresAt
    <3> QED
      BY <2>2, <3>1, <3>2, <3>3
  <2>4. \A n \in 0..(m + 1) : n \in 0..m \/ n = m + 1
    OBVIOUS
  <2> QED
    BY <1>3, <2>3, <2>4
<1>4. PICK g \in G : \A y \in G : y <= g
  <2>1. 0 \in G
    BY <1>1, <1>2
  <2>2. G \subseteq Nat /\ G # {} /\ \A x \in G : x <= Len(l)
    BY <1>1, <2>1
  <2> HIDE DEF G
  <2> QED
    BY <1>1, <2>2, Greatest
<1>5. g \in 0..Len(l) /\ Same(g)
  OBVIOUS
<1>6. CASE g < Len(l)
  <2>1. Same(g + 1) /\ g + 1 \in 0..Len(l)
    BY <1>1, <1>3, <1>5, <1>6
  <2>2. g + 1 \in G
    BY <2>1
  <2> HIDE DEF G
  <2> QED
    BY <1>1, <1>4, <1>5, <2>2
<1>7. CASE g = Len(l)
  BY <1>5, <1>7
<1> QED
  BY <1>1, <1>5, <1>6, <1>7

-----------------------------------------------------------------------------
(* Requests and their sequence numbers *)

\* The Clerk and the sequence number tell the request.
OneOpEach(O) == \A o, p \in O : o.client = p.client /\ o.seq = p.seq => o = p

LastCall == \A c \in Client : seqNum[c] > 0 =>
                op[c] \in Op /\ op[c].client = c /\ op[c].seq = seqNum[c]

OpsInv ==
    /\ LastCall
    /\ Known \subseteq Op /\ OneOpEach(Known)
    /\ \A o \in Known : o.seq <= seqNum[o.client]

LEMMA OpsInPrefix ==
    ASSUME NEW l \in Seq(Entry), NEW n \in 0..Len(l)
    PROVE  OpsIn(SubSeq(l, 1, n)) \subseteq OpsIn(l)
<1>1. Len(l) \in Nat /\ Len(SubSeq(l, 1, n)) = n /\ \A k \in 1..n : SubSeq(l, 1, n)[k] = l[k]
  BY Beginning, LenProperties
<1> QED
  BY <1>1 DEF OpsIn

LEMMA OpsInAppend ==
    ASSUME NEW l \in Seq(Entry), NEW e \in Entry
    PROVE  OpsIn(Append(l, e)) \subseteq OpsIn(l) \cup {e.op}
<1>1. /\ Len(l) \in Nat /\ Len(Append(l, e)) = Len(l) + 1
      /\ \A k \in 1..Len(l) : Append(l, e)[k] = l[k]
      /\ Append(l, e)[Len(l) + 1] = e
  BY AppendProperties, LenProperties
<1>2. ASSUME NEW k \in 1..(Len(l) + 1) PROVE Append(l, e)[k].op \in OpsIn(l) \cup {e.op}
  <2>1. k \in 1..Len(l) \/ k = Len(l) + 1
    BY <1>1
  <2> QED
    BY <1>1, <2>1 DEF OpsIn
<1> QED
  BY <1>1, <1>2 DEF OpsIn

\* The logs hold requests that were made before.
LEMMA LogOpsKnown ==
    ASSUME RaftInv, RaftMove \/ \E i \in Server : Restart(i)
    PROVE  LogOps' \cup OpsIn(clog') \subseteq Known
<1>0. /\ log \in [Server -> Seq(Entry)] /\ clog \in Seq(Entry)
      /\ \A k \in Server : log[k] \in Seq(Entry) /\ Len(log[k]) \in Nat
      /\ Len(clog) \in Nat
  BY LenProperties DEF RaftInv, TypeRaft
<1>1. /\ \A k \in Server : OpsIn(log[k]) \subseteq Known
      /\ OpsIn(clog) \subseteq Known
  BY DEF Known, LogOps
<1>2. ASSUME \A k \in Server : OpsIn(log'[k]) \subseteq Known
      PROVE  LogOps' \subseteq Known
  BY <1>2 DEF LogOps
<1>3. CASE log' = log /\ clog' = clog
  BY <1>1, <1>2, <1>3
<1>4. ASSUME NEW i \in Server, NEW l, OpsIn(l) \subseteq Known, log' = [log EXCEPT ![i] = l],
             clog' = clog
      PROVE  LogOps' \cup OpsIn(clog') \subseteq Known
  <2>1. \A k \in Server : log'[k] = l \/ log'[k] = log[k]
    BY <1>0, <1>4
  <2> QED
    BY <1>1, <1>2, <1>4, <2>1
<1>5. ASSUME NEW i \in Server, Elect(i)
      PROVE  LogOps' \cup OpsIn(clog') \subseteq Known
  <2>1. PICK j \in Server : \E n \in Len(clog)..Len(log[j]) :
           log' = [log EXCEPT ![i] = SubSeq(log[j], 1, n)]
    BY <1>5 DEF Elect
  <2>2. PICK n \in Len(clog)..Len(log[j]) : log' = [log EXCEPT ![i] = SubSeq(log[j], 1, n)]
    BY <2>1
  <2>3. n \in 0..Len(log[j])
    BY <1>0
  <2>4. OpsIn(SubSeq(log[j], 1, n)) \subseteq Known
    BY <1>0, <1>1, <2>3, OpsInPrefix
  <2>5. clog' = clog
    BY <1>5 DEF Elect
  <2> QED
    BY <1>4, <2>2, <2>4, <2>5
<1>6. ASSUME NEW i \in Server, StepDown(i)
      PROVE  log' = log /\ clog' = clog
  BY <1>6 DEF StepDown
<1>7. ASSUME NEW i \in Server, NEW e \in Entry, Started(i, e)
      PROVE  LogOps' \cup OpsIn(clog') \subseteq Known
  <2>1. e.op \in Known /\ log' = [log EXCEPT ![i] = Append(log[i], e)] /\ clog' = clog
    BY <1>7 DEF Started
  <2>2. OpsIn(Append(log[i], e)) \subseteq Known
    BY <1>0, <1>1, <2>1, OpsInAppend
  <2> QED
    BY <1>4, <2>1, <2>2
<1>8. ASSUME NEW i \in Server, NEW n \in 1..Len(log[i]), Commit(i, n)
      PROVE  LogOps' \cup OpsIn(clog') \subseteq Known
  <2>1. clog' = SubSeq(log[i], 1, n) /\ log' = log
    BY <1>8 DEF Commit
  <2>2. n \in 0..Len(log[i])
    BY <1>0
  <2>3. OpsIn(clog') \subseteq Known
    BY <1>0, <1>1, <2>1, <2>2, OpsInPrefix
  <2> QED
    BY <1>1, <1>2, <2>1, <2>3
<1>9. ASSUME NEW i \in Server, NEW n \in 1..Len(clog), Learn(i, n)
      PROVE  LogOps' \cup OpsIn(clog') \subseteq Known
  <2>1. PICK l : /\ log' = [log EXCEPT ![i] = l] /\ clog' = clog
                 /\ l = log[i] \/ l = SubSeq(clog, 1, n)
    BY <1>9 DEF Learn
  <2>2. n \in 0..Len(clog)
    BY <1>0
  <2>3. OpsIn(l) \subseteq Known
    BY <1>0, <1>1, <2>1, <2>2, OpsInPrefix
  <2> QED
    BY <1>4, <2>1, <2>3
<1>10. ASSUME NEW i \in Server, Restart(i)
       PROVE  log' = log /\ clog' = clog
  BY <1>10 DEF Restart
<1> QED
  BY <1>3, <1>5, <1>6, <1>7, <1>8, <1>9, <1>10 DEF RaftMove, raftVars

LEMMA OpsInvoke ==
    ASSUME ServiceInv, OpsInv, NEW c \in Client, Invoke(c)
    PROVE  OpsInv'
<1>1. PICK t \in OpType, k \in Key : op' = [op EXCEPT ![c] = OpOf(t, k, c, seqNum[c] + 1)]
  BY DEF Invoke
<1>2. /\ seqNum' = [seqNum EXCEPT ![c] = seqNum[c] + 1]
      /\ log' = log /\ clog' = clog /\ late' = late
  BY DEF Invoke, raftVars
<1>3. /\ seqNum \in [Client -> Nat] /\ seqNum[c] \in Nat /\ seqNum[c] + 1 \in Nat \ {0}
      /\ op \in [Client -> Op \cup {Nil}]
  BY DEF ServiceInv, ClerkInv, TypeClerk
<1>4. PICK o \in Op : o = OpOf(t, k, c, seqNum[c] + 1)
  <2>1. OpOf(t, k, c, seqNum[c] + 1) \in Op
    BY <1>3 DEF OpOf, Op
  <2> QED
    BY <2>1
<1>5. o.client = c /\ o.seq = seqNum[c] + 1
  BY <1>4 DEF OpOf
<1>6. /\ op'[c] = o /\ seqNum'[c] = seqNum[c] + 1
      /\ \A x \in Client : x # c => op'[x] = op[x] /\ seqNum'[x] = seqNum[x]
  BY <1>1, <1>2, <1>3, <1>4
<1>7. LastCall'
  BY <1>5, <1>6 DEF LastCall, OpsInv
<1>8. Known' \subseteq Known \cup {o}
  <2>1. LastOps' \subseteq LastOps \cup {o}
    BY <1>6 DEF LastOps
  <2>2. LogOps' = LogOps /\ LateOps' = LateOps /\ OpsIn(clog') = OpsIn(clog)
    BY <1>2 DEF LogOps, LateOps
  <2> QED
    BY <2>1, <2>2 DEF Known
<1>9. \A p \in Known : p \in Op /\ p.client \in Client /\ p.seq \in Nat /\ p.seq <= seqNum[p.client]
  BY DEF OpsInv, Op
<1>10. \A p \in Known : p.client # c \/ p.seq # o.seq
  BY <1>3, <1>5, <1>9
<1>11. OneOpEach(Known')
  BY <1>5, <1>8, <1>10 DEF OpsInv, OneOpEach
<1>12. ASSUME NEW p \in Known' PROVE p \in Op /\ p.seq <= seqNum'[p.client]
  <2>1. CASE p \in Known
    <3>1. seqNum[p.client] <= seqNum'[p.client] /\ seqNum[p.client] \in Nat
          /\ seqNum'[p.client] \in Nat
      BY <1>3, <1>6, <1>9, <2>1
    <3> QED
      BY <1>9, <2>1, <3>1
  <2>2. CASE p = o
    BY <1>3, <1>5, <1>6, <2>2
  <2> QED
    BY <1>8, <2>1, <2>2
<1> QED
  BY <1>7, <1>11, <1>12 DEF OpsInv

LEMMA OpsKept ==
    ASSUME OpsInv, Known' \subseteq Known, op' = op, seqNum' = seqNum
    PROVE  OpsInv'
<1>1. LastCall'
  BY DEF OpsInv, LastCall
<1>2. OneOpEach(Known')
  BY DEF OpsInv, OneOpEach
<1> QED
  BY <1>1, <1>2 DEF OpsInv

LEMMA StepOpsInv ==
    ASSUME ServiceInv, OpsInv, [Next]_vars
    PROVE  OpsInv'
<1>1. LogOps' \cup OpsIn(clog') \subseteq Known
  BY StepRaft, LogOpsKnown DEF ServiceInv, RaftInv
<1>2. ASSUME late' \subseteq late, op' = op, seqNum' = seqNum
      PROVE  OpsInv'
  <2>1. LateOps' \subseteq LateOps /\ LastOps' = LastOps
    BY <1>2 DEF LateOps, LastOps
  <2>2. Known' \subseteq Known
    BY <1>1, <2>1 DEF Known
  <2> QED
    BY <1>2, <2>2, OpsKept
<1>3. CASE UNCHANGED vars
  BY <1>2, <1>3 DEF vars, clerkVars
<1>4. ASSUME NEW i \in Server, \/ Elect(i) \/ StepDown(i) \/ ApplyTake(i) \/ ApplyDone(i)
                               \/ Restart(i)
      PROVE  late' \subseteq late /\ op' = op /\ seqNum' = seqNum
  BY <1>4 DEF Elect, StepDown, ApplyTake, ApplyDone, Restart, clerkVars
<1>5. ASSUME NEW i \in Server, NEW n, Commit(i, n) \/ Learn(i, n) \/ Deliver(i, n)
      PROVE  late' \subseteq late /\ op' = op /\ seqNum' = seqNum
  BY <1>5 DEF Commit, Learn, Deliver, clerkVars
<1>6. ASSUME NEW c \in Client, \/ LoseCall(c) \/ Receive(c) \/ StartOp(c) \/ Register(c)
                               \/ Notified(c) \/ Timeout(c)
      PROVE  late' \subseteq late /\ op' = op /\ seqNum' = seqNum
  BY <1>6 DEF LoseCall, Receive, StartOp, Register, Notified, Timeout
<1>7. ASSUME NEW h \in late, LateStart(h)
      PROVE  late' \subseteq late /\ op' = op /\ seqNum' = seqNum
  BY <1>7 DEF LateStart, clerkVars
<1>8. ASSUME NEW c \in Client, Abandon(c)
      PROVE  OpsInv'
  <2>1. /\ late' = late \/ late' = late \cup {[op |-> op[c], server |-> server[c]]}
        /\ op' = op /\ seqNum' = seqNum /\ pc[c] # "idle"
    BY <1>8 DEF Abandon
  <2>2. op[c] \in Op /\ op[c].seq = seqNum[c]
    BY <2>1 DEF ServiceInv, ClerkInv, OwnOp
  <2>3. op[c] \in LastOps
    BY <2>2 DEF Op, LastOps
  <2>4. \A h \in late' : h \in late \/ h.op = op[c]
    BY <2>1
  <2>5. LateOps' \subseteq LateOps \cup LastOps /\ LastOps' = LastOps
    BY <2>1, <2>3, <2>4 DEF LateOps, LastOps
  <2>6. Known' \subseteq Known
    BY <1>1, <2>5 DEF Known
  <2> QED
    BY <2>1, <2>6, OpsKept
<1> QED
  BY <1>2, <1>3, <1>4, <1>5, <1>6, <1>7, <1>8, OpsInvoke DEF Next

-----------------------------------------------------------------------------
(* Handlers that wait *)

\* While the term is the one Start returned, the server leads and the request
\* stands where Start put it.
WaitOK(c) ==
    pc[c] \in {"started", "waiting"} =>
        /\ wait[c].index \in 1..MaxLog /\ wait[c].term \in Nat
        /\ wait[c].term <= term[server[c]]
        /\ wait[c].term = term[server[c]] =>
              /\ leads[server[c]] /\ wait[c].index <= Len(log[server[c]])
              /\ log[server[c]][wait[c].index].op = op[c]

\* A registered channel is that of a handler which waits there.
Registered ==
    \A i \in Server : \A n \in 1..MaxLog : \A c \in Client :
        notifyChans[i][n] = c => pc[c] = "waiting" /\ server[c] = i /\ wait[c].index = n

\* Only a handler that waits has a result.
Quiet == \A c \in Client : pc[c] # "waiting" => result[c] = Nil

HandlerInv == (\A c \in Client : WaitOK(c)) /\ Registered /\ Quiet

\* A peer that leads goes on in the same term only with all its log.
LEMMA LeaderKept ==
    ASSUME RaftInv, RaftMove, NEW i \in Server
    PROVE  /\ term[i] \in Nat /\ term'[i] \in Nat /\ term[i] <= term'[i]
           /\ leads[i] /\ term'[i] = term[i] =>
                 /\ leads'[i] /\ Len(log[i]) <= Len(log'[i])
                 /\ \A n \in 1..Len(log[i]) : log'[i][n] = log[i][n]
<1>0. /\ log \in [Server -> Seq(Entry)] /\ term \in [Server -> 0..MaxTerm]
      /\ leads \in [Server -> BOOLEAN] /\ term[i] \in Nat /\ Len(log[i]) \in Nat
      /\ log[i] \in Seq(Entry)
  BY LenProperties DEF RaftInv, TypeRaft
<1> DEFINE Kept == /\ term'[i] \in Nat /\ term[i] <= term'[i]
                   /\ leads[i] /\ term'[i] = term[i] =>
                         /\ leads'[i] /\ Len(log[i]) <= Len(log'[i])
                         /\ \A n \in 1..Len(log[i]) : log'[i][n] = log[i][n]
<1>1. CASE term'[i] = term[i] /\ leads'[i] = leads[i] /\ log'[i] = log[i]
  BY <1>0, <1>1
<1>2. ASSUME NEW j \in Server, Elect(j) PROVE Kept
  <2>1. LastElected \in 0..MaxTerm /\ term[i] <= LastElected
    BY LastElectedIs DEF RaftInv
  <2>2. PICK l : log' = [log EXCEPT ![j] = l]
    BY <1>2 DEF Elect
  <2>3. term' = [term EXCEPT ![j] = LastElected + 1] /\ leads' = [leads EXCEPT ![j] = TRUE]
    BY <1>2 DEF Elect
  <2>4. CASE i = j
    <3>1. term'[i] = LastElected + 1
      BY <1>0, <2>3, <2>4
    <3>2. term'[i] \in Nat /\ term[i] < term'[i]
      BY <1>0, <2>1, <3>1
    <3> QED
      BY <1>0, <3>2
  <2>5. CASE i # j
    BY <1>0, <1>1, <2>2, <2>3, <2>5
  <2> QED
    BY <2>4, <2>5
<1>3. ASSUME NEW j \in Server, StepDown(j) PROVE Kept
  <2>1. PICK k \in Server : term[k] > term[j] /\ term' = [term EXCEPT ![j] = term[k]]
    BY <1>3 DEF StepDown
  <2>2. leads' = [leads EXCEPT ![j] = FALSE] /\ log' = log
    BY <1>3 DEF StepDown
  <2>3. CASE i = j
    <3>1. term'[i] \in Nat /\ term[i] < term'[i]
      BY <1>0, <2>1, <2>3
    <3> QED
      BY <1>0, <3>1
  <2>4. CASE i # j
    BY <1>0, <1>1, <2>1, <2>2, <2>4
  <2> QED
    BY <2>3, <2>4
<1>4. ASSUME NEW j \in Server, NEW e \in Entry, Started(j, e) PROVE Kept
  <2>1. log' = [log EXCEPT ![j] = Append(log[j], e)] /\ term' = term /\ leads' = leads
    BY <1>4 DEF Started
  <2>2. CASE i = j
    <3>1. log'[i] = Append(log[i], e)
      BY <1>0, <2>1, <2>2
    <3>2. Len(log'[i]) = Len(log[i]) + 1 /\ \A n \in 1..Len(log[i]) : log'[i][n] = log[i][n]
      BY <1>0, <3>1, AppendProperties
    <3> QED
      BY <1>0, <2>1, <3>2
  <2>3. CASE i # j
    BY <1>0, <1>1, <2>1, <2>3
  <2> QED
    BY <2>2, <2>3
<1>5. ASSUME NEW j \in Server, NEW n, Commit(j, n) PROVE Kept
  BY <1>1, <1>5 DEF Commit
<1>6. ASSUME NEW j \in Server, NEW n \in 1..Len(clog), Learn(j, n) PROVE Kept
  <2>1. /\ ~leads[j] \/ term[j] < clog[n].term
        /\ term' = [term EXCEPT ![j] = IF term[j] < clog[n].term THEN clog[n].term ELSE term[j]]
        /\ leads' = [leads EXCEPT ![j] = FALSE]
    BY <1>6 DEF Learn
  <2>2. PICK l : log' = [log EXCEPT ![j] = l]
    BY <1>6 DEF Learn
  <2>3. clog[n].term \in Nat
    <3>1. clog[n] \in Entry
      BY ElementOfSeq DEF RaftInv, TypeRaft
    <3> QED
      BY <3>1 DEF Entry
  <2>4. CASE i = j
    <3>1. term'[i] = IF term[i] < clog[n].term THEN clog[n].term ELSE term[i]
      BY <1>0, <2>1, <2>4
    <3>2. term'[i] \in Nat /\ term[i] <= term'[i]
      BY <1>0, <2>3, <3>1
    <3>3. term[i] < clog[n].term => term'[i] # term[i]
      BY <1>0, <2>3, <3>1
    <3> QED
      BY <1>0, <2>1, <2>4, <3>2, <3>3
  <2>5. CASE i # j
    BY <1>0, <1>1, <2>1, <2>2, <2>5
  <2> QED
    BY <2>4, <2>5
<1> QED
  BY <1>0, <1>1, <1>2, <1>3, <1>4, <1>5, <1>6 DEF RaftMove, raftVars

\* A Clerk whose call takes no part in the step.
Stays(k) ==
    pc'[k] = pc[k] /\ server'[k] = server[k] /\ wait'[k] = wait[k] /\ op'[k] = op[k]
OnlyClerk(c) == \A k \in Client : k # c => Stays(k) /\ result'[k] = result[k]

\* The handler of c calls Start on a leader.
StartsCall(c) ==
    LET i == server[c]
    IN  /\ leads[i] /\ Len(log[i]) < MaxLog
        /\ log'[i] = Append(log[i], [term |-> term[i], op |-> op[c]])
        /\ term'[i] = term[i] /\ leads'[i] = leads[i]
        /\ server'[c] = i /\ op'[c] = op[c]
        /\ wait'[c] = [index |-> Len(log[i]) + 1, term |-> term[i]]

\* The call of c goes on before its handler waits.
Busy(c) ==
    /\ OnlyClerk(c) /\ notifyChans' = notifyChans /\ result' = result
    /\ pc[c] # "waiting" /\ pc'[c] # "waiting"
    /\ pc'[c] = "started" => StartsCall(c)

Aside == UNCHANGED <<clerkVars, notifyChans, result>>

LEMMA BusyCalls ==
    ASSUME RaftInv, ClerkInv, NEW c \in Client,
           Invoke(c) \/ LoseCall(c) \/ Receive(c) \/ StartOp(c) \/ Abandon(c)
    PROVE  Busy(c)
<1>0. /\ seqNum \in [Client -> Nat] /\ op \in [Client -> Op \cup {Nil}]
      /\ server \in [Client -> Server] /\ lastLeader \in [Client -> Server]
      /\ pc \in [Client -> {"idle", "sent", "checked", "started", "waiting"}]
      /\ wait = [k \in Client |-> wait[k]]
  BY DEF ClerkInv, TypeClerk
<1>1. ASSUME Invoke(c) PROVE Busy(c)
  <2>1. PICK o : op' = [op EXCEPT ![c] = o]
    BY <1>1 DEF Invoke
  <2>2. /\ pc[c] = "idle" /\ server' = [server EXCEPT ![c] = lastLeader[c]]
        /\ pc' = [pc EXCEPT ![c] = "sent"] /\ wait' = wait /\ notifyChans' = notifyChans
        /\ result' = result
    BY <1>1 DEF Invoke
  <2> QED
    BY <1>0, <2>1, <2>2 DEF Busy, OnlyClerk, Stays
<1>2. ASSUME LoseCall(c) PROVE Busy(c)
  <2>1. /\ pc[c] = "sent" /\ NextServer(c) /\ op' = op /\ wait' = wait
        /\ notifyChans' = notifyChans /\ result' = result
    BY <1>2 DEF LoseCall
  <2>2. pc'[c] = "sent" /\ \A k \in Client : k # c => pc'[k] = pc[k] /\ server'[k] = server[k]
    BY <2>1, ClerkGoesRound
  <2> QED
    BY <2>1, <2>2 DEF Busy, OnlyClerk, Stays
<1>3. ASSUME \E err, value : Reply(c, err, value), pc[c] \notin {"idle", "waiting"},
             op' = op, notifyChans' = notifyChans, result' = result
      PROVE  Busy(c)
  <2>1. /\ pc'[c] \in {"idle", "sent"}
        /\ \A k \in Client : k # c => /\ pc'[k] = pc[k] /\ server'[k] = server[k]
                                      /\ wait'[k] = wait[k]
    BY <1>3, ClerkReply
  <2> QED
    BY <1>3, <2>1 DEF Busy, OnlyClerk, Stays
<1>4. ASSUME Receive(c) PROVE Busy(c)
  <2>1. pc[c] = "sent" /\ op' = op /\ notifyChans' = notifyChans /\ result' = result
    BY <1>4 DEF Receive
  <2>2. \/ \E err, value : Reply(c, err, value)
        \/ /\ pc' = [pc EXCEPT ![c] = "checked"] /\ server' = server /\ wait' = wait
    BY <1>4 DEF Receive
  <2>3. CASE pc' = [pc EXCEPT ![c] = "checked"] /\ server' = server /\ wait' = wait
    BY <1>0, <2>1, <2>3 DEF Busy, OnlyClerk, Stays
  <2> QED
    BY <1>3, <2>1, <2>2, <2>3
<1>5. ASSUME StartOp(c) PROVE Busy(c)
  <2>1. pc[c] = "checked" /\ op' = op /\ notifyChans' = notifyChans /\ result' = result
        /\ term' = term /\ leads' = leads
    BY <1>5 DEF StartOp
  <2>2. CASE leads[server[c]]
    <3> DEFINE i == server[c]
    <3>1. /\ Len(log[i]) < MaxLog
          /\ log' = [log EXCEPT ![i] = Append(log[i], [term |-> term[i], op |-> op[c]])]
          /\ wait' = [wait EXCEPT ![c] = [index |-> Len(log[i]) + 1, term |-> term[i]]]
          /\ pc' = [pc EXCEPT ![c] = "started"]
          /\ server' = server
      BY <1>5, <2>2 DEF StartOp
    <3>2. OnlyClerk(c) /\ pc'[c] = "started"
      BY <1>0, <2>1, <3>1 DEF OnlyClerk, Stays
    <3>3. i \in Server /\ log \in [Server -> Seq(Entry)]
      BY <1>0 DEF RaftInv, TypeRaft
    <3>4. /\ log'[i] = Append(log[i], [term |-> term[i], op |-> op[c]])
          /\ wait'[c] = [index |-> Len(log[i]) + 1, term |-> term[i]]
      BY <1>0, <3>1, <3>3
    <3>5. StartsCall(c)
      BY <2>1, <2>2, <3>1, <3>4 DEF StartsCall
    <3> QED
      BY <2>1, <3>2, <3>5 DEF Busy
  <2>3. CASE ~leads[server[c]]
    <3>1. \E err, value : Reply(c, err, value)
      BY <1>5, <2>3 DEF StartOp
    <3> QED
      BY <1>3, <2>1, <3>1
  <2> QED
    BY <2>2, <2>3
<1>6. ASSUME Abandon(c) PROVE Busy(c)
  <2>1. /\ pc[c] \in {"checked", "started"} /\ NextServer(c) /\ op' = op
        /\ wait' = [wait EXCEPT ![c] = Nil] /\ notifyChans' = notifyChans /\ result' = result
    BY <1>6 DEF Abandon
  <2>2. pc'[c] = "sent" /\ \A k \in Client : k # c => pc'[k] = pc[k] /\ server'[k] = server[k]
    BY <2>1, ClerkGoesRound
  <2> QED
    BY <1>0, <2>1, <2>2 DEF Busy, OnlyClerk, Stays
<1> QED
  BY <1>1, <1>2, <1>4, <1>5, <1>6

\* What a step is to the handlers.
LEMMA StepHandlers ==
    ASSUME RaftInv, ClerkInv, [Next]_vars
    PROVE  \/ Aside
           \/ \E i \in Server : Restart(i)
           \/ \E i \in Server : \E n \in 1..Len(clog) : Deliver(i, n)
           \/ \E c \in Client : Busy(c) \/ Register(c) \/ Notified(c) \/ Timeout(c)
<1>1. CASE UNCHANGED vars
  BY <1>1 DEF vars, Aside
<1>2. ASSUME NEW i \in Server, Elect(i) \/ StepDown(i) \/ ApplyTake(i) \/ ApplyDone(i)
      PROVE  Aside
  BY <1>2 DEF Aside, Elect, StepDown, ApplyTake, ApplyDone
<1>3. ASSUME NEW i \in Server, NEW n, Commit(i, n) \/ Learn(i, n)
      PROVE  Aside
  BY <1>3 DEF Aside, Commit, Learn
<1>4. ASSUME NEW h \in late, LateStart(h)
      PROVE  Aside
  BY <1>4 DEF LateStart, Aside
<1> QED
  BY <1>1, <1>2, <1>3, <1>4, BusyCalls DEF Next

LEMMA WaitKept ==
    ASSUME RaftInv, ClerkInv, RaftMove, NEW k \in Client, WaitOK(k), Stays(k)
    PROVE  WaitOK(k)'
<1> SUFFICES ASSUME pc[k] \in {"started", "waiting"}
             PROVE  /\ wait[k].index \in 1..MaxLog /\ wait[k].term \in Nat
                    /\ wait[k].term <= term'[server[k]]
                    /\ wait[k].term = term'[server[k]] =>
                          /\ leads'[server[k]] /\ wait[k].index <= Len(log'[server[k]])
                          /\ log'[server[k]][wait[k].index].op = op[k]
  BY DEF WaitOK, Stays
<1> DEFINE i == server[k]
<1>1. i \in Server
  BY DEF ClerkInv, TypeClerk
<1>2. /\ term[i] \in Nat /\ term'[i] \in Nat /\ term[i] <= term'[i]
      /\ leads[i] /\ term'[i] = term[i] =>
            /\ leads'[i] /\ Len(log[i]) <= Len(log'[i])
            /\ \A n \in 1..Len(log[i]) : log'[i][n] = log[i][n]
  BY <1>1, LeaderKept
<1>3. /\ wait[k].index \in 1..MaxLog /\ wait[k].term \in Nat /\ wait[k].term <= term[i]
      /\ wait[k].term = term[i] => /\ leads[i] /\ wait[k].index <= Len(log[i])
                                   /\ log[i][wait[k].index].op = op[k]
  BY DEF WaitOK
<1>4. wait[k].term <= term'[i]
  BY <1>2, <1>3
<1>5. ASSUME wait[k].term = term'[i]
      PROVE  /\ leads'[i] /\ wait[k].index <= Len(log'[i])
             /\ log'[i][wait[k].index].op = op[k]
  <2>1. term'[i] = term[i] /\ wait[k].term = term[i]
    BY <1>2, <1>3, <1>5
  <2>2. leads[i] /\ wait[k].index <= Len(log[i]) /\ log[i][wait[k].index].op = op[k]
    BY <1>3, <2>1
  <2>3. /\ leads'[i] /\ Len(log[i]) <= Len(log'[i])
        /\ \A n \in 1..Len(log[i]) : log'[i][n] = log[i][n]
    BY <1>2, <2>1, <2>2
  <2>4. Len(log[i]) \in Nat /\ Len(log'[i]) \in Nat
    <3>1. RaftInv'
      BY StepRaftInv DEF RaftStep
    <3>2. log[i] \in Seq(Entry) /\ log'[i] \in Seq(Entry)
      BY <1>1, <3>1 DEF RaftInv, TypeRaft
    <3> QED
      BY <3>2, LenProperties
  <2>5. wait[k].index \in 1..Len(log[i]) /\ wait[k].index <= Len(log'[i])
    BY <1>3, <2>2, <2>3, <2>4
  <2> QED
    BY <2>2, <2>3, <2>5
<1> QED
  BY <1>3, <1>4, <1>5

LEMMA WaitStarts ==
    ASSUME RaftInv, ClerkInv, NEW c \in Client, StartsCall(c)
    PROVE  WaitOK(c)'
<1> DEFINE i == server[c]
           e == [term |-> term[i], op |-> op[c]]
<1>1. i \in Server
  BY DEF ClerkInv, TypeClerk
<1>2. /\ log[i] \in Seq(Entry) /\ Len(log[i]) \in Nat /\ term[i] \in Nat
  BY <1>1, LenProperties DEF RaftInv, TypeRaft
<1>3. /\ leads[i] /\ Len(log[i]) < MaxLog /\ log'[i] = Append(log[i], e)
      /\ term'[i] = term[i] /\ leads'[i] = leads[i] /\ server'[c] = i /\ op'[c] = op[c]
      /\ wait'[c] = [index |-> Len(log[i]) + 1, term |-> term[i]]
  BY DEF StartsCall
<1>4. Len(log'[i]) = Len(log[i]) + 1 /\ log'[i][Len(log[i]) + 1] = e
  BY <1>2, <1>3, AppendProperties
<1>5. wait'[c].index = Len(log[i]) + 1 /\ wait'[c].term = term[i] /\ e.op = op[c]
  BY <1>3
<1>6. wait'[c].index \in 1..MaxLog /\ wait'[c].index <= Len(log'[i])
  BY <1>2, <1>3, <1>4, <1>5, LimitAssumption
<1>7. log'[i][wait'[c].index].op = op[c]
  BY <1>4, <1>5
<1>8. wait'[c].term \in Nat /\ wait'[c].term <= term'[i] /\ leads'[i]
  BY <1>2, <1>3, <1>5
<1>9. server'[c] = i /\ op'[c] = op[c]
  BY <1>3
<1> HIDE DEF i, e
<1> QED
  BY <1>6, <1>7, <1>8, <1>9 DEF WaitOK

LEMMA RegisterCall ==
    ASSUME ClerkInv, NEW c \in Client, Register(c)
    PROVE  /\ OnlyClerk(c) /\ pc[c] = "started" /\ pc'[c] = "waiting"
           /\ server' = server /\ wait' = wait /\ op' = op
           /\ notifyChans' = [notifyChans EXCEPT ![server[c]][wait[c].index] = c]
           /\ result'[c] = Nil
<1>0. /\ pc \in [Client -> {"idle", "sent", "checked", "started", "waiting"}]
      /\ result = [k \in Client |-> result[k]]
  BY DEF ClerkInv, TypeClerk
<1>1. /\ pc[c] = "started" /\ pc' = [pc EXCEPT ![c] = "waiting"]
      /\ notifyChans' = [notifyChans EXCEPT ![server[c]][wait[c].index] = c]
      /\ result' = [result EXCEPT ![c] = Nil]
      /\ op' = op /\ server' = server /\ wait' = wait
  BY DEF Register
<1>2. result'[c] = Nil /\ \A k \in Client : k # c => result'[k] = result[k]
  BY <1>0, <1>1
<1> QED
  BY <1>0, <1>1, <1>2 DEF OnlyClerk, Stays

LEMMA DoneCall ==
    ASSUME ClerkInv, NEW c \in Client, Notified(c) \/ Timeout(c)
    PROVE  /\ OnlyClerk(c) /\ pc[c] = "waiting" /\ pc'[c] \in {"idle", "sent"}
           /\ notifyChans' = [notifyChans EXCEPT ![server[c]][wait[c].index] = Nil]
           /\ result'[c] = Nil
<1>1. /\ pc[c] = "waiting" /\ \E err, value : Reply(c, err, value)
      /\ notifyChans' = [notifyChans EXCEPT ![server[c]][wait[c].index] = Nil]
      /\ result' = [result EXCEPT ![c] = Nil]
      /\ op' = op
  BY DEF Notified, Timeout, Unregister
<1>2. /\ pc'[c] \in {"idle", "sent"}
      /\ \A k \in Client : k # c => /\ pc'[k] = pc[k] /\ server'[k] = server[k]
                                    /\ wait'[k] = wait[k]
  BY <1>1, ClerkReply
<1>3. result'[c] = Nil /\ \A k \in Client : k # c => result'[k] = result[k]
  BY <1>1 DEF ClerkInv, TypeClerk
<1> QED
  BY <1>1, <1>2, <1>3 DEF OnlyClerk, Stays

\* A restart ends the calls the server was serving and no other.
LEMMA RestartCalls ==
    ASSUME ClerkInv, NEW i \in Server, Restart(i), NEW k \in Client
    PROVE  /\ op'[k] = op[k]
           /\ \/ pc'[k] = "sent" /\ result'[k] = Nil
              \/ /\ Stays(k) /\ result'[k] = result[k]
                 /\ pc[k] \in {"started", "waiting"} => server[k] # i
<1> DEFINE served == {c \in Client : server[c] = i /\ pc[c] \in {"checked", "started", "waiting"}}
<1>1. /\ server' = [c \in Client |-> IF c \in served THEN (i + 1) % N ELSE server[c]]
      /\ pc' = [c \in Client |-> IF c \in served THEN "sent" ELSE pc[c]]
      /\ wait' = [c \in Client |-> IF c \in served THEN Nil ELSE wait[c]]
      /\ result' = [c \in Client |-> IF c \in served THEN Nil ELSE result[c]]
      /\ op' = op
  BY DEF Restart
<1>2. k \notin served /\ pc[k] \in {"started", "waiting"} => server[k] # i
  OBVIOUS
<1> HIDE DEF served
<1> QED
  BY <1>1, <1>2 DEF Stays

LEMMA AsideStays ==
    ASSUME Aside, NEW k \in Client
    PROVE  Stays(k) /\ result' = result /\ notifyChans' = notifyChans
BY DEF Aside, Stays, clerkVars

LEMMA DeliverStays ==
    ASSUME NEW i, NEW n, Deliver(i, n), NEW k \in Client
    PROVE  Stays(k) /\ notifyChans' = notifyChans
BY DEF Deliver, Stays, clerkVars

LEMMA StepWaits ==
    ASSUME RaftInv, ClerkInv, HandlerInv, [Next]_vars, NEW k \in Client
    PROVE  WaitOK(k)'
<1>0. WaitOK(k)
  BY DEF HandlerInv
<1>1. ASSUME NEW i \in Server, Restart(i) PROVE WaitOK(k)'
  <2>1. CASE pc'[k] = "sent"
    BY <2>1 DEF WaitOK
  <2>2. CASE Stays(k) /\ (pc[k] \in {"started", "waiting"} => server[k] # i)
    <3>1. /\ leads' = [leads EXCEPT ![i] = FALSE] /\ term' = term /\ log' = log
          /\ leads \in [Server -> BOOLEAN] /\ server[k] \in Server
      BY <1>1 DEF Restart, RaftInv, TypeRaft, ClerkInv, TypeClerk
    <3>2. pc[k] \in {"started", "waiting"} => leads'[server[k]] = leads[server[k]]
      BY <2>2, <3>1
    <3>3. pc'[k] = pc[k] /\ server'[k] = server[k] /\ wait'[k] = wait[k] /\ op'[k] = op[k]
      BY <2>2 DEF Stays
    <3> QED
      BY <1>0, <3>1, <3>2, <3>3 DEF WaitOK
  <2> QED
    BY <1>1, <2>1, <2>2, RestartCalls
<1>2. CASE RaftMove
  <2>1. ASSUME Stays(k) PROVE WaitOK(k)'
    BY <1>0, <1>2, <2>1, WaitKept
  <2>2. ASSUME NEW c \in Client, Busy(c) PROVE WaitOK(k)'
    <3>1. CASE k = c /\ pc'[c] = "started"
      BY <2>2, <3>1, WaitStarts DEF Busy
    <3>2. CASE k = c /\ pc'[c] # "started"
      BY <2>2, <3>2 DEF Busy, WaitOK
    <3>3. CASE k # c
      BY <2>1, <2>2, <3>3 DEF Busy, OnlyClerk
    <3> QED
      BY <3>1, <3>2, <3>3
  <2>3. ASSUME NEW c \in Client, Register(c) PROVE WaitOK(k)'
    <3>1. CASE k = c
      <4>1. UNCHANGED raftVars
        BY <2>3 DEF Register
      <4>2. term' = term /\ leads' = leads /\ log' = log
        BY <4>1 DEF raftVars
      <4>3. pc[c] = "started" /\ server' = server /\ wait' = wait /\ op' = op
        BY <2>3, RegisterCall
      <4> QED
        BY <1>0, <3>1, <4>2, <4>3 DEF WaitOK
    <3>2. CASE k # c
      BY <2>1, <2>3, <3>2, RegisterCall DEF OnlyClerk
    <3> QED
      BY <3>1, <3>2
  <2>4. ASSUME NEW c \in Client, Notified(c) \/ Timeout(c) PROVE WaitOK(k)'
    <3>1. OnlyClerk(c) /\ pc'[c] \in {"idle", "sent"}
      BY <2>4, DoneCall
    <3>2. CASE k = c
      BY <3>1, <3>2 DEF WaitOK
    <3>3. CASE k # c
      BY <2>1, <3>1, <3>3 DEF OnlyClerk
    <3> QED
      BY <3>2, <3>3
  <2>5. ASSUME Aside PROVE WaitOK(k)'
    BY <2>1, <2>5, AsideStays
  <2>6. ASSUME NEW i \in Server, NEW n \in 1..Len(clog), Deliver(i, n) PROVE WaitOK(k)'
    BY <2>1, <2>6, DeliverStays
  <2> QED
    BY <1>1, <2>2, <2>3, <2>4, <2>5, <2>6, StepHandlers
<1> QED
  BY <1>1, <1>2, StepRaft DEF RaftInv

LEMMA StepQuiet ==
    ASSUME RaftInv, ClerkInv, HandlerInv, [Next]_vars
    PROVE  Quiet'
<1> SUFFICES ASSUME NEW k \in Client, pc'[k] # "waiting"
             PROVE  result'[k] = Nil
  BY DEF Quiet
<1>0. pc[k] # "waiting" => result[k] = Nil
  BY DEF HandlerInv, Quiet
<1>1. ASSUME NEW c \in Client, OnlyClerk(c), k # c PROVE result'[k] = Nil
  BY <1>0, <1>1 DEF OnlyClerk, Stays
<1>2. ASSUME NEW c \in Client, Busy(c) PROVE result'[k] = Nil
  BY <1>0, <1>1, <1>2 DEF Busy
<1>3. ASSUME NEW c \in Client, Register(c) \/ Notified(c) \/ Timeout(c) PROVE result'[k] = Nil
  BY <1>1, <1>3, RegisterCall, DoneCall
<1>4. ASSUME NEW i \in Server, Restart(i) PROVE result'[k] = Nil
  BY <1>0, <1>4, RestartCalls DEF Stays
<1>5. ASSUME NEW i \in Server, NEW n \in 1..Len(clog), Deliver(i, n) PROVE result'[k] = Nil
  <2>1. pc[k] # "waiting"
    BY <1>5, DeliverStays DEF Stays
  <2>2. n \in 1..MaxLog
    BY LenProperties, LimitAssumption DEF RaftInv, TypeRaft
  <2>3. notifyChans[i][n] # k
    BY <2>1, <2>2 DEF HandlerInv, Registered
  <2>4. \/ result' = result
        \/ \E r : result' = [result EXCEPT ![notifyChans[i][n]] = r]
    BY <1>5 DEF Deliver
  <2>5. result'[k] = result[k]
    BY <2>3, <2>4 DEF ClerkInv, TypeClerk
  <2> QED
    BY <1>0, <2>1, <2>5
<1> QED
  BY <1>0, <1>2, <1>3, <1>4, <1>5, StepHandlers, AsideStays DEF Stays

LEMMA StepRegistered ==
    ASSUME RaftInv, ClerkInv, HandlerInv, [Next]_vars
    PROVE  Registered'
<1> SUFFICES ASSUME NEW j \in Server, NEW n \in 1..MaxLog, NEW k \in Client,
                    notifyChans'[j][n] = k
             PROVE  pc'[k] = "waiting" /\ server'[k] = j /\ wait'[k].index = n
  BY DEF Registered
<1>0. /\ notifyChans \in [Server -> [1..MaxLog -> Client \cup {Nil}]] /\ Nil \notin Client
      /\ server \in [Client -> Server]
  BY SizeAssumption DEF ClerkInv, TypeClerk
<1>1. notifyChans[j][n] = k => pc[k] = "waiting" /\ server[k] = j /\ wait[k].index = n
  BY DEF HandlerInv, Registered
<1>2. ASSUME notifyChans[j][n] = k, Stays(k)
      PROVE  pc'[k] = "waiting" /\ server'[k] = j /\ wait'[k].index = n
  BY <1>1, <1>2 DEF Stays
<1>3. ASSUME NEW c \in Client, Busy(c)
      PROVE  pc'[k] = "waiting" /\ server'[k] = j /\ wait'[k].index = n
  <2>1. notifyChans[j][n] = k /\ k # c
    BY <1>1, <1>3 DEF Busy
  <2> QED
    BY <1>2, <1>3, <2>1 DEF Busy, OnlyClerk
<1>4. ASSUME NEW c \in Client, Register(c)
      PROVE  pc'[k] = "waiting" /\ server'[k] = j /\ wait'[k].index = n
  <2>1. /\ OnlyClerk(c) /\ pc[c] = "started" /\ pc'[c] = "waiting"
        /\ server' = server /\ wait' = wait
        /\ notifyChans' = [notifyChans EXCEPT ![server[c]][wait[c].index] = c]
    BY <1>4, RegisterCall
  <2>2. server[c] \in Server /\ wait[c].index \in 1..MaxLog
    BY <1>0, <2>1 DEF HandlerInv, WaitOK
  <2>3. CASE server[c] = j /\ wait[c].index = n
    <3>1. k = c
      BY <1>0, <2>1, <2>2, <2>3
    <3> QED
      BY <2>1, <2>3, <3>1
  <2>4. CASE ~(server[c] = j /\ wait[c].index = n)
    <3>1. notifyChans[j][n] = k
      BY <1>0, <2>1, <2>2, <2>4
    <3>2. k # c
      BY <1>1, <2>1, <3>1
    <3> QED
      BY <1>2, <2>1, <3>1, <3>2 DEF OnlyClerk
  <2> QED
    BY <2>3, <2>4
<1>5. ASSUME NEW c \in Client, Notified(c) \/ Timeout(c)
      PROVE  pc'[k] = "waiting" /\ server'[k] = j /\ wait'[k].index = n
  <2>1. /\ OnlyClerk(c) /\ pc[c] = "waiting"
        /\ notifyChans' = [notifyChans EXCEPT ![server[c]][wait[c].index] = Nil]
    BY <1>5, DoneCall
  <2>2. server[c] \in Server /\ wait[c].index \in 1..MaxLog
    BY <1>0, <2>1 DEF HandlerInv, WaitOK
  <2>3. ~(server[c] = j /\ wait[c].index = n)
    BY <1>0, <2>1, <2>2
  <2>4. notifyChans[j][n] = k
    BY <1>0, <2>1, <2>2, <2>3
  <2>5. k # c
    BY <1>1, <2>3, <2>4
  <2> QED
    BY <1>2, <2>1, <2>4, <2>5 DEF OnlyClerk
<1>6. ASSUME NEW i \in Server, Restart(i)
      PROVE  pc'[k] = "waiting" /\ server'[k] = j /\ wait'[k].index = n
  <2>1. notifyChans' = [notifyChans EXCEPT ![i] = [x \in 1..MaxLog |-> Nil]]
    BY <1>6 DEF Restart
  <2>2. j # i
    BY <1>0, <2>1
  <2>3. notifyChans[j][n] = k
    BY <1>0, <2>1, <2>2
  <2>4. server[k] # i /\ pc[k] = "waiting"
    BY <1>1, <2>2, <2>3
  <2>5. Stays(k)
    <3> DEFINE served == {c \in Client : server[c] = i /\ pc[c] \in {"checked", "started", "waiting"}}
    <3>1. /\ server' = [c \in Client |-> IF c \in served THEN (i + 1) % N ELSE server[c]]
          /\ pc' = [c \in Client |-> IF c \in served THEN "sent" ELSE pc[c]]
          /\ wait' = [c \in Client |-> IF c \in served THEN Nil ELSE wait[c]]
          /\ op' = op
      BY <1>6 DEF Restart
    <3>2. k \notin served
      BY <2>4
    <3> HIDE DEF served
    <3> QED
      BY <3>1, <3>2 DEF Stays
  <2> QED
    BY <1>2, <2>3, <2>5
<1> QED
  BY <1>2, <1>3, <1>4, <1>5, <1>6, StepHandlers, AsideStays, DeliverStays

LEMMA StepHandlerInv ==
    ASSUME RaftInv, ClerkInv, HandlerInv, [Next]_vars
    PROVE  HandlerInv'
BY StepWaits, StepQuiet, StepRegistered DEF HandlerInv

-----------------------------------------------------------------------------
(* What is answered is committed *)

InLog(l, c, s) == \E o \in OpsIn(l) : o.client = c /\ o.seq = s

\* A result that the handler will take for its own.
Due(c) == pc[c] = "waiting" /\ result[c] # Nil /\ SameTerm(result[c], wait[c])

\* The value a handler of c may answer now.
Owes(c, v) ==
    \/ Due(c) /\ v = result[c].value
    \/ /\ pc[c] = "sent" /\ Duplicate(machine[server[c]], op[c])
       /\ v = IF op[c].type = "Get" THEN machine[server[c]].lastResult[c] ELSE <<>>

\* The applier of i tells the handler of k of its own request.
Told(i, n, k) ==
    /\ Deliver(i, n) /\ Fresh(i, n) /\ pc[k] = "waiting"
    /\ clog[n].op = op[k] /\ op'[k] = op[k]
    /\ result'[k] = Outcome(machine[i], clog[n].op, term[i])

\* A result in the term that Start returned is that of the handler's request:
\* what is committed at its index is what Start put there.
LEMMA StepDue ==
    ASSUME ServiceInv, HandlerInv, [Next]_vars, NEW k \in Client,
           pc'[k] = "waiting", result'[k] # Nil, SameTerm(result'[k], wait'[k])
    PROVE  \/ Due(k) /\ op'[k] = op[k] /\ result'[k] = result[k]
           \/ \E i \in Server : \E n \in 1..Len(clog) : Told(i, n, k)
<1>0. RaftInv /\ ClerkInv /\ ApplyInv
  BY DEF ServiceInv
<1>1. ASSUME Stays(k), result'[k] = result[k]
      PROVE  Due(k) /\ op'[k] = op[k]
  BY <1>1 DEF Stays, Due
<1>2. ASSUME NEW c \in Client, Busy(c)
      PROVE  Due(k) /\ op'[k] = op[k] /\ result'[k] = result[k]
  BY <1>1, <1>2 DEF Busy, OnlyClerk
<1>3. ASSUME NEW c \in Client, Register(c) \/ Notified(c) \/ Timeout(c)
      PROVE  Due(k) /\ op'[k] = op[k] /\ result'[k] = result[k]
  <2>1. OnlyClerk(c) /\ result'[c] = Nil
    BY <1>0, <1>3, RegisterCall, DoneCall
  <2> QED
    BY <1>1, <2>1 DEF OnlyClerk
<1>4. ASSUME NEW i \in Server, Restart(i)
      PROVE  Due(k) /\ op'[k] = op[k] /\ result'[k] = result[k]
  BY <1>0, <1>1, <1>4, RestartCalls
<1>5. ASSUME NEW i \in Server, NEW n \in 1..Len(clog), Deliver(i, n)
      PROVE  \/ Due(k) /\ op'[k] = op[k] /\ result'[k] = result[k]
             \/ Told(i, n, k)
  <2>1. Stays(k)
    BY <1>5, DeliverStays
  <2>2. CASE result'[k] = result[k]
    BY <1>1, <2>1, <2>2
  <2>3. CASE result'[k] # result[k]
    <3> DEFINE h == notifyChans[i][n]
               r == Outcome(machine[i], clog[n].op, term[i])
    <3>1. Fresh(i, n) /\ result' = [result EXCEPT ![h] = r]
      BY <1>5, <2>3 DEF Deliver
    <3>2. h = k /\ result'[k] = r
      BY <1>0, <2>3, <3>1 DEF ClerkInv, TypeClerk
    <3>3. n \in 1..MaxLog
      BY <1>0, LenProperties, LimitAssumption DEF RaftInv, TypeRaft
    <3>4. pc[k] = "waiting" /\ server[k] = i /\ wait[k].index = n
      BY <3>2, <3>3 DEF HandlerInv, Registered
    <3>5. wait[k].term = term[i]
      <4>1. r.term = term[i]
        BY DEF Outcome
      <4>2. r.term = wait'[k].term /\ wait'[k] = wait[k]
        BY <2>1, <3>2 DEF SameTerm, Stays
      <4> QED
        BY <4>1, <4>2
    <3>6. leads[i] /\ n <= Len(log[i]) /\ log[i][n].op = op[k]
      BY <3>4, <3>5 DEF HandlerInv, WaitOK
    <3>7. n \in sending[i] /\ n <= lastApplied[i] /\ lastApplied[i] <= commitIndex[i]
      BY <1>0, <1>5 DEF Deliver, ApplyInv, InOrder
    <3>8. n \in 1..commitIndex[i]
      BY <1>0, <3>7 DEF ApplyInv, TypeApply, RaftInv, TypeRaft
    <3>9. log[i][n] = clog[n]
      BY <1>0, <3>6, <3>8 DEF RaftInv, LeadersHold, Holds
    <3> QED
      BY <1>5, <2>1, <3>1, <3>2, <3>4, <3>6, <3>9 DEF Told, Stays
  <2> QED
    BY <2>2, <2>3
<1>6. ASSUME Aside
      PROVE  Due(k) /\ op'[k] = op[k] /\ result'[k] = result[k]
  BY <1>1, <1>6, AsideStays
<1> QED
  BY <1>0, <1>2, <1>3, <1>4, <1>5, <1>6, StepHandlers

\* No call returns here.
NoReturn ==
    /\ replies' = replies /\ seqNum' = seqNum
    /\ \A k \in Client : pc'[k] = "idle" => pc[k] = "idle"

\* The call of c returns v.
Returns(c, v) ==
    /\ Owes(c, v) /\ replies' = replies \cup {[op |-> op[c], value |-> v]}
    /\ seqNum' = seqNum /\ pc[c] # "idle"
    /\ \A k \in Client : k # c => (pc'[k] = "idle" => pc[k] = "idle")

LEMMA RoundIsNoReturn ==
    ASSUME ClerkInv, NEW c \in Client, NextServer(c), seqNum' = seqNum
    PROVE  NoReturn
BY DEF NextServer, NoReturn, ClerkInv, TypeClerk

\* A reply ends the call if its error is one of two.
LEMMA ReplyReturns ==
    ASSUME ClerkInv, NEW c \in Client, NEW err, NEW v, Reply(c, err, v), seqNum' = seqNum,
           err \in {"OK", "ErrNoKey"} => Owes(c, v), pc[c] # "idle"
    PROVE  NoReturn \/ Returns(c, v)
<1>1. CASE NextServer(c)
  BY <1>1, RoundIsNoReturn
<1>2. CASE err \in {"OK", "ErrNoKey"} /\ Return(c, v)
  <2>1. pc' = [pc EXCEPT ![c] = "idle"] /\ replies' = replies \cup {[op |-> op[c], value |-> v]}
    BY <1>2 DEF Return
  <2> QED
    BY <1>2, <2>1 DEF Returns, ClerkInv, TypeClerk
<1> QED
  BY <1>1, <1>2 DEF Reply

\* A call returns only with a value its handler owes.
LEMMA StepReplies ==
    ASSUME ClerkInv, [Next]_vars
    PROVE  NoReturn \/ \E c \in Client : Invoke(c) \/ \E v : Returns(c, v)
<1>0. pc \in [Client -> {"idle", "sent", "checked", "started", "waiting"}]
  BY DEF ClerkInv, TypeClerk
<1>1. CASE UNCHANGED vars
  BY <1>1 DEF vars, clerkVars, NoReturn
<1>2. ASSUME NEW i \in Server, Elect(i) \/ StepDown(i) \/ ApplyTake(i) \/ ApplyDone(i)
      PROVE  NoReturn
  BY <1>2 DEF NoReturn, Elect, StepDown, ApplyTake, ApplyDone, clerkVars
<1>3. ASSUME NEW i \in Server, NEW n, Commit(i, n) \/ Learn(i, n) \/ Deliver(i, n)
      PROVE  NoReturn
  BY <1>3 DEF NoReturn, Commit, Learn, Deliver, clerkVars
<1>4. ASSUME NEW h \in late, LateStart(h)
      PROVE  NoReturn
  BY <1>4 DEF LateStart, NoReturn, clerkVars
<1>5. ASSUME NEW i \in Server, Restart(i)
      PROVE  NoReturn
  <2>1. replies' = replies /\ seqNum' = seqNum
    BY <1>5 DEF Restart
  <2>2. \A k \in Client : pc'[k] = "sent" \/ pc'[k] = pc[k]
    BY <1>5, RestartCalls DEF Stays
  <2> QED
    BY <2>1, <2>2 DEF NoReturn
<1>6. ASSUME NEW c \in Client, LoseCall(c) \/ Abandon(c)
      PROVE  NoReturn
  <2>1. NextServer(c) /\ seqNum' = seqNum
    BY <1>6 DEF LoseCall, Abandon
  <2> QED
    BY <2>1, RoundIsNoReturn
<1>7. ASSUME NEW c \in Client, Receive(c)
      PROVE  NoReturn \/ \E v : Returns(c, v)
  <2> DEFINE m == machine[server[c]]
             v == IF op[c].type = "Get" THEN m.lastResult[c] ELSE <<>>
  <2>1. pc[c] = "sent" /\ seqNum' = seqNum
    BY <1>7 DEF Receive
  <2>2. CASE Duplicate(m, op[c])
    <3>1. Reply(c, "OK", v)
      BY <1>7, <2>2 DEF Receive
    <3>2. Owes(c, v)
      BY <2>1, <2>2 DEF Owes
    <3> HIDE DEF v
    <3> QED
      BY <2>1, <3>1, <3>2, ReplyReturns
  <2>3. CASE ~Duplicate(m, op[c])
    <3>1. pc' = [pc EXCEPT ![c] = "checked"] /\ replies' = replies
      BY <1>7, <2>3 DEF Receive
    <3> QED
      BY <1>0, <2>1, <3>1 DEF NoReturn
  <2> QED
    BY <2>2, <2>3
<1>8. ASSUME NEW c \in Client, StartOp(c)
      PROVE  NoReturn \/ \E v : Returns(c, v)
  <2>1. pc[c] = "checked" /\ seqNum' = seqNum
    BY <1>8 DEF StartOp
  <2>2. CASE leads[server[c]]
    <3>1. pc' = [pc EXCEPT ![c] = "started"] /\ replies' = replies
      BY <1>8, <2>2 DEF StartOp
    <3> QED
      BY <1>0, <2>1, <3>1 DEF NoReturn
  <2>3. CASE ~leads[server[c]]
    <3>1. Reply(c, "ErrWrongLeader", <<>>)
      BY <1>8, <2>3 DEF StartOp
    <3> QED
      BY <2>1, <3>1, ReplyReturns
  <2> QED
    BY <2>2, <2>3
<1>9. ASSUME NEW c \in Client, Register(c)
      PROVE  NoReturn
  <2>1. pc' = [pc EXCEPT ![c] = "waiting"] /\ replies' = replies /\ seqNum' = seqNum
    BY <1>9 DEF Register
  <2> QED
    BY <1>0, <2>1 DEF NoReturn
<1>10. ASSUME NEW c \in Client, Notified(c)
       PROVE  NoReturn \/ \E v : Returns(c, v)
  <2>1. pc[c] = "waiting" /\ result[c] # Nil /\ seqNum' = seqNum
    BY <1>10 DEF Notified
  <2>2. CASE SameTerm(result[c], wait[c])
    <3>1. Reply(c, result[c].err, result[c].value)
      BY <1>10, <2>2 DEF Notified
    <3>2. Owes(c, result[c].value)
      BY <2>1, <2>2 DEF Owes, Due
    <3> QED
      BY <2>1, <3>1, <3>2, ReplyReturns
  <2>3. CASE ~SameTerm(result[c], wait[c])
    <3>1. Reply(c, "ErrWrongLeader", <<>>)
      BY <1>10, <2>3 DEF Notified
    <3> QED
      BY <2>1, <3>1, ReplyReturns
  <2> QED
    BY <2>2, <2>3
<1>11. ASSUME NEW c \in Client, Timeout(c)
       PROVE  NoReturn \/ \E v : Returns(c, v)
  <2>1. pc[c] = "waiting" /\ seqNum' = seqNum /\ Reply(c, "ErrTimeout", <<>>)
    BY <1>11 DEF Timeout
  <2> QED
    BY <2>1, ReplyReturns
<1> QED
  BY <1>1, <1>2, <1>3, <1>4, <1>5, <1>6, <1>7, <1>8, <1>9, <1>10, <1>11 DEF Next

\* The types of a state machine, and that it has seen only requests of l.
SeenIn(l, m) ==
    /\ m.lastSeq \in [Client -> Nat] /\ m.lastResult = [c \in Client |-> m.lastResult[c]]
    /\ \A c \in Client : m.lastSeq[c] > 0 => InLog(l, c, m.lastSeq[c])

\* A Clerk makes its next call when the last one is committed.
Returned ==
    \A c \in Client : \A s \in 1..seqNum[c] :
        s < seqNum[c] \/ pc[c] = "idle" => InLog(clog, c, s)

CommittedInv ==
    /\ \A i \in Server : SeenIn(clog, machine[i])
    /\ \A c \in Client : Due(c) => op[c] \in OpsIn(clog)
    /\ Returned

LEMMA InLogKept ==
    ASSUME NEW l, NEW ll, Len(l) \in Nat, Len(ll) \in Nat, Extends(l, ll)
    PROVE  /\ OpsIn(l) \subseteq OpsIn(ll)
           /\ \A c, s : InLog(l, c, s) => InLog(ll, c, s)
<1>1. OpsIn(l) \subseteq OpsIn(ll)
  <2>1. \A k \in 1..Len(l) : k \in 1..Len(ll) /\ ll[k] = l[k]
    BY DEF Extends
  <2> QED
    BY <2>1 DEF OpsIn
<1> QED
  BY <1>1 DEF InLog

LEMMA EntryOp ==
    ASSUME NEW l \in Seq(Entry), NEW n \in 1..Len(l)
    PROVE  /\ l[n].op \in Op /\ l[n].op.client \in Client /\ l[n].op.seq \in Nat \ {0}
           /\ l[n].op \in OpsIn(l)
<1>1. l[n] \in Entry
  BY ElementOfSeq
<1>2. l[n].op \in Op
  BY <1>1 DEF Entry
<1> QED
  BY <1>2 DEF Op, OpsIn

LEMMA SeenEmpty ==
    ASSUME NEW l
    PROVE  SeenIn(l, EmptyMachine)
BY DEF SeenIn, EmptyMachine

LEMMA SeenKept ==
    ASSUME NEW l, NEW ll, Len(l) \in Nat, Len(ll) \in Nat, Extends(l, ll), NEW m, SeenIn(l, m)
    PROVE  SeenIn(ll, m)
BY InLogKept DEF SeenIn

LEMMA AppliedFields ==
    ASSUME NEW m, NEW o, ~Duplicate(m, o)
    PROVE  /\ Applied(m, o).store = Execute(m.store, o)
           /\ Applied(m, o).lastSeq = [m.lastSeq EXCEPT ![o.client] = o.seq]
           /\ Applied(m, o).lastResult = IF o.type = "Get"
                                         THEN [m.lastResult EXCEPT ![o.client] = ValueOf(m.store, o)]
                                         ELSE m.lastResult
BY DEF Applied

LEMMA SeenApplied ==
    ASSUME NEW l \in Seq(Entry), NEW m, SeenIn(l, m), NEW n \in 1..Len(l)
    PROVE  SeenIn(l, Applied(m, l[n].op))
<1> DEFINE o == l[n].op
           a == Applied(m, o)
<1>0. o.client \in Client /\ o.seq \in Nat /\ o \in OpsIn(l)
  BY EntryOp
<1>1. CASE Duplicate(m, o)
  BY <1>1 DEF Applied
<1>2. CASE ~Duplicate(m, o)
  <2>1. /\ a.lastSeq = [m.lastSeq EXCEPT ![o.client] = o.seq]
        /\ a.lastResult = IF o.type = "Get"
                          THEN [m.lastResult EXCEPT ![o.client] = ValueOf(m.store, o)]
                          ELSE m.lastResult
    BY <1>2, AppliedFields
  <2>2. InLog(l, o.client, o.seq)
    BY <1>0 DEF InLog
  <2>3. m.lastSeq \in [Client -> Nat] /\ m.lastResult = [c \in Client |-> m.lastResult[c]]
    BY DEF SeenIn
  <2> HIDE DEF a, o
  <2>4. a.lastSeq \in [Client -> Nat] /\ a.lastResult = [c \in Client |-> a.lastResult[c]]
    BY <1>0, <2>1, <2>3
  <2>5. ASSUME NEW c \in Client, a.lastSeq[c] > 0 PROVE InLog(l, c, a.lastSeq[c])
    <3>1. CASE c = o.client
      BY <2>1, <2>2, <2>3, <3>1
    <3>2. CASE c # o.client
      BY <2>1, <2>3, <2>5, <3>2 DEF SeenIn
    <3> QED
      BY <3>1, <3>2
  <2>6. SeenIn(l, a)
    BY <2>4, <2>5 DEF SeenIn
  <2> QED
    BY <2>6 DEF a, o
<1> QED
  BY <1>1, <1>2

\* A server goes on as it was.
SameMachine(i) ==
    /\ machine'[i] = machine[i] /\ lastAppliedIndex'[i] = lastAppliedIndex[i]
    /\ <<i, boot'[i]>> \notin overtaken' => InTurn(i)

\* A server starts anew.
NewMachine(i) == machine'[i] = EmptyMachine /\ lastAppliedIndex'[i] = 0

\* A server executes entry n.
NextMachine(i, n) ==
    /\ machine'[i] = Applied(machine[i], clog[n].op) /\ lastAppliedIndex'[i] = n
    /\ <<i, boot'[i]>> \notin overtaken' => InTurn(i) /\ n = lastAppliedIndex[i] + 1

LEMMA StepMachine ==
    ASSUME ApplyInv, [Next]_vars, NEW k \in Server
    PROVE  /\ \/ SameMachine(k) \/ NewMachine(k)
              \/ \E n \in 1..Len(clog) : NextMachine(k, n)
           /\ overtaken' = {} => overtaken = {}
<1>0. /\ machine = [i \in Server |-> machine[i]] /\ lastAppliedIndex \in [Server -> Nat]
      /\ boot \in [Server -> Nat]
  BY DEF ApplyInv, TypeApply
<1>1. ASSUME UNCHANGED <<serverVars, boot, overtaken>>
      PROVE  SameMachine(k) /\ overtaken' = overtaken
  BY <1>1 DEF SameMachine, InTurn, serverVars
<1>2. CASE UNCHANGED vars
  BY <1>1, <1>2 DEF vars
<1>3. ASSUME NEW i \in Server, Elect(i) \/ StepDown(i) \/ ApplyTake(i) \/ ApplyDone(i)
      PROVE  UNCHANGED <<serverVars, boot, overtaken>>
  BY <1>3 DEF Elect, StepDown, ApplyTake, ApplyDone
<1>4. ASSUME NEW i \in Server, NEW n, Commit(i, n) \/ Learn(i, n)
      PROVE  UNCHANGED <<serverVars, boot, overtaken>>
  BY <1>4 DEF Commit, Learn
<1>5. ASSUME NEW c \in Client, \/ Invoke(c) \/ LoseCall(c) \/ Receive(c) \/ StartOp(c)
                               \/ Abandon(c) \/ Register(c) \/ Notified(c) \/ Timeout(c)
      PROVE  UNCHANGED <<serverVars, boot, overtaken>>
  BY <1>5 DEF Invoke, LoseCall, Receive, StartOp, Abandon, Register, Notified, Timeout
<1>6. ASSUME NEW h \in late, LateStart(h)
      PROVE  UNCHANGED <<serverVars, boot, overtaken>>
  BY <1>6 DEF LateStart
<1>7. ASSUME NEW i \in Server, Restart(i)
      PROVE  (SameMachine(k) \/ NewMachine(k)) /\ overtaken' = overtaken
  <2>1. /\ boot' = [boot EXCEPT ![i] = boot[i] + 1]
        /\ machine' = [machine EXCEPT ![i] = EmptyMachine]
        /\ lastAppliedIndex' = [lastAppliedIndex EXCEPT ![i] = 0]
        /\ overtaken' = overtaken
    BY <1>7 DEF Restart
  <2>2. CASE k = i
    BY <1>0, <2>1, <2>2 DEF NewMachine
  <2>3. CASE k # i
    BY <1>0, <2>1, <2>3 DEF SameMachine, InTurn
  <2> QED
    BY <2>1, <2>2, <2>3
<1>8. ASSUME NEW i \in Server, NEW n \in 1..Len(clog), Deliver(i, n)
      PROVE  (SameMachine(k) \/ NextMachine(k, n)) /\ (overtaken' = {} => overtaken = {})
  <2>1. /\ boot' = boot
        /\ overtaken' = IF n = lastAppliedIndex[i] + 1
                        THEN overtaken ELSE overtaken \cup {<<i, boot[i]>>}
    BY <1>8 DEF Deliver
  <2>2. CASE ~Fresh(i, n)
    <3>1. machine' = machine /\ lastAppliedIndex' = lastAppliedIndex
      BY <1>8, <2>2 DEF Deliver, serverVars
    <3> QED
      BY <2>1, <3>1 DEF SameMachine, InTurn
  <2>3. CASE Fresh(i, n)
    <3>1. /\ lastAppliedIndex' = [lastAppliedIndex EXCEPT ![i] = n]
          /\ machine' = [machine EXCEPT ![i] = Applied(machine[i], clog[n].op)]
      BY <1>8, <2>3 DEF Deliver
    <3>2. CASE k = i
      <4>1. machine'[k] = Applied(machine[k], clog[n].op) /\ lastAppliedIndex'[k] = n
        BY <1>0, <3>1, <3>2
      <4>2. <<k, boot'[k]>> \notin overtaken' => InTurn(k) /\ n = lastAppliedIndex[k] + 1
        BY <2>1, <3>2 DEF InTurn
      <4> QED
        BY <2>1, <4>1, <4>2 DEF NextMachine
    <3>3. CASE k # i
      BY <1>0, <2>1, <3>1, <3>3 DEF SameMachine, InTurn
    <3> QED
      BY <3>2, <3>3
  <2> QED
    BY <2>2, <2>3
<1> QED
  BY <1>1, <1>2, <1>3, <1>4, <1>5, <1>6, <1>7, <1>8 DEF Next

\* The last call of a Clerk.
LEMMA OwnCall ==
    ASSUME ServiceInv, OpsInv, NEW c \in Client, pc[c] # "idle"
    PROVE  /\ op[c] \in Op /\ op[c].client = c /\ op[c].seq = seqNum[c]
           /\ seqNum[c] \in Nat /\ seqNum[c] > 0 /\ op[c] \in Known
<1>1. op[c] \in Op /\ op[c].client = c /\ op[c].seq = seqNum[c] /\ seqNum[c] \in Nat
  BY DEF ServiceInv, ClerkInv, TypeClerk, OwnOp
<1>2. seqNum[c] > 0
  BY <1>1 DEF Op
<1>3. op[c] \in LastOps
  BY <1>2 DEF LastOps
<1> QED
  BY <1>1, <1>2, <1>3 DEF Known

\* No server has seen a request that was not made, so that one which takes the
\* last call for a duplicate has seen that very request.
LEMMA CachedOwn ==
    ASSUME ServiceInv, OpsInv, CommittedInv, NEW c \in Client, pc[c] # "idle", NEW i \in Server,
           Duplicate(machine[i], op[c])
    PROVE  machine[i].lastSeq[c] = op[c].seq /\ op[c] \in OpsIn(clog)
<1>1. /\ op[c] \in Op /\ op[c].client = c /\ op[c].seq = seqNum[c]
      /\ seqNum[c] \in Nat /\ seqNum[c] > 0 /\ op[c] \in Known
  BY OwnCall
<1>2. machine[i].lastSeq[c] >= seqNum[c] /\ machine[i].lastSeq[c] \in Nat
  BY <1>1 DEF Duplicate, CommittedInv, SeenIn
<1>3. InLog(clog, c, machine[i].lastSeq[c])
  <2>1. machine[i].lastSeq[c] > 0
    BY <1>1, <1>2
  <2>2. SeenIn(clog, machine[i])
    BY DEF CommittedInv
  <2> QED
    BY <2>1, <2>2 DEF SeenIn
<1>4. PICK o \in OpsIn(clog) : o.client = c /\ o.seq = machine[i].lastSeq[c]
  BY <1>3 DEF InLog
<1>5. o \in Known
  BY DEF Known
<1>6. o.seq <= seqNum[c]
  BY <1>4, <1>5 DEF OpsInv
<1>7. machine[i].lastSeq[c] = op[c].seq
  BY <1>1, <1>2, <1>4, <1>6
<1>8. o = op[c]
  BY <1>1, <1>4, <1>5, <1>7 DEF OpsInv, OneOpEach
<1> QED
  BY <1>7, <1>8

LEMMA OwesCommitted ==
    ASSUME ServiceInv, OpsInv, CommittedInv, NEW c \in Client, NEW v, Owes(c, v)
    PROVE  InLog(clog, c, seqNum[c])
<1>1. pc[c] # "idle"
  BY DEF Owes, Due
<1>2. op[c] \in OpsIn(clog)
  <2>1. CASE Due(c)
    BY <2>1 DEF CommittedInv
  <2>2. CASE Duplicate(machine[server[c]], op[c])
    <3>1. server[c] \in Server
      BY DEF ServiceInv, ClerkInv, TypeClerk
    <3> QED
      BY <1>1, <2>2, <3>1, CachedOwn
  <2> QED
    BY <2>1, <2>2 DEF Owes
<1> QED
  BY <1>1, <1>2, OwnCall DEF InLog

LEMMA StepCommitted ==
    ASSUME ServiceInv, ServiceInv', ClogGrows, OpsInv, HandlerInv, CommittedInv, [Next]_vars
    PROVE  CommittedInv'
<1>0. /\ clog \in Seq(Entry) /\ clog' \in Seq(Entry) /\ Len(clog) \in Nat /\ Len(clog') \in Nat
      /\ Extends(clog, clog') /\ ClerkInv
  <2>1. clog \in Seq(Entry) /\ clog' \in Seq(Entry)
    BY DEF ServiceInv, RaftInv, TypeRaft
  <2> QED
    BY <2>1, LenProperties DEF ServiceInv, ClogGrows, Extends
<1>1. OpsIn(clog) \subseteq OpsIn(clog') /\ \A c, s : InLog(clog, c, s) => InLog(clog', c, s)
  BY <1>0, InLogKept
<1>2. ASSUME NEW i \in Server PROVE SeenIn(clog', machine'[i])
  <2>1. SeenIn(clog, machine[i])
    BY DEF CommittedInv
  <2>2. CASE SameMachine(i)
    BY <1>0, <2>1, <2>2, SeenKept DEF SameMachine
  <2>3. CASE NewMachine(i)
    BY <2>3, SeenEmpty DEF NewMachine
  <2>4. ASSUME NEW n \in 1..Len(clog), NextMachine(i, n) PROVE SeenIn(clog', machine'[i])
    <3>1. SeenIn(clog, Applied(machine[i], clog[n].op))
      BY <1>0, <2>1, SeenApplied
    <3> QED
      BY <1>0, <2>4, <3>1, SeenKept DEF NextMachine
  <2> QED
    BY <2>2, <2>3, <2>4, StepMachine DEF ServiceInv
<1>3. ASSUME NEW c \in Client, pc'[c] = "waiting", result'[c] # Nil, SameTerm(result'[c], wait'[c])
      PROVE  op'[c] \in OpsIn(clog')
  <2>1. CASE Due(c) /\ op'[c] = op[c]
    BY <1>1, <2>1 DEF CommittedInv
  <2>2. ASSUME NEW i \in Server, NEW n \in 1..Len(clog), Told(i, n, c)
        PROVE  op'[c] \in OpsIn(clog')
    <3>1. clog[n].op \in OpsIn(clog)
      BY <1>0, EntryOp
    <3> QED
      BY <1>1, <2>2, <3>1 DEF Told
  <2> QED
    BY <1>3, <2>1, <2>2, StepDue
<1>4. ASSUME NEW k \in Client, NEW s \in 1..seqNum'[k], s < seqNum'[k] \/ pc'[k] = "idle"
      PROVE  InLog(clog', k, s)
  <2>0. seqNum \in [Client -> Nat] /\ seqNum[k] \in Nat /\ s \in Nat \ {0}
        /\ pc \in [Client -> {"idle", "sent", "checked", "started", "waiting"}]
        /\ seqNum'[k] \in Nat
    BY DEF ServiceInv, ClerkInv, TypeClerk
  <2>1. ASSUME s \in 1..seqNum[k], s < seqNum[k] \/ pc[k] = "idle"
        PROVE  InLog(clog', k, s)
    BY <1>1, <2>1 DEF CommittedInv, Returned
  <2>2. CASE NoReturn
    BY <1>4, <2>1, <2>2 DEF NoReturn
  <2>3. ASSUME NEW c \in Client, Invoke(c) PROVE InLog(clog', k, s)
    <3>1. /\ pc[c] = "idle" /\ seqNum' = [seqNum EXCEPT ![c] = seqNum[c] + 1]
          /\ pc' = [pc EXCEPT ![c] = "sent"]
      BY <2>3 DEF Invoke
    <3>2. CASE k = c
      <4>1. seqNum'[k] = seqNum[k] + 1 /\ pc'[k] = "sent"
        BY <2>0, <3>1, <3>2
      <4>2. s < seqNum'[k]
        BY <1>4, <4>1
      <4>3. s \in 1..seqNum[k]
        BY <2>0, <4>1, <4>2
      <4> QED
        BY <2>1, <3>1, <3>2, <4>3
    <3>3. CASE k # c
      <4>1. seqNum'[k] = seqNum[k] /\ pc'[k] = pc[k]
        BY <2>0, <3>1, <3>3
      <4> QED
        BY <1>4, <2>1, <4>1
    <3> QED
      BY <3>2, <3>3
  <2>4. ASSUME NEW c \in Client, NEW v, Returns(c, v) PROVE InLog(clog', k, s)
    <3>1. CASE k = c
      <4>1. seqNum' = seqNum /\ Owes(c, v)
        BY <2>4 DEF Returns
      <4>2. InLog(clog', c, seqNum[c])
        BY <1>1, <4>1, OwesCommitted
      <4>3. s = seqNum[c] \/ s < seqNum[c]
        BY <2>0, <3>1, <4>1
      <4> QED
        BY <2>1, <3>1, <4>1, <4>2, <4>3
    <3>2. CASE k # c
      BY <1>4, <2>1, <2>4, <3>2 DEF Returns
    <3> QED
      BY <3>1, <3>2
  <2> QED
    BY <1>0, <2>2, <2>3, <2>4, StepReplies
<1>5. Returned'
  BY <1>4 DEF Returned
<1> QED
  BY <1>2, <1>3, <1>5 DEF CommittedInv, Due

-----------------------------------------------------------------------------
(* The requests of a Clerk come in order *)

\* Before a request come all that its Clerk made earlier.
OrderedLog(l) ==
    \A n \in 1..Len(l) : \A s \in 1..(l[n].op.seq - 1) :
        \E p \in 1..(n - 1) : l[p].op.client = l[n].op.client /\ l[p].op.seq = s

\* So it is in every log that has all that is committed, and may be committed.
OrderInv ==
    /\ OrderedLog(clog)
    /\ \A j \in Server : Holds(log[j], Len(clog)) => OrderedLog(log[j])

LEMMA OrderedPrefix ==
    ASSUME NEW l, NEW ll, Len(l) \in Nat, Len(ll) \in Nat, Extends(l, ll), OrderedLog(ll)
    PROVE  OrderedLog(l)
<1> SUFFICES ASSUME NEW n \in 1..Len(l), NEW s \in 1..(l[n].op.seq - 1)
             PROVE  \E p \in 1..(n - 1) : l[p].op.client = l[n].op.client /\ l[p].op.seq = s
  BY DEF OrderedLog
<1>1. n \in 1..Len(ll) /\ ll[n] = l[n]
  BY DEF Extends
<1>2. PICK p \in 1..(n - 1) : ll[p].op.client = ll[n].op.client /\ ll[p].op.seq = s
  BY <1>1 DEF OrderedLog
<1>3. p \in 1..Len(l)
  OBVIOUS
<1>4. ll[p] = l[p]
  BY <1>3 DEF Extends
<1> QED
  BY <1>1, <1>2, <1>4

LEMMA PrefixExtends ==
    ASSUME NEW l \in Seq(Entry), NEW n \in 0..Len(l)
    PROVE  /\ Extends(SubSeq(l, 1, n), l) /\ Len(SubSeq(l, 1, n)) \in Nat
           /\ SubSeq(l, 1, n) \in Seq(Entry)
<1>1. Len(l) \in Nat /\ Len(SubSeq(l, 1, n)) = n /\ \A k \in 1..n : SubSeq(l, 1, n)[k] = l[k]
  BY Beginning, LenProperties
<1>2. SubSeq(l, 1, n) \in Seq(Entry)
  BY Beginning
<1> QED
  BY <1>1, <1>2 DEF Extends

\* A leader appends a request that was made when the ones before it were
\* committed.
LEMMA OrderedAppend ==
    ASSUME ServiceInv, OpsInv, CommittedInv, OrderInv, NEW i \in Server, NEW e \in Entry,
           e.op \in Known, Holds(Append(log[i], e), Len(clog))
    PROVE  OrderedLog(Append(log[i], e))
<1> DEFINE l == log[i]
           a == Append(log[i], e)
<1>1. l \in Seq(Entry) /\ clog \in Seq(Entry)
  BY DEF ServiceInv, RaftInv, TypeRaft
<1>2. Len(l) \in Nat /\ Len(clog) \in Nat
  BY <1>1, LenProperties
<1>3. /\ Len(a) = Len(l) + 1 /\ a[Len(l) + 1] = e /\ \A k \in 1..Len(l) : a[k] = l[k]
  BY <1>1, AppendProperties
<1>4. /\ Len(clog) <= Len(a) /\ \A k \in 1..Len(clog) : a[k] = clog[k]
  BY DEF Holds
<1> HIDE DEF a
<1>5. CASE Len(clog) = Len(a)
  <2>1. Extends(a, clog)
    BY <1>4, <1>5 DEF Extends
  <2> QED
    BY <1>2, <1>5, <2>1, OrderedPrefix DEF OrderInv, a
<1>6. CASE Len(clog) # Len(a)
  <2>1. Len(clog) <= Len(l)
    BY <1>2, <1>3, <1>4, <1>6
  <2>2. Holds(l, Len(clog))
    BY <1>2, <1>3, <1>4, <2>1 DEF Holds
  <2>3. OrderedLog(l)
    BY <2>2 DEF OrderInv
  <2>4. ASSUME NEW n \in 1..Len(a), NEW s \in 1..(a[n].op.seq - 1)
        PROVE  \E p \in 1..(n - 1) : a[p].op.client = a[n].op.client /\ a[p].op.seq = s
    <3>1. CASE n \in 1..Len(l)
      <4>1. a[n] = l[n]
        BY <1>3, <3>1
      <4>2. PICK p \in 1..(n - 1) : l[p].op.client = l[n].op.client /\ l[p].op.seq = s
        BY <2>3, <3>1, <4>1 DEF OrderedLog
      <4>3. p \in 1..Len(l)
        BY <1>2, <3>1
      <4>4. a[p] = l[p]
        BY <1>3, <4>3
      <4> QED
        BY <4>1, <4>2, <4>4
    <3>2. CASE n = Len(l) + 1
      <4>1. a[n] = e
        BY <1>3, <3>2
      <4>2. e.op \in Op /\ e.op.client \in Client /\ e.op.seq \in Nat
            /\ e.op.seq <= seqNum[e.op.client] /\ seqNum[e.op.client] \in Nat
        BY DEF OpsInv, Op, ServiceInv, ClerkInv, TypeClerk
      <4>3. s \in 1..(e.op.seq - 1)
        BY <4>1
      <4>4. s \in 1..seqNum[e.op.client] /\ s < seqNum[e.op.client]
        BY <4>2, <4>3
      <4>5. InLog(clog, e.op.client, s)
        BY <4>2, <4>4 DEF CommittedInv, Returned
      <4>6. PICK p \in 1..Len(clog) : clog[p].op.client = e.op.client /\ clog[p].op.seq = s
        BY <4>5 DEF InLog, OpsIn
      <4>7. p \in 1..(n - 1)
        BY <1>2, <2>1, <3>2
      <4>8. a[p] = clog[p]
        BY <1>4
      <4> QED
        BY <4>1, <4>6, <4>7, <4>8
    <3> QED
      BY <1>2, <1>3, <3>1, <3>2
  <2>5. OrderedLog(a)
    BY <2>4 DEF OrderedLog
  <2> QED
    BY <2>5 DEF a
<1> QED
  BY <1>5, <1>6

LEMMA StepOrder ==
    ASSUME ServiceInv, ServiceInv', OpsInv, CommittedInv, OrderInv,
           RaftMove \/ \E i \in Server : Restart(i)
    PROVE  OrderInv'
<1>0. /\ log \in [Server -> Seq(Entry)] /\ clog \in Seq(Entry)
      /\ \A k \in Server : log[k] \in Seq(Entry) /\ Len(log[k]) \in Nat
      /\ Len(clog) \in Nat /\ RaftInv /\ TypeRaft
  BY LenProperties DEF ServiceInv, RaftInv, TypeRaft
<1>1. CASE log' = log /\ clog' = clog
  BY <1>1 DEF OrderInv, Holds
<1>2. ASSUME NEW i \in Server, NEW l, log' = [log EXCEPT ![i] = l], clog' = clog,
             Holds(l, Len(clog)) => OrderedLog(l)
      PROVE  OrderInv'
  <2>1. \A k \in Server : log'[k] = l \/ log'[k] = log[k]
    BY <1>0, <1>2
  <2>2. \A k \in Server : Holds(log'[k], Len(clog)) => OrderedLog(log'[k])
    BY <1>2, <2>1 DEF OrderInv
  <2> QED
    BY <1>2, <2>2 DEF OrderInv, Holds
<1>3. ASSUME NEW i \in Server, Elect(i) PROVE OrderInv'
  <2>1. PICK j \in Server : \E n \in Len(clog)..Len(log[j]) :
           Agrees(log[j], Len(clog)) /\ log' = [log EXCEPT ![i] = SubSeq(log[j], 1, n)]
    BY <1>3 DEF Elect
  <2>2. PICK n \in Len(clog)..Len(log[j]) :
           Agrees(log[j], Len(clog)) /\ log' = [log EXCEPT ![i] = SubSeq(log[j], 1, n)]
    BY <2>1
  <2>3. n \in 0..Len(log[j]) /\ Len(clog) \in 0..Len(clog)
    BY <1>0
  <2>4. OrderedLog(log[j])
    BY <1>0, <2>2, <2>3, AgreesHolds DEF OrderInv
  <2>5. OrderedLog(SubSeq(log[j], 1, n))
    BY <1>0, <2>3, <2>4, PrefixExtends, OrderedPrefix
  <2>6. clog' = clog
    BY <1>3 DEF Elect
  <2> QED
    BY <1>2, <2>2, <2>5, <2>6
<1>4. ASSUME NEW i \in Server, StepDown(i) \/ Restart(i) PROVE log' = log /\ clog' = clog
  BY <1>4 DEF StepDown, Restart
<1>5. ASSUME NEW i \in Server, NEW e \in Entry, Started(i, e) PROVE OrderInv'
  <2>1. e.op \in Known /\ log' = [log EXCEPT ![i] = Append(log[i], e)] /\ clog' = clog
    BY <1>5 DEF Started
  <2>2. Holds(Append(log[i], e), Len(clog)) => OrderedLog(Append(log[i], e))
    BY <2>1, OrderedAppend
  <2> QED
    BY <1>2, <2>1, <2>2
<1>6. ASSUME NEW i \in Server, NEW n \in 1..Len(log[i]), Commit(i, n) PROVE OrderInv'
  <2>1. clog' = SubSeq(log[i], 1, n) /\ log' = log /\ leads[i] /\ term[i] = LastElected
    BY <1>6 DEF Commit
  <2>2. n \in 0..Len(log[i])
    BY <1>0
  <2>3. Holds(log[i], Len(clog))
    BY <1>0, <2>1, LastElectedIs DEF RaftInv, NewestLeader
  <2>4. OrderedLog(log[i])
    BY <2>3 DEF OrderInv
  <2>5. OrderedLog(clog')
    BY <1>0, <2>1, <2>2, <2>4, PrefixExtends, OrderedPrefix
  <2>6. ClogGrows
    BY <1>0, <1>6, RaftCommit
  <2>7. Len(clog') \in Nat
    BY LenProperties DEF ServiceInv, RaftInv, TypeRaft
  <2>8. ASSUME NEW j \in Server, Len(clog') <= Len(log[j]),
               \A k \in 1..Len(clog') : log[j][k] = clog'[k]
        PROVE  OrderedLog(log[j])
    <3>1. Holds(log[j], Len(clog))
      BY <1>0, <2>6, <2>7, <2>8 DEF ClogGrows, Holds
    <3> QED
      BY <3>1 DEF OrderInv
  <2> QED
    BY <2>1, <2>5, <2>8 DEF OrderInv, Holds
<1>7. ASSUME NEW i \in Server, NEW n \in 1..Len(clog), Learn(i, n) PROVE OrderInv'
  <2>1. PICK l : /\ log' = [log EXCEPT ![i] = l] /\ clog' = clog
                 /\ l = log[i] \/ l = SubSeq(clog, 1, n)
    BY <1>7 DEF Learn
  <2>2. n \in 0..Len(clog)
    BY <1>0
  <2>3. OrderedLog(SubSeq(clog, 1, n))
    BY <1>0, <2>2, PrefixExtends, OrderedPrefix DEF OrderInv
  <2>4. Holds(l, Len(clog)) => OrderedLog(l)
    BY <2>1, <2>3 DEF OrderInv
  <2> QED
    BY <1>2, <2>1, <2>4
<1> QED
  BY <1>1, <1>3, <1>4, <1>5, <1>6, <1>7 DEF RaftMove, raftVars

-----------------------------------------------------------------------------
(* Every request is executed once *)

\* The answer m keeps for c is that of the first copy of its last request.
Cached(l, m, x, c) ==
    \E n \in 1..x :
        /\ FirstCopy(l, n) /\ l[n].op.client = c /\ l[n].op.seq = m.lastSeq[c]
        /\ l[n].op.type = "Get" => m.lastResult[c] = ValueOf(Stores(l)[n - 1], l[n].op)

\* m is what the first x entries of l make of an empty state machine.
Replica(l, m, x) ==
    /\ m.store = Stores(l)[x]
    /\ \A n \in 1..x : l[n].op.seq <= m.lastSeq[l[n].op.client]
    /\ \A c \in Client : m.lastSeq[c] > 0 => Cached(l, m, x, c)

Replicas == \A i \in Server : InTurn(i) => Replica(clog, machine[i], lastAppliedIndex[i])

LEMMA ReplicaEmpty ==
    ASSUME NEW l \in Seq(Entry)
    PROVE  Replica(l, EmptyMachine, 0)
BY StoresAt DEF Replica, EmptyMachine

LEMMA CachedKept ==
    ASSUME NEW l \in Seq(Entry), NEW ll \in Seq(Entry), Extends(l, ll), NEW m, NEW c,
           NEW x \in 0..Len(l), Cached(l, m, x, c)
    PROVE  Cached(ll, m, x, c)
<1>1. Len(l) \in Nat /\ Len(ll) \in Nat
  BY LenProperties
<1>2. PICK n \in 1..x :
         /\ FirstCopy(l, n) /\ l[n].op.client = c /\ l[n].op.seq = m.lastSeq[c]
         /\ l[n].op.type = "Get" => m.lastResult[c] = ValueOf(Stores(l)[n - 1], l[n].op)
  BY DEF Cached
<1>3. n \in 1..Len(l) /\ n - 1 \in 0..Len(l)
  BY <1>1
<1>4. ll[n] = l[n] /\ FirstCopy(ll, n) /\ Stores(ll)[n - 1] = Stores(l)[n - 1]
  BY <1>2, <1>3, FirstCopyKept, StoresKept DEF Extends
<1> QED
  BY <1>2, <1>4 DEF Cached

LEMMA ReplicaKept ==
    ASSUME NEW l \in Seq(Entry), NEW ll \in Seq(Entry), Extends(l, ll), NEW m,
           NEW x \in 0..Len(l), Replica(l, m, x)
    PROVE  Replica(ll, m, x)
<1>1. Len(l) \in Nat /\ Stores(ll)[x] = Stores(l)[x]
  BY StoresKept, LenProperties
<1>2. \A n \in 1..x : ll[n] = l[n]
  BY <1>1 DEF Extends
<1> QED
  BY <1>1, <1>2, CachedKept DEF Replica

\* applyCommand skips a request exactly if it stands in the log before: the
\* sequence number it compares tells no less than the whole log.
LEMMA SkipsCopies ==
    ASSUME NEW l \in Seq(Entry), NEW m, NEW x \in Nat, x + 1 \in 1..Len(l), Replica(l, m, x),
           SeenIn(l, m), OrderedLog(l), OneOpEach(OpsIn(l))
    PROVE  Duplicate(m, l[x + 1].op) <=> ~FirstCopy(l, x + 1)
<1> DEFINE o == l[x + 1].op
           c == o.client
<1>1. o \in Op /\ c \in Client /\ o.seq \in Nat \ {0} /\ o \in OpsIn(l)
  BY EntryOp
<1>2. Len(l) \in Nat /\ m.lastSeq \in [Client -> Nat] /\ m.lastSeq[c] \in Nat
  BY <1>1, LenProperties DEF SeenIn
<1>3. ASSUME NEW n \in 1..x, l[n].op = o PROVE Duplicate(m, o)
  <2>1. o.seq <= m.lastSeq[c]
    BY <1>3 DEF Replica
  <2> QED
    BY <1>1, <1>2, <2>1 DEF Duplicate
<1>4. ASSUME Duplicate(m, o) PROVE \E n \in 1..x : l[n].op = o
  <2>1. m.lastSeq[c] >= o.seq /\ m.lastSeq[c] > 0
    BY <1>1, <1>2, <1>4 DEF Duplicate
  <2>2. PICK n \in 1..x : l[n].op.client = c /\ l[n].op.seq = m.lastSeq[c]
    BY <1>1, <2>1 DEF Replica, Cached
  <2>3. n \in 1..Len(l)
    BY <1>2
  <2>4. l[n].op \in OpsIn(l)
    BY <2>3, EntryOp
  <2>5. CASE m.lastSeq[c] = o.seq
    <3>1. l[n].op = o
      BY <1>1, <2>2, <2>4, <2>5 DEF OneOpEach
    <3> QED
      BY <3>1
  <2>6. CASE m.lastSeq[c] > o.seq
    <3>1. o.seq \in 1..(l[n].op.seq - 1)
      BY <1>1, <1>2, <2>2, <2>6
    <3>2. PICK p \in 1..(n - 1) : l[p].op.client = l[n].op.client /\ l[p].op.seq = o.seq
      BY <2>3, <3>1 DEF OrderedLog
    <3>3. p \in 1..x /\ p \in 1..Len(l)
      BY <1>2
    <3>4. l[p].op \in OpsIn(l)
      BY <3>3, EntryOp
    <3>5. l[p].op = o
      BY <1>1, <2>2, <3>2, <3>4 DEF OneOpEach
    <3> QED
      BY <3>3, <3>5
  <2> QED
    BY <1>1, <1>2, <2>1, <2>5, <2>6
<1>5. FirstCopy(l, x + 1) <=> \A n \in 1..x : l[n].op # o
  <2>1. (x + 1) - 1 = x
    OBVIOUS
  <2> QED
    BY <2>1 DEF FirstCopy
<1> QED
  BY <1>3, <1>4, <1>5

\* The next entry makes the next replica.
LEMMA ReplicaApplies ==
    ASSUME NEW l \in Seq(Entry), NEW m, NEW x \in Nat, x + 1 \in 1..Len(l), Replica(l, m, x),
           SeenIn(l, m), OrderedLog(l), OneOpEach(OpsIn(l))
    PROVE  Replica(l, Applied(m, l[x + 1].op), x + 1)
<1> DEFINE o == l[x + 1].op
           c == o.client
           a == Applied(m, o)
<1>1. o \in Op /\ c \in Client /\ o.seq \in Nat \ {0}
  BY EntryOp
<1>2. Len(l) \in Nat /\ m.lastSeq \in [Client -> Nat] /\ m.lastSeq[c] \in Nat
      /\ m.lastResult = [k \in Client |-> m.lastResult[k]] /\ (x + 1) - 1 = x
  BY <1>1, LenProperties DEF SeenIn
<1>3. Duplicate(m, o) <=> ~FirstCopy(l, x + 1)
  BY SkipsCopies
<1>4. Stores(l)[x + 1] = IF FirstCopy(l, x + 1) THEN Execute(Stores(l)[x], o) ELSE Stores(l)[x]
  BY <1>2, StoresAt
<1>5. m.store = Stores(l)[x]
  BY DEF Replica
<1>6. \A n \in 1..x : l[n].op.client \in Client /\ l[n].op.seq \in Nat
                      /\ l[n].op.seq <= m.lastSeq[l[n].op.client]
  <2>1. \A n \in 1..x : n \in 1..Len(l)
    BY <1>2
  <2> QED
    BY <2>1, EntryOp DEF Replica
<1>7. \A n \in 1..(x + 1) : n \in 1..x \/ n = x + 1
  OBVIOUS
<1>8. CASE Duplicate(m, o)
  <2>1. a = m
    BY <1>8 DEF Applied
  <2>2. m.store = Stores(l)[x + 1]
    BY <1>3, <1>4, <1>5, <1>8
  <2>3. o.seq <= m.lastSeq[c]
    BY <1>1, <1>2, <1>8 DEF Duplicate
  <2>4. \A n \in 1..(x + 1) : l[n].op.seq <= m.lastSeq[l[n].op.client]
    BY <1>6, <1>7, <2>3
  <2>5. ASSUME NEW k \in Client, m.lastSeq[k] > 0 PROVE Cached(l, m, x + 1, k)
    <3>1. Cached(l, m, x, k)
      BY <2>5 DEF Replica
    <3>2. \A n \in 1..x : n \in 1..(x + 1)
      OBVIOUS
    <3> QED
      BY <3>1, <3>2 DEF Cached
  <2> QED
    BY <2>1, <2>2, <2>4, <2>5 DEF Replica
<1>9. CASE ~Duplicate(m, o)
  <2>1. /\ a.store = Execute(m.store, o)
        /\ a.lastSeq = [m.lastSeq EXCEPT ![c] = o.seq]
        /\ a.lastResult = IF o.type = "Get"
                          THEN [m.lastResult EXCEPT ![c] = ValueOf(m.store, o)]
                          ELSE m.lastResult
    BY <1>9, AppliedFields
  <2> HIDE DEF a
  <2>2. a.store = Stores(l)[x + 1]
    BY <1>3, <1>4, <1>5, <1>9, <2>1
  <2>3. /\ a.lastSeq[c] = o.seq
        /\ \A k \in Client : k # c => /\ a.lastSeq[k] = m.lastSeq[k]
                                      /\ a.lastResult[k] = m.lastResult[k]
        /\ o.type = "Get" => a.lastResult[c] = ValueOf(Stores(l)[x], o)
    BY <1>1, <1>2, <1>5, <2>1
  <2>4. m.lastSeq[c] <= o.seq
    BY <1>1, <1>2, <1>9 DEF Duplicate
  <2>5. \A n \in 1..(x + 1) : l[n].op.seq <= a.lastSeq[l[n].op.client]
    <3>1. ASSUME NEW n \in 1..x PROVE l[n].op.seq <= a.lastSeq[l[n].op.client]
      <4>1. CASE l[n].op.client = c
        BY <1>1, <1>2, <1>6, <2>3, <2>4, <4>1
      <4>2. CASE l[n].op.client # c
        BY <1>6, <2>3, <4>2
      <4> QED
        BY <4>1, <4>2
    <3>2. o.seq <= a.lastSeq[c]
      BY <1>1, <2>3
    <3> QED
      BY <1>7, <3>1, <3>2
  <2>6. ASSUME NEW k \in Client, a.lastSeq[k] > 0 PROVE Cached(l, a, x + 1, k)
    <3>1. CASE k = c
      <4>1. x + 1 \in 1..(x + 1) /\ FirstCopy(l, x + 1)
        BY <1>3, <1>9
      <4>2. l[x + 1].op.seq = a.lastSeq[c]
        BY <2>3
      <4>3. l[x + 1].op.type = "Get" =>
               a.lastResult[c] = ValueOf(Stores(l)[(x + 1) - 1], l[x + 1].op)
        BY <1>2, <2>3
      <4> QED
        BY <3>1, <4>1, <4>2, <4>3 DEF Cached
    <3>2. CASE k # c
      <4>1. a.lastSeq[k] = m.lastSeq[k] /\ a.lastResult[k] = m.lastResult[k]
        BY <2>3, <3>2
      <4>2. Cached(l, m, x, k)
        BY <2>6, <4>1 DEF Replica
      <4>3. \A n \in 1..x : n \in 1..(x + 1)
        OBVIOUS
      <4> QED
        BY <4>1, <4>2, <4>3 DEF Cached
    <3> QED
      BY <3>1, <3>2
  <2>7. Replica(l, a, x + 1)
    BY <2>2, <2>5, <2>6 DEF Replica
  <2> QED
    BY <2>7 DEF a
<1> QED
  BY <1>8, <1>9

LEMMA CommittedOnce ==
    ASSUME OpsInv
    PROVE  OneOpEach(OpsIn(clog))
BY DEF OpsInv, OneOpEach, Known

LEMMA StepReplicas ==
    ASSUME ServiceInv, ServiceInv', ClogGrows, OpsInv, CommittedInv, OrderInv, Replicas,
           [Next]_vars
    PROVE  Replicas'
<1>0. /\ clog \in Seq(Entry) /\ clog' \in Seq(Entry) /\ Len(clog) \in Nat
      /\ Extends(clog, clog')
  <2>1. clog \in Seq(Entry) /\ clog' \in Seq(Entry)
    BY DEF ServiceInv, RaftInv, TypeRaft
  <2> QED
    BY <2>1, LenProperties DEF ClogGrows, Extends
<1> SUFFICES ASSUME NEW i \in Server, <<i, boot'[i]>> \notin overtaken'
             PROVE  Replica(clog', machine'[i], lastAppliedIndex'[i])
  BY DEF Replicas, InTurn
<1> DEFINE x == lastAppliedIndex[i]
<1>1. x \in Nat /\ x \in 0..Len(clog)
  <2>1. /\ x \in Nat /\ lastApplied[i] \in Nat /\ commitIndex[i] \in Nat
        /\ x <= lastApplied[i] /\ lastApplied[i] <= commitIndex[i] /\ commitIndex[i] <= Len(clog)
    BY DEF ServiceInv, ApplyInv, TypeApply, InOrder, RaftInv, TypeRaft
  <2> QED
    BY <1>0, <2>1
<1>2. CASE SameMachine(i)
  <2>1. machine'[i] = machine[i] /\ lastAppliedIndex'[i] = x /\ Replica(clog, machine[i], x)
    BY <1>2 DEF SameMachine, Replicas
  <2> QED
    BY <1>0, <1>1, <2>1, ReplicaKept
<1>3. CASE NewMachine(i)
  BY <1>0, <1>3, ReplicaEmpty DEF NewMachine
<1>4. ASSUME NEW n \in 1..Len(clog), NextMachine(i, n)
      PROVE  Replica(clog', machine'[i], lastAppliedIndex'[i])
  <2>1. /\ n = x + 1 /\ machine'[i] = Applied(machine[i], clog[n].op) /\ lastAppliedIndex'[i] = n
        /\ Replica(clog, machine[i], x)
    BY <1>4 DEF NextMachine, Replicas
  <2>2. SeenIn(clog, machine[i]) /\ OrderedLog(clog) /\ OneOpEach(OpsIn(clog))
    BY CommittedOnce DEF CommittedInv, OrderInv
  <2>3. Replica(clog, Applied(machine[i], clog[n].op), n)
    BY <1>0, <1>1, <2>1, <2>2, ReplicaApplies
  <2>4. n \in 0..Len(clog)
    BY <1>0
  <2> QED
    BY <1>0, <2>1, <2>3, <2>4, ReplicaKept
<1> QED
  BY <1>2, <1>3, <1>4, StepMachine DEF ServiceInv

-----------------------------------------------------------------------------
(* Every answer is that of the log *)

Answered(l, o, v) ==
    \E n \in 1..Len(l) : l[n].op = o /\ FirstCopy(l, n) /\ v = ValueOf(Stores(l)[n - 1], o)

Answers ==
    overtaken = {} =>
        /\ \A r \in replies : Answered(clog, r.op, r.value)
        /\ \A c \in Client : Due(c) => Answered(clog, op[c], result[c].value)

LEMMA AnsweredKept ==
    ASSUME NEW l \in Seq(Entry), NEW ll \in Seq(Entry), Extends(l, ll), NEW o, NEW v,
           Answered(l, o, v)
    PROVE  Answered(ll, o, v)
<1>1. Len(l) \in Nat /\ Len(ll) \in Nat
  BY LenProperties
<1>2. PICK n \in 1..Len(l) :
         l[n].op = o /\ FirstCopy(l, n) /\ v = ValueOf(Stores(l)[n - 1], o)
  BY DEF Answered
<1>3. n \in 1..Len(ll) /\ n - 1 \in 0..Len(l)
  BY <1>1 DEF Extends
<1>4. ll[n] = l[n] /\ FirstCopy(ll, n) /\ Stores(ll)[n - 1] = Stores(l)[n - 1]
  BY <1>2, <1>3, FirstCopyKept, StoresKept DEF Extends
<1> QED
  BY <1>2, <1>3, <1>4 DEF Answered

\* What a replica keeps for the last request of a Clerk answers it.
LEMMA CacheAnswers ==
    ASSUME NEW l \in Seq(Entry), NEW m, NEW x \in 0..Len(l), Replica(l, m, x),
           OneOpEach(OpsIn(l)), NEW o \in OpsIn(l), o.client \in Client,
           o.seq \in Nat \ {0}, m.lastSeq[o.client] = o.seq
    PROVE  Answered(l, o, IF o.type = "Get" THEN m.lastResult[o.client] ELSE <<>>)
<1> DEFINE c == o.client
           v == IF o.type = "Get" THEN m.lastResult[o.client] ELSE <<>>
<1>1. Len(l) \in Nat
  BY LenProperties
<1>2. Cached(l, m, x, c)
  BY DEF Replica
<1>3. PICK n \in 1..x :
         /\ FirstCopy(l, n) /\ l[n].op.client = c /\ l[n].op.seq = m.lastSeq[c]
         /\ l[n].op.type = "Get" => m.lastResult[c] = ValueOf(Stores(l)[n - 1], l[n].op)
  BY <1>2 DEF Cached
<1>4. n \in 1..Len(l)
  BY <1>1
<1>5. l[n].op = o
  <2>1. l[n].op \in OpsIn(l)
    BY <1>4, EntryOp
  <2> QED
    BY <1>3, <2>1 DEF OneOpEach
<1>6. v = ValueOf(Stores(l)[n - 1], o)
  BY <1>3, <1>5 DEF ValueOf
<1> HIDE DEF v
<1>7. Answered(l, o, v)
  BY <1>3, <1>4, <1>5, <1>6 DEF Answered
<1> QED
  BY <1>7 DEF v

\* So does what applyCommand sends to a handler, when the entry's turn has come.
LEMMA OutcomeAnswers ==
    ASSUME NEW l \in Seq(Entry), NEW m, NEW x \in Nat, x + 1 \in 1..Len(l), Replica(l, m, x),
           SeenIn(l, m), OrderedLog(l), OneOpEach(OpsIn(l)), NEW t,
           Duplicate(m, l[x + 1].op) => m.lastSeq[l[x + 1].op.client] = l[x + 1].op.seq
    PROVE  Answered(l, l[x + 1].op, Outcome(m, l[x + 1].op, t).value)
<1> DEFINE o == l[x + 1].op
<1>0. o \in OpsIn(l) /\ o.client \in Client /\ o.seq \in Nat \ {0} /\ Len(l) \in Nat
  BY EntryOp, LenProperties
<1>1. Outcome(m, o, t).value = IF Duplicate(m, o)
                               THEN IF o.type = "Get" THEN m.lastResult[o.client] ELSE <<>>
                               ELSE ValueOf(m.store, o)
  BY DEF Outcome
<1>2. CASE Duplicate(m, o)
  <2>1. x \in 0..Len(l)
    BY <1>0
  <2>2. Answered(l, o, IF o.type = "Get" THEN m.lastResult[o.client] ELSE <<>>)
    BY <1>0, <1>2, <2>1, CacheAnswers
  <2> QED
    BY <1>1, <1>2, <2>2
<1>3. CASE ~Duplicate(m, o)
  <2>1. FirstCopy(l, x + 1) /\ m.store = Stores(l)[x] /\ (x + 1) - 1 = x
    BY <1>3, SkipsCopies DEF Replica
  <2> QED
    BY <1>1, <1>3, <2>1 DEF Answered
<1> QED
  BY <1>2, <1>3

LEMMA OwesAnswer ==
    ASSUME ServiceInv, OpsInv, CommittedInv, Replicas, Answers, overtaken = {},
           NEW c \in Client, NEW v, Owes(c, v)
    PROVE  Answered(clog, op[c], v)
<1>1. CASE Due(c) /\ v = result[c].value
  BY <1>1 DEF Answers
<1>2. CASE /\ pc[c] = "sent" /\ Duplicate(machine[server[c]], op[c])
           /\ v = IF op[c].type = "Get" THEN machine[server[c]].lastResult[c] ELSE <<>>
  <2> DEFINE i == server[c]
             x == lastAppliedIndex[i]
  <2>1. i \in Server
    BY DEF ServiceInv, ClerkInv, TypeClerk
  <2>2. machine[i].lastSeq[c] = op[c].seq /\ op[c] \in OpsIn(clog)
    BY <1>2, <2>1, CachedOwn
  <2>3. op[c] \in Op /\ op[c].client = c
    BY <1>2, OwnCall
  <2>4. Replica(clog, machine[i], x)
    BY <2>1 DEF Replicas, InTurn
  <2>5. clog \in Seq(Entry) /\ x \in 0..Len(clog)
    <3>1. /\ x \in Nat /\ lastApplied[i] \in Nat /\ commitIndex[i] \in Nat /\ clog \in Seq(Entry)
          /\ x <= lastApplied[i] /\ lastApplied[i] <= commitIndex[i] /\ commitIndex[i] <= Len(clog)
      BY <2>1 DEF ServiceInv, ApplyInv, TypeApply, InOrder, RaftInv, TypeRaft
    <3> QED
      BY <3>1, LenProperties
  <2>6. op[c].seq \in Nat \ {0}
    BY <2>3 DEF Op
  <2>7. Answered(clog, op[c],
                 IF op[c].type = "Get" THEN machine[i].lastResult[op[c].client] ELSE <<>>)
    BY <2>2, <2>3, <2>4, <2>5, <2>6, CommittedOnce, CacheAnswers
  <2> QED
    BY <1>2, <2>3, <2>7
<1> QED
  BY <1>1, <1>2 DEF Owes

LEMMA StepAnswers ==
    ASSUME ServiceInv, ServiceInv', ClogGrows, OpsInv, HandlerInv, CommittedInv, OrderInv,
           Replicas, Answers, [Next]_vars
    PROVE  Answers'
<1>0. clog \in Seq(Entry) /\ clog' \in Seq(Entry) /\ Extends(clog, clog') /\ ClerkInv /\ ApplyInv
  BY DEF ServiceInv, RaftInv, TypeRaft, ClogGrows, Extends
<1> SUFFICES ASSUME overtaken' = {}
             PROVE  /\ \A r \in replies' : Answered(clog', r.op, r.value)
                    /\ \A c \in Client :
                          pc'[c] = "waiting" /\ result'[c] # Nil /\ SameTerm(result'[c], wait'[c])
                              => Answered(clog', op'[c], result'[c].value)
  BY DEF Answers, Due
<1>1. overtaken = {}
  BY <1>0, ServerFacts, StepMachine
<1>2. \A o, v : Answered(clog, o, v) => Answered(clog', o, v)
  BY <1>0, AnsweredKept
<1>3. \A r \in replies : Answered(clog', r.op, r.value)
  BY <1>1, <1>2 DEF Answers
<1>4. ASSUME NEW c \in Client, NEW v, Returns(c, v)
      PROVE  \A r \in replies' : Answered(clog', r.op, r.value)
  <2>1. Answered(clog', op[c], v)
    BY <1>1, <1>2, <1>4, OwesAnswer DEF Returns
  <2>2. \A r \in replies' : r \in replies \/ (r.op = op[c] /\ r.value = v)
    BY <1>4 DEF Returns
  <2> QED
    BY <1>3, <2>1, <2>2
<1>5. ASSUME NEW c \in Client, Invoke(c) PROVE replies' = replies
  BY <1>5 DEF Invoke
<1>6. \A r \in replies' : Answered(clog', r.op, r.value)
  BY <1>0, <1>3, <1>4, <1>5, StepReplies DEF NoReturn
<1>7. ASSUME NEW c \in Client, pc'[c] = "waiting", result'[c] # Nil, SameTerm(result'[c], wait'[c])
      PROVE  Answered(clog', op'[c], result'[c].value)
  <2>1. CASE Due(c) /\ op'[c] = op[c] /\ result'[c] = result[c]
    BY <1>1, <1>2, <2>1 DEF Answers
  <2>2. ASSUME NEW i \in Server, NEW n \in 1..Len(clog), Told(i, n, c)
        PROVE  Answered(clog', op'[c], result'[c].value)
    <3> DEFINE x == lastAppliedIndex[i]
               m == machine[i]
    <3>1. /\ Deliver(i, n) /\ pc[c] = "waiting" /\ clog[n].op = op[c] /\ op'[c] = op[c]
          /\ result'[c] = Outcome(m, clog[n].op, term[i])
      BY <2>2 DEF Told
    <3>2. n = x + 1 /\ x \in Nat
      BY <1>0, <3>1 DEF Deliver, ApplyInv, TypeApply
    <3>3. Replica(clog, m, x) /\ SeenIn(clog, m) /\ OrderedLog(clog) /\ OneOpEach(OpsIn(clog))
      BY <1>1, CommittedOnce DEF Replicas, InTurn, CommittedInv, OrderInv
    <3>4. Duplicate(m, clog[n].op) => m.lastSeq[clog[n].op.client] = clog[n].op.seq
      BY <3>1, CachedOwn, OwnCall
    <3>5. Answered(clog, clog[n].op, Outcome(m, clog[n].op, term[i]).value)
      BY <1>0, <3>2, <3>3, <3>4, OutcomeAnswers
    <3> QED
      BY <1>2, <3>1, <3>5
  <2> QED
    BY <1>7, <2>1, <2>2, StepDue
<1> QED
  BY <1>6, <1>7

-----------------------------------------------------------------------------
(* The theorems on the state machine *)

KVInv ==
    ServiceInv /\ OpsInv /\ HandlerInv /\ CommittedInv /\ OrderInv /\ Replicas /\ Answers

LEMMA InitKV == Init => KVInv
<1> SUFFICES ASSUME Init PROVE KVInv
  OBVIOUS
<1>1. ServiceInv
  BY InitService
<1>2. /\ <<>> \in Seq(Entry) /\ Len(<<>>) = 0 /\ 0 \in Server
  BY ServerFacts, EmptySeq
<1>3. clog = <<>> /\ Len(clog) = 0 /\ clog \in Seq(Entry) /\ \A i \in Server : log[i] = <<>>
  BY <1>2 DEF Init
<1>4. OpsInv
  <2>1. OpsIn(<<>>) = {}
    BY <1>2 DEF OpsIn
  <2>2. LogOps = {} /\ OpsIn(clog) = {}
    BY <1>3, <2>1 DEF LogOps
  <2>3. LateOps = {}
    BY DEF Init, LateOps
  <2>4. LastOps = {}
    BY DEF Init, LastOps
  <2>5. Known = {}
    BY <2>2, <2>3, <2>4 DEF Known
  <2> QED
    BY <2>5 DEF OpsInv, OneOpEach, LastCall, Init
<1>5. HandlerInv
  BY SizeAssumption DEF Init, HandlerInv, WaitOK, Registered, Quiet
<1>6. CommittedInv
  BY SeenEmpty DEF Init, CommittedInv, Due, Returned
<1>7. OrderInv
  BY <1>2, <1>3 DEF OrderInv, OrderedLog
<1>8. Replicas
  BY <1>3, ReplicaEmpty DEF Replicas, Init
<1>9. Answers
  BY DEF Answers, Init, Due
<1> QED
  BY <1>1, <1>4, <1>5, <1>6, <1>7, <1>8, <1>9 DEF KVInv

LEMMA KVAlways == Spec => []KVInv
<1>1. KVInv /\ [Next]_vars => KVInv'
  <2> SUFFICES ASSUME KVInv, [Next]_vars PROVE KVInv'
    OBVIOUS
  <2>0. /\ ServiceInv /\ OpsInv /\ HandlerInv /\ CommittedInv /\ OrderInv /\ Replicas /\ Answers
        /\ RaftInv /\ ClerkInv
    BY DEF KVInv, ServiceInv
  <2>1. RaftMove \/ \E i \in Server : Restart(i)
    BY <2>0, StepRaft DEF RaftInv
  <2>2. RaftStep
    BY <2>1, RestartReboots DEF RaftStep
  <2>3. ClogGrows
    BY <2>0, <2>2, StepRaftInv
  <2>4. ServiceInv'
    BY <2>0, <2>2, StepRaftInv, StepClerkInv, StepApplyInv DEF ServiceInv, RaftInv
  <2>5. OpsInv' /\ HandlerInv'
    BY <2>0, StepOpsInv, StepHandlerInv
  <2>6. CommittedInv' /\ OrderInv'
    BY <2>0, <2>1, <2>3, <2>4, StepCommitted, StepOrder
  <2>7. Replicas' /\ Answers'
    BY <2>0, <2>3, <2>4, StepReplicas, StepAnswers
  <2> QED
    BY <2>4, <2>5, <2>6, <2>7 DEF KVInv
<1> QED
  BY <1>1, InitKV, PTL DEF Spec

\* A server whose applier received in turn holds what executing every committed
\* request once gives, at the first of its copies: whatever was retried, started
\* twice, started late by an abandoned handler or replayed after a restart, and
\* with any number of servers, Clerks, keys, leaders and restarts.
THEOREM KVRaftReplicaCorrect == Spec => []ReplicaCorrect
<1>1. KVInv => ReplicaCorrect
  BY DEF KVInv, Replicas, Replica, ReplicaCorrect
<1> QED
  BY <1>1, KVAlways, PTL

\* A Clerk's call returns only when its request is committed, also where entries
\* were overtaken: whatever a Clerk did before its present call is in the
\* committed log for good.
THEOREM KVRaftReturned == Spec => []Returned
<1>1. KVInv => Returned
  BY DEF KVInv, CommittedInv
<1> QED
  BY <1>1, KVAlways, PTL

\* As long as no entry was overtaken, every call that has returned is committed,
\* and a Get has returned what the store held at its place in the log.
THEOREM KVRaftLinearizable == Spec => []Linearizable
<1>1. KVInv => Linearizable
  BY DEF KVInv, Answers, Answered, Linearizable
<1> QED
  BY <1>1, KVAlways, PTL
=============================================================================
