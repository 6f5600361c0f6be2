---------------------------- MODULE TesterProofs ----------------------------
(* The Raft tester keeps its links and its saved states in step, and its     *)
(* appliers keep their types, miss no disagreement and no gap, and raise no  *)
(* false alarm, for any servers, restarts and bounds and whatever the        *)
(* instances apply.  The last part is on the tester's questions.             *)
EXTENDS Tester, TLAPS, FiniteSetTheorems, SequenceTheorems

-----------------------------------------------------------------------------
(* Links and saved states *)

TypeLinks ==
    /\ connected \in [Server -> BOOLEAN]
    /\ boot \in [Server -> Boot] /\ rafts \in [Server -> Boot \cup {0}]
    /\ saved \in [Server -> 0..MaxSave] /\ holder \in [Server -> Boot \cup {0}]
    /\ servers \in [Server -> Boot \cup {0}]
    /\ state \in [Server -> [Boot -> 0..MaxSave]] /\ seen \in [Server -> 0..MaxSave]
    /\ at \in {"idle", "cut", "deleted", "copied", "crashed", "named", "prepared", "made",
               "asking", "again", "looking", "failed"}
    /\ srv \in Server /\ restart \in BOOLEAN

linkVars == <<connected, boot, rafts, saved, holder, enabled, servers, state, seen, srv, restart>>

\* The places of the test outside crash1 and start1.
Elsewhere == {"idle", "asking", "again", "looking", "failed"}

\* How far crash1 and start1 have come with the server they are about.
Place ==
    /\ at \notin Elsewhere => ~connected[srv]
    /\ at \notin Elsewhere \cup {"cut"} => servers[srv] = 0
    /\ at \in {"copied", "crashed", "named", "prepared"} => holder[srv] = 0
    /\ at \in {"crashed", "named", "prepared"} => rafts[srv] = 0
    /\ at = "crashed" \/ (at \in {"cut", "deleted", "copied"} /\ restart) => boot[srv] + 1 \in Boot
    /\ at = "made" => holder[srv] = boot[srv]

\* Only the current incarnation of a server is connected, registered or stored,
\* and then it writes to the saved Persister, which holds its state.
Current ==
    \A i \in Server :
        /\ connected[i] \/ servers[i] # 0 => holder[i] = boot[i]
        /\ servers[i] # 0 => servers[i] = boot[i]
        /\ rafts[i] # 0 /\ ~(srv = i /\ at = "copied") => holder[i] = boot[i]
        /\ holder[i] # 0 => holder[i] = boot[i] /\ state[i][boot[i]] = saved[i]

LinkInv == TypeLinks /\ Place /\ Current /\ LinksFollow /\ SavedSuffices

-----------------------------------------------------------------------------
\* The numbers of incarnations: 1 is one, 0 is none.
LEMMA BootFacts == 1 \in Boot /\ 0 \notin Boot /\ Boot \cup {0} = 0..MaxBoot
BY TesterAssumption DEF Boot

LEMMA BootNext ==
    ASSUME NEW n \in Boot, n < MaxBoot
    PROVE  n + 1 \in Boot
BY TesterAssumption DEF Boot

\* The tester starts with every server connected and nothing saved.
LEMMA LinksInit == Init => LinkInv
<1> SUFFICES ASSUME Init PROVE LinkInv
  OBVIOUS
<1> USE BootFacts DEF Init
<1>1. TypeLinks
  <2>1. 0 \in 0..MaxSave
    BY TesterAssumption
  <2> QED BY <2>1 DEF TypeLinks
<1>2. Place /\ Current /\ SavedSuffices
  BY DEF Place, Elsewhere, Current, SavedSuffices
<1>3. LinksFollow
  BY DEF LinksFollow
<1> QED BY <1>1, <1>2, <1>3 DEF LinkInv

\* A step that leaves the links alone and does not enter or leave crash1 and
\* start1 keeps the invariant.
LEMMA LinksElsewhere ==
    ASSUME LinkInv, UNCHANGED linkVars, at' = at \/ (at \in Elsewhere /\ at' \in Elsewhere)
    PROVE  LinkInv'
BY DEF LinkInv, TypeLinks, Place, Elsewhere, Current, LinksFollow, SavedSuffices, linkVars

\* connect enables the ends between the server and all that are connected.
LEMMA LinksConnect ==
    ASSUME LinkInv, NEW i \in Server, Connect(i)
    PROVE  LinkInv'
<1> USE BootFacts DEF LinkInv, Connect, raftState, logVars
<1>1. TypeLinks'
  BY DEF TypeLinks
<1>2. Place' /\ Current' /\ SavedSuffices'
  BY DEF TypeLinks, Place, Elsewhere, Current, SavedSuffices
<1>3. LinksFollow'
  <2> SUFFICES ASSUME NEW k \in Server, NEW j \in Server, NEW b \in Boot
               PROVE  <<k, b, j>> \in enabled' <=> b = boot[k] /\ connected'[k] /\ connected'[j]
    BY DEF LinksFollow
  <2>1. <<k, b, j>> \in enabled' <=>
           \/ <<k, b, j>> \in enabled
           \/ k = i /\ b = boot[k] /\ (j = i \/ connected[j])
           \/ j = i /\ b = boot[k] /\ (k = i \/ connected[k])
    OBVIOUS
  <2>2. <<k, b, j>> \in enabled <=> b = boot[k] /\ connected[k] /\ connected[j]
    BY DEF LinksFollow
  <2>3. /\ connected'[k] <=> k = i \/ connected[k]
        /\ connected'[j] <=> j = i \/ connected[j]
    BY DEF TypeLinks
  <2> QED BY <2>1, <2>2, <2>3
<1> QED BY <1>1, <1>2, <1>3

\* disconnect disables the ends to and from the server.
LEMMA LinksCut ==
    ASSUME LinkInv, NEW i \in Server, Cut(i), UNCHANGED boot
    PROVE  LinksFollow' /\ enabled' \subseteq enabled
           /\ connected' = [connected EXCEPT ![i] = FALSE]
BY DEF LinkInv, Cut, Ends, TypeLinks, LinksFollow

LEMMA LinksDisconnect ==
    ASSUME LinkInv, NEW i \in Server, Disconnect(i)
    PROVE  LinkInv'
<1> USE BootFacts DEF LinkInv, Disconnect, raftState, logVars
<1>1. LinksFollow' /\ enabled' \subseteq enabled /\ connected' = [connected EXCEPT ![i] = FALSE]
  BY LinksCut
<1>2. TypeLinks'
  BY <1>1 DEF TypeLinks
<1>3. Place' /\ Current' /\ SavedSuffices'
  BY <1>1 DEF TypeLinks, Place, Elsewhere, Current, SavedSuffices
<1> QED BY <1>1, <1>2, <1>3

\* crash1 and start1 begin by cutting the server off.
LEMMA LinksCrash ==
    ASSUME LinkInv, NEW i \in Server, NEW again \in BOOLEAN, Crash(i, again)
    PROVE  LinkInv'
<1> USE BootFacts DEF LinkInv, Crash, raftState, logVars
<1>1. LinksFollow' /\ enabled' \subseteq enabled /\ connected' = [connected EXCEPT ![i] = FALSE]
  BY LinksCut
<1>2. TypeLinks'
  BY <1>1 DEF TypeLinks
<1>3. Place' /\ Current' /\ SavedSuffices'
  BY <1>1, BootNext DEF TypeLinks, Place, Elsewhere, Current, SavedSuffices
<1> QED BY <1>1, <1>2, <1>3

\* The steps of crash1: the server goes from the network before the Persister
\* is copied.
LEMMA LinksStop ==
    ASSUME LinkInv, DeleteServer \/ CopySaved \/ Killed
    PROVE  LinkInv'
<1> USE BootFacts DEF LinkInv, netVars, raftState, logVars, TypeLinks, Place,
        Elsewhere, Current, LinksFollow, SavedSuffices
<1>1. CASE DeleteServer
  BY <1>1 DEF DeleteServer
<1>2. CASE CopySaved
  BY <1>2 DEF CopySaved
<1>3. CASE Killed
  BY <1>3 DEF Killed
<1> QED BY <1>1, <1>2, <1>3

\* The steps of start1: nobody has the new names yet, and the new incarnation
\* gets the saved state.
LEMMA LinksStart ==
    ASSUME LinkInv, NewEnds \/ Prepare \/ MakeRaft \/ AddServer
    PROVE  LinkInv'
<1> USE BootFacts DEF LinkInv, netVars, raftState, logVars, TypeLinks, Place,
        Elsewhere, Current, LinksFollow, SavedSuffices
<1>1. CASE NewEnds
  BY <1>1 DEF NewEnds
<1>2. CASE Prepare
  BY <1>2 DEF Prepare
<1>3. CASE MakeRaft
  BY <1>3 DEF MakeRaft
<1>4. CASE AddServer
  BY <1>4 DEF AddServer
<1> QED BY <1>1, <1>2, <1>3, <1>4

\* persist() reaches the saved Persister only from the incarnation that holds it.
LEMMA LinksSave ==
    ASSUME LinkInv, NEW i \in Server, NEW b \in Boot, Save(i, b)
    PROVE  LinkInv'
<1> USE BootFacts DEF LinkInv, Save, netVars, logVars
<1>1. TypeLinks'
  <2>1. state[i][b] + 1 \in 0..MaxSave
    BY TesterAssumption DEF TypeLinks
  <2>2. state' \in [Server -> [Boot -> 0..MaxSave]] /\ saved' \in [Server -> 0..MaxSave]
    BY <2>1 DEF TypeLinks
  <2> QED BY <2>2 DEF TypeLinks
<1>2. Place' /\ LinksFollow'
  BY DEF TypeLinks, Place, Elsewhere, LinksFollow
<1>3. Current' /\ SavedSuffices'
  BY DEF TypeLinks, Current, SavedSuffices
<1> QED BY <1>1, <1>2, <1>3

\* Whoever can be heard holds the saved Persister.
LEMMA LinksHeard ==
    ASSUME LinkInv, NEW i \in Server, NEW b \in Boot, NEW j \in Server,
           Call(i, b, j) \/ Answer(i, b, j)
    PROVE  LinkInv'
<1> USE BootFacts DEF LinkInv, Heard, netVars, logVars
<1>1. Heard(i, b)
  BY DEF Call, Answer
<1>2. holder[i] = b
  BY DEF Call, Answer, TypeLinks, Current, LinksFollow
<1>3. state[i][b] = saved[i] /\ b = boot[i]
  BY <1>2 DEF TypeLinks, Current
<1>4. TypeLinks' /\ SavedSuffices'
  BY <1>1, <1>3 DEF TypeLinks, SavedSuffices
<1>5. Place' /\ LinksFollow' /\ Current'
  BY <1>1 DEF TypeLinks, Place, Elsewhere, LinksFollow, Current
<1> QED BY <1>4, <1>5

\* The appliers, one, wait and the checks leave the links alone.
LEMMA LinksRest ==
    ASSUME LinkInv, NEW i \in Server, NEW b \in Boot, NEW j \in Server, NEW n, NEW c, NEW l, NEW x,
           \/ Apply(i, b, n, c) \/ TakeMsg(i, b, n, c) \/ CheckMsg(i, b) \/ NoteMsg(i, b)
           \/ Fatalf(i, b) \/ Turn(i, n, l)
           \/ One(i, c, n, x) \/ Wait(n, x) \/ Count(j)
           \/ Agreed \/ LookAgain \/ TimeUp \/ NoLeader
           \/ Look(n) \/ GetState(j) \/ CheckOneLeader \/ CheckTerms \/ CheckNoLeader
    PROVE  LinkInv'
<1> USE DEF netVars, raftState, linkVars, Elsewhere
<1>1. CASE Apply(i, b, n, c) \/ TakeMsg(i, b, n, c) \/ CheckMsg(i, b) \/ NoteMsg(i, b) \/ Fatalf(i, b)
  BY <1>1, LinksElsewhere DEF Apply, TakeMsg, CheckMsg, NoteMsg, Fatalf
<1>2. CASE One(i, c, n, x) \/ Wait(n, x) \/ Count(j)
  BY <1>2, LinksElsewhere DEF One, Wait, Count, askFrame
<1>3. CASE Agreed \/ LookAgain \/ TimeUp \/ NoLeader
  BY <1>3, LinksElsewhere DEF Agreed, LookAgain, TimeUp, NoLeader, askFrame
<1>4. CASE Look(n) \/ GetState(j) \/ Turn(i, n, l)
  BY <1>4, LinksElsewhere DEF Look, GetState, Turn, lookFrame
<1>5. CASE CheckOneLeader \/ CheckTerms \/ CheckNoLeader
  BY <1>5, LinksElsewhere DEF CheckOneLeader, CheckTerms, CheckNoLeader, Found, lookFrame
<1> QED BY <1>1, <1>2, <1>3, <1>4, <1>5

\* Every step keeps the invariant.
LEMMA LinksNext == LinkInv /\ [Next]_vars => LinkInv'
<1> SUFFICES ASSUME LinkInv, [Next]_vars PROVE LinkInv'
  OBVIOUS
<1>1. CASE TestStep
  <2>0. srv \in Server /\ 1 \in Boot
    BY BootFacts DEF LinkInv, TypeLinks
  <2>1. CASE \E i \in Server : Connect(i) \/ Disconnect(i) \/ \E again \in BOOLEAN : Crash(i, again)
    BY <2>1, LinksConnect, LinksDisconnect, LinksCrash
  <2>2. CASE DeleteServer \/ CopySaved \/ Killed
    BY <2>2, LinksStop
  <2>3. CASE NewEnds \/ Prepare \/ MakeRaft \/ AddServer
    BY <2>3, LinksStart
  <2>4. CASE \E n \in 1..Cardinality(Server), x \in Index :
               Wait(n, x) \/ \E i \in Server, c \in Cmd : One(i, c, n, x)
    BY <2>0, <2>4, LinksRest
  <2>5. CASE \E j \in Server : Count(j) \/ GetState(j)
    BY <2>0, <2>5, LinksRest
  <2>6. CASE Agreed \/ LookAgain \/ TimeUp \/ NoLeader
    BY <2>0, <2>6, LinksRest
  <2>7. CASE \E kind \in {"one leader", "terms", "no leader"} : Look(kind)
    BY <2>0, <2>7, LinksRest
  <2>8. CASE CheckOneLeader \/ CheckTerms \/ CheckNoLeader
    BY <2>0, <2>8, LinksRest
  <2> QED BY <1>1, <2>1, <2>2, <2>3, <2>4, <2>5, <2>6, <2>7, <2>8 DEF TestStep
<1>2. CASE RaftStep
  BY <1>2, LinksSave, LinksHeard, LinksRest DEF RaftStep
<1>3. CASE ApplierStep
  BY <1>3, LinksRest DEF ApplierStep
<1>4. CASE UNCHANGED vars
  BY <1>4, LinksElsewhere DEF vars, linkVars
<1> QED BY <1>1, <1>2, <1>3, <1>4 DEF Next

\* The invariant of the links holds in every reachable state.
LEMMA LinksAlways == Spec => []LinkInv
BY LinksInit, LinksNext, PTL DEF Spec

\* Every end is enabled exactly if both its servers are connected, and none of a
\* replaced incarnation is: connect, disconnect, crash1 and start1 of
\* raft/config.go, for any servers and any number of restarts.
THEOREM TesterLinksFollow == Spec => []LinksFollow
<1>1. LinkInv => LinksFollow
  BY DEF LinkInv
<1> QED BY <1>1, LinksAlways, PTL

\* What a peer has heard of a server is in the Persister that Make gets after a
\* crash: the order of the steps of crash1 and start1 loses nothing.
THEOREM TesterSavedSuffices == Spec => []SavedSuffices
<1>1. LinkInv => SavedSuffices
  BY DEF LinkInv
<1> QED BY <1>1, LinksAlways, PTL
-----------------------------------------------------------------------------
(* Appliers and checkLogs *)

HandSet == [at : {"idle", "taken", "checked", "error"}, index : 0..MaxIndex,
            cmd : Cmd \cup {None}, err : BOOLEAN]

TypeLogs ==
    /\ snapshot \in BOOLEAN
    /\ logs \in [Server -> [Index -> Cmd \cup {None}]]
    /\ lastApplied \in [Server -> 0..MaxIndex]
    /\ fatal \in BOOLEAN
    /\ applied \in [Server -> [Boot -> Seq(Message)]]
    /\ hand \in [Server -> [Boot -> HandSet]]
    /\ stray \in BOOLEAN

\* What an applier has in hand is the last message of its incarnation.
HeldBy(i, b) ==
    /\ hand[i][b].at = "idle" => hand[i][b] = Idle
    /\ hand[i][b].at # "idle" =>
          /\ hand[i][b].index \in Index /\ hand[i][b].cmd \in Cmd
          /\ Len(applied[i][b]) > 0
          /\ applied[i][b][Len(applied[i][b])].index = hand[i][b].index
          /\ applied[i][b][Len(applied[i][b])].cmd = hand[i][b].cmd
    /\ hand[i][b].at = "error" => hand[i][b].err = TRUE

Held == \A i \in Server, b \in Boot : HeldBy(i, b)

NoErr == \A i \in Server, b \in Boot : hand[i][b].err = FALSE

\* What is recorded was applied.
Recorded ==
    \A i \in Server, n \in Index :
        logs[i][n] # None =>
            \E b \in Boot : \E k \in 1..Len(applied[i][b]) :
                applied[i][b][k].index = n /\ applied[i][b][k].cmd = logs[i][n]

Agreeing ==
    \A i, j \in Server, n \in Index :
        logs[i][n] # None /\ logs[j][n] # None => logs[i][n] = logs[j][n]

NoGap == \A i \in Server, n \in Index : logs[i][n] # None /\ n > 1 => logs[i][n - 1] # None

\* What was applied is recorded, but for a message checkLogs has not seen yet.
NotedBy(i, b) ==
    \A k \in 1..Len(applied[i][b]) :
        \/ logs[i][applied[i][b][k].index] = applied[i][b][k].cmd
        \/ hand[i][b].at = "taken" /\ k = Len(applied[i][b])

Noted == \A i \in Server, b \in Boot : NotedBy(i, b)

\* As long as no applier has found an error, the records are in order.
LogInv ==
    /\ TypeLogs /\ Held /\ Recorded
    /\ NoErr => Agreeing /\ NoGap /\ Noted
    /\ fatal => ~NoErr

-----------------------------------------------------------------------------
\* The indices of the log.
LEMMA IndexFacts ==
    /\ Index \cup {0} = 0..MaxIndex
    /\ \A n \in Index : n \in Nat /\ n # 0 /\ (n > 1 => n - 1 \in Index)
BY TesterAssumption DEF Index

LEMMA IdleTyped == Idle \in HandSet /\ Idle.at = "idle" /\ Idle.err = FALSE
BY TesterAssumption DEF Hand, HandSet, Idle

\* Sending a message appends it to what the incarnation has applied.
LEMMA Delivered ==
    ASSUME TypeLogs, NEW i \in Server, NEW b \in Boot, NEW n \in Index, NEW c \in Cmd,
           Deliver(i, b, n, c)
    PROVE  /\ applied' \in [Server -> [Boot -> Seq(Message)]]
           /\ applied[i][b] \in Seq(Message) /\ applied'[i][b] \in Seq(Message)
           /\ Len(applied[i][b]) \in Nat /\ Len(applied'[i][b]) = Len(applied[i][b]) + 1
           /\ applied'[i][b][Len(applied[i][b]) + 1].index = n
           /\ applied'[i][b][Len(applied[i][b]) + 1].cmd = c
           /\ \A k \in 1..Len(applied[i][b]) : applied'[i][b][k] = applied[i][b][k]
           /\ \A j \in Server, d \in Boot : j # i \/ d # b => applied'[j][d] = applied[j][d]
<1> DEFINE m == [index |-> n, cmd |-> c]
           s == applied[i][b]
<1>1. m \in Message
  BY DEF Message
<1>2. s \in Seq(Message)
  BY DEF TypeLogs
<1>3. Append(s, m) \in Seq(Message)
  BY <1>1, <1>2
<1>4. applied' = [applied EXCEPT ![i][b] = Append(s, m)]
  BY DEF Deliver
<1> HIDE DEF m, s
<1>5. applied' \in [Server -> [Boot -> Seq(Message)]] /\ applied'[i][b] = Append(s, m)
      /\ \A j \in Server, d \in Boot : j # i \/ d # b => applied'[j][d] = applied[j][d]
  BY <1>3, <1>4 DEF TypeLogs
<1>6. Len(Append(s, m)) = Len(s) + 1 /\ Len(s) \in Nat
      /\ Append(s, m)[Len(s) + 1] = m /\ \A k \in 1..Len(s) : Append(s, m)[k] = s[k]
  BY <1>1, <1>2, AppendProperties
<1>7. m.index = n /\ m.cmd = c
  BY DEF m
<1> QED BY <1>1, <1>2, <1>3, <1>5, <1>6, <1>7 DEF m, s

\* An applier's hand is its own.
LEMMA HandUpdate ==
    ASSUME TypeLogs, NEW i \in Server, NEW b \in Boot, NEW h \in HandSet,
           hand' = [hand EXCEPT ![i][b] = h]
    PROVE  /\ hand' \in [Server -> [Boot -> HandSet]]
           /\ hand'[i][b] = h
           /\ \A j \in Server, d \in Boot : j # i \/ d # b => hand'[j][d] = hand[j][d]
BY DEF TypeLogs

\* checkLogs records the command, over an older one if need be.
LEMMA LogsUpdate ==
    ASSUME TypeLogs, NEW i \in Server, NEW n \in Index, NEW c \in Cmd, Note(i, n, c)
    PROVE  /\ logs' \in [Server -> [Index -> Cmd \cup {None}]]
           /\ logs'[i][n] = c
           /\ \A j \in Server, x \in Index : j # i \/ x # n => logs'[j][x] = logs[j][x]
BY DEF TypeLogs, Note

\* A step of one applier leaves the others' messages alone.
LEMMA HeldElse ==
    ASSUME Held, NEW i \in Server, NEW b \in Boot, HeldBy(i, b)',
           \A j \in Server, d \in Boot :
               j # i \/ d # b => hand'[j][d] = hand[j][d] /\ applied'[j][d] = applied[j][d]
    PROVE  Held'
<1> SUFFICES ASSUME NEW j \in Server, NEW d \in Boot, j # i \/ d # b
             PROVE  HeldBy(j, d)'
  BY DEF Held
<1>1. hand'[j][d] = hand[j][d] /\ applied'[j][d] = applied[j][d]
  OBVIOUS
<1> QED BY <1>1 DEF Held, HeldBy

\* The steps of the appliers, as far as types and the message in hand go.
LEMMA TypesApply ==
    ASSUME TypeLogs, Held, NEW i \in Server, NEW b \in Boot, NEW n \in Index, NEW c \in Cmd,
           Apply(i, b, n, c)
    PROVE  TypeLogs' /\ Held'
<1> DEFINE h == Hand("error", n, c, TRUE)
<1>a. Deliver(i, b, n, c)
  BY DEF Apply
<1>b. hand' = hand \/ hand' = [hand EXCEPT ![i][b] = h]
  BY DEF Apply
<1>0. /\ hand[i][b] = Idle /\ Note(i, n, c)
      /\ snapshot' = snapshot /\ lastApplied' = lastApplied /\ fatal' = fatal /\ stray' = stray
  BY DEF Apply, Deliver
<1>1. /\ applied' \in [Server -> [Boot -> Seq(Message)]]
      /\ Len(applied'[i][b]) > 0
      /\ applied'[i][b][Len(applied'[i][b])].index = n
      /\ applied'[i][b][Len(applied'[i][b])].cmd = c
      /\ \A j \in Server, d \in Boot : j # i \/ d # b => applied'[j][d] = applied[j][d]
  BY <1>a, Delivered
<1>2. h \in HandSet /\ h.at = "error" /\ h.index = n /\ h.cmd = c /\ h.err = TRUE
  <2>1. n \in 0..MaxIndex
    BY IndexFacts
  <2> QED BY <2>1 DEF Hand, HandSet
<1> HIDE DEF h
<1>4. /\ hand' \in [Server -> [Boot -> HandSet]]
      /\ hand'[i][b] = h \/ hand'[i][b] = Idle
      /\ \A j \in Server, d \in Boot : j # i \/ d # b => hand'[j][d] = hand[j][d]
  <2>1. CASE hand' = hand
    BY <1>0, <2>1 DEF TypeLogs
  <2>2. CASE hand' = [hand EXCEPT ![i][b] = h]
    BY <1>2, <2>2 DEF TypeLogs
  <2> QED BY <1>b, <2>1, <2>2
<1>5. TypeLogs'
  <2>1. logs' \in [Server -> [Index -> Cmd \cup {None}]]
    BY <1>0, LogsUpdate
  <2> QED BY <1>0, <1>1, <1>4, <2>1 DEF TypeLogs
<1>6. HeldBy(i, b)'
  BY <1>1, <1>2, <1>4, IdleTyped DEF HeldBy
<1> QED BY <1>1, <1>4, <1>5, <1>6, HeldElse

LEMMA TypesTake ==
    ASSUME TypeLogs, Held, NEW i \in Server, NEW b \in Boot, NEW n \in Index, NEW c \in Cmd,
           TakeMsg(i, b, n, c)
    PROVE  TypeLogs' /\ Held'
<1> DEFINE h == Hand("taken", n, c, n # lastApplied[i] + 1)
<1>1. Deliver(i, b, n, c)
  BY DEF TakeMsg
<1>2. hand' = [hand EXCEPT ![i][b] = h]
  BY DEF TakeMsg
<1>3. snapshot' = snapshot /\ lastApplied' = lastApplied /\ fatal' = fatal /\ logs' = logs
      /\ stray' \in BOOLEAN
  BY DEF TakeMsg
<1>4. /\ applied' \in [Server -> [Boot -> Seq(Message)]]
      /\ Len(applied'[i][b]) > 0
      /\ applied'[i][b][Len(applied'[i][b])].index = n
      /\ applied'[i][b][Len(applied'[i][b])].cmd = c
      /\ \A j \in Server, d \in Boot : j # i \/ d # b => applied'[j][d] = applied[j][d]
  BY <1>1, Delivered
<1>5. h \in HandSet /\ h.at = "taken" /\ h.index = n /\ h.cmd = c
  <2>1. n \in 0..MaxIndex
    BY IndexFacts
  <2> QED BY <2>1 DEF Hand, HandSet
<1> HIDE DEF h
<1>6. /\ hand' \in [Server -> [Boot -> HandSet]] /\ hand'[i][b] = h
      /\ \A j \in Server, d \in Boot : j # i \/ d # b => hand'[j][d] = hand[j][d]
  BY <1>2, <1>5 DEF TypeLogs
<1>7. TypeLogs'
  BY <1>3, <1>4, <1>6 DEF TypeLogs
<1>8. HeldBy(i, b)'
  BY <1>4, <1>5, <1>6 DEF HeldBy
<1> QED BY <1>4, <1>6, <1>7, <1>8, HeldElse

LEMMA TypesCheck ==
    ASSUME TypeLogs, Held, NEW i \in Server, NEW b \in Boot, CheckMsg(i, b)
    PROVE  TypeLogs' /\ Held'
<1> DEFINE m == hand[i][b]
           h == Hand("checked", m.index, m.cmd,
                     m.err \/ Mismatch(i, m.index, m.cmd) \/ Gap(i, m.index))
<1>1. hand' = [hand EXCEPT ![i][b] = h] /\ m.at = "taken"
  BY DEF CheckMsg
<1>2. logs' = logs \/ Note(i, m.index, m.cmd)
  BY DEF CheckMsg
<1>3. snapshot' = snapshot /\ lastApplied' = lastApplied /\ fatal' = fatal /\ applied' = applied
      /\ stray' = stray
  BY DEF CheckMsg
<1>4. HeldBy(i, b)
  BY DEF Held
<1>5. m.index \in Index /\ m.cmd \in Cmd
  BY <1>1, <1>4 DEF HeldBy
<1>6. h \in HandSet /\ h.at = "checked" /\ h.index = m.index /\ h.cmd = m.cmd
  <2>1. m.index \in 0..MaxIndex
    BY <1>5, IndexFacts
  <2> HIDE DEF m
  <2> QED BY <1>5, <2>1 DEF Hand, HandSet
<1> HIDE DEF h
<1>7. /\ hand' \in [Server -> [Boot -> HandSet]] /\ hand'[i][b] = h
      /\ \A j \in Server, d \in Boot : j # i \/ d # b => hand'[j][d] = hand[j][d]
  BY <1>1, <1>6 DEF TypeLogs
<1>8. logs' \in [Server -> [Index -> Cmd \cup {None}]]
  BY <1>2, <1>5, LogsUpdate DEF TypeLogs
<1>9. TypeLogs'
  BY <1>3, <1>7, <1>8 DEF TypeLogs
<1>10. HeldBy(i, b)'
  BY <1>1, <1>3, <1>4, <1>6, <1>7 DEF HeldBy
<1> QED BY <1>3, <1>7, <1>9, <1>10, HeldElse

LEMMA TypesNote ==
    ASSUME TypeLogs, Held, NEW i \in Server, NEW b \in Boot, NoteMsg(i, b)
    PROVE  TypeLogs' /\ Held'
<1> DEFINE m == hand[i][b]
           h == Hand("error", m.index, m.cmd, TRUE)
<1>1. m.at = "checked" /\ (hand' = [hand EXCEPT ![i][b] = h] \/ hand' = [hand EXCEPT ![i][b] = Idle])
  BY DEF NoteMsg
<1>2. lastApplied' = [lastApplied EXCEPT ![i] = m.index]
  BY DEF NoteMsg
<1>3. snapshot' = snapshot /\ logs' = logs /\ fatal' = fatal /\ applied' = applied
      /\ stray' \in BOOLEAN
  BY DEF NoteMsg
<1>4. HeldBy(i, b)
  BY DEF Held
<1>5. m.index \in Index /\ m.cmd \in Cmd
  BY <1>1, <1>4 DEF HeldBy
<1>6. m.index \in 0..MaxIndex
  BY <1>5, IndexFacts
<1>7. h \in HandSet /\ h.at = "error" /\ h.index = m.index /\ h.cmd = m.cmd /\ h.err = TRUE
  <2> HIDE DEF m
  <2> QED BY <1>5, <1>6 DEF Hand, HandSet
<1> HIDE DEF h
<1>8. /\ hand' \in [Server -> [Boot -> HandSet]] /\ (hand'[i][b] = h \/ hand'[i][b] = Idle)
      /\ \A j \in Server, d \in Boot : j # i \/ d # b => hand'[j][d] = hand[j][d]
  <2>1. CASE hand' = [hand EXCEPT ![i][b] = h]
    BY <1>7, <2>1 DEF TypeLogs
  <2>2. CASE hand' = [hand EXCEPT ![i][b] = Idle]
    BY <2>2, IdleTyped DEF TypeLogs
  <2> QED BY <1>1, <2>1, <2>2
<1>9. TypeLogs'
  <2>1. lastApplied' \in [Server -> 0..MaxIndex]
    BY <1>2, <1>6 DEF TypeLogs
  <2> QED BY <1>3, <1>8, <2>1 DEF TypeLogs
<1>10. HeldBy(i, b)'
  BY <1>1, <1>3, <1>4, <1>7, <1>8, IdleTyped DEF HeldBy
<1> QED BY <1>3, <1>8, <1>9, <1>10, HeldElse

\* log.Fatalf, and start1's reset of lastApplied.
LEMMA TypesRest ==
    ASSUME TypeLogs, Held, snapshot' = snapshot, logs' = logs, applied' = applied, hand' = hand,
           stray' = stray, fatal' \in BOOLEAN,
           lastApplied' = lastApplied \/ lastApplied' = [lastApplied EXCEPT ![srv] = 0]
    PROVE  TypeLogs' /\ Held'
<1>1. 0 \in 0..MaxIndex
  BY TesterAssumption
<1>2. lastApplied' \in [Server -> 0..MaxIndex]
  BY <1>1 DEF TypeLogs
<1> QED BY <1>2 DEF TypeLogs, Held, HeldBy

-----------------------------------------------------------------------------
\* A command that checkLogs accepts leaves what is recorded as it is.
LEMMA NoteKeeps ==
    ASSUME TypeLogs, Agreeing, NoGap, NEW i \in Server, NEW n \in Index, NEW c \in Cmd,
           Note(i, n, c), ~Mismatch(i, n, c), ~Gap(i, n)
    PROVE  /\ Agreeing' /\ NoGap'
           /\ \A j \in Server, x \in Index : logs[j][x] # None => logs'[j][x] = logs[j][x]
<1>1. /\ logs' \in [Server -> [Index -> Cmd \cup {None}]] /\ logs'[i][n] = c
      /\ \A j \in Server, x \in Index : j # i \/ x # n => logs'[j][x] = logs[j][x]
  BY LogsUpdate
<1>2. \A j \in Server : logs[j][n] = None \/ logs[j][n] = c
  BY DEF Mismatch
<1>3. c # None
  BY TesterAssumption
<1>4. \A j \in Server, x \in Index : logs[j][x] # None => logs'[j][x] = logs[j][x]
  BY <1>1, <1>2
<1>5. Agreeing'
  BY <1>1, <1>2, <1>4 DEF Agreeing
<1>6. NoGap'
  <2> SUFFICES ASSUME NEW j \in Server, NEW x \in Index, logs'[j][x] # None, x > 1
               PROVE  logs'[j][x - 1] # None
    BY DEF NoGap
  <2>1. x - 1 \in Index
    BY IndexFacts
  <2>2. logs[j][x - 1] # None
    <3>1. CASE j = i /\ x = n
      BY <3>1 DEF Gap
    <3>2. CASE j # i \/ x # n
      BY <1>1, <3>2 DEF NoGap
    <3> QED BY <3>1, <3>2
  <2> QED BY <1>4, <2>1, <2>2
<1> QED BY <1>4, <1>5, <1>6

\* A step of one applier that loses no record leaves the others' messages noted.
LEMMA NotedElse ==
    ASSUME TypeLogs, Noted, NEW i \in Server, NEW b \in Boot, NotedBy(i, b)',
           \A j \in Server, x \in Index : logs[j][x] # None => logs'[j][x] = logs[j][x],
           \A j \in Server, d \in Boot :
               j # i \/ d # b => hand'[j][d] = hand[j][d] /\ applied'[j][d] = applied[j][d]
    PROVE  Noted'
<1> SUFFICES ASSUME NEW j \in Server, NEW d \in Boot, j # i \/ d # b,
                    NEW k \in 1..Len(applied[j][d])
             PROVE  \/ logs'[j][applied[j][d][k].index] = applied[j][d][k].cmd
                    \/ hand[j][d].at = "taken" /\ k = Len(applied[j][d])
  <2>1. ASSUME NEW j \in Server, NEW d \in Boot, j # i \/ d # b PROVE NotedBy(j, d)'
    <3>1. hand'[j][d] = hand[j][d] /\ applied'[j][d] = applied[j][d]
      BY <2>1
    <3> QED BY <2>1, <3>1 DEF NotedBy
  <2> QED BY <2>1 DEF Noted
<1>1. applied[j][d] \in Seq(Message)
  BY DEF TypeLogs
<1>2. applied[j][d][k] \in Message
  BY <1>1
<1>3. applied[j][d][k].index \in Index /\ applied[j][d][k].cmd # None
  BY <1>2, TesterAssumption DEF Message
<1>4. NotedBy(j, d)
  BY DEF Noted
<1> QED BY <1>3, <1>4 DEF NotedBy

\* Nothing that was applied goes away.
Grows ==
    \A j \in Server, d \in Boot :
        /\ 1..Len(applied[j][d]) \subseteq 1..Len(applied'[j][d])
        /\ \A k \in 1..Len(applied[j][d]) : applied'[j][d][k] = applied[j][d][k]

\* A message that is sent is the last one of its incarnation.
LEMMA DeliverGrows ==
    ASSUME TypeLogs, NEW i \in Server, NEW b \in Boot, NEW n \in Index, NEW c \in Cmd,
           Deliver(i, b, n, c)
    PROVE  Grows
<1> SUFFICES ASSUME NEW j \in Server, NEW d \in Boot
             PROVE  /\ 1..Len(applied[j][d]) \subseteq 1..Len(applied'[j][d])
                    /\ \A k \in 1..Len(applied[j][d]) : applied'[j][d][k] = applied[j][d][k]
  BY DEF Grows
<1>1. /\ Len(applied[i][b]) \in Nat /\ Len(applied'[i][b]) = Len(applied[i][b]) + 1
      /\ \A k \in 1..Len(applied[i][b]) : applied'[i][b][k] = applied[i][b][k]
      /\ j # i \/ d # b => applied'[j][d] = applied[j][d]
  BY Delivered
<1>2. CASE j = i /\ d = b
  BY <1>1, <1>2
<1>3. CASE j # i \/ d # b
  BY <1>1, <1>3
<1> QED BY <1>2, <1>3

\* A record stays backed by a message.
LEMMA RecordedStays ==
    ASSUME Recorded, Grows, NEW j \in Server, NEW x \in Index, logs[j][x] # None,
           logs'[j][x] = logs[j][x]
    PROVE  \E d \in Boot : \E k \in 1..Len(applied'[j][d]) :
               applied'[j][d][k].index = x /\ applied'[j][d][k].cmd = logs'[j][x]
<1>1. PICK d \in Boot : \E k \in 1..Len(applied[j][d]) :
          applied[j][d][k].index = x /\ applied[j][d][k].cmd = logs[j][x]
  BY DEF Recorded
<1>2. PICK k \in 1..Len(applied[j][d]) :
          applied[j][d][k].index = x /\ applied[j][d][k].cmd = logs[j][x]
  BY <1>1
<1>3. k \in 1..Len(applied'[j][d]) /\ applied'[j][d][k] = applied[j][d][k]
  BY <1>2 DEF Grows
<1> QED BY <1>2, <1>3

\* applier: a message is checked and recorded in one step.
LEMMA LogsApply ==
    ASSUME LogInv, NEW i \in Server, NEW b \in Boot, NEW n \in Index, NEW c \in Cmd,
           Apply(i, b, n, c)
    PROVE  LogInv'
<1>0. TypeLogs /\ Held /\ Recorded
  BY DEF LogInv
<1>1. TypeLogs' /\ Held'
  BY <1>0, TypesApply
<1>a. Deliver(i, b, n, c)
  BY DEF Apply
<1>2. Note(i, n, c) /\ ~fatal /\ ~fatal' /\ hand[i][b] = Idle
  BY DEF Apply, Deliver
<1>3. /\ Len(applied[i][b]) \in Nat /\ Len(applied'[i][b]) = Len(applied[i][b]) + 1
      /\ applied'[i][b][Len(applied[i][b]) + 1].index = n
      /\ applied'[i][b][Len(applied[i][b]) + 1].cmd = c
      /\ \A k \in 1..Len(applied[i][b]) : applied'[i][b][k] = applied[i][b][k]
      /\ \A j \in Server, d \in Boot : j # i \/ d # b => applied'[j][d] = applied[j][d]
  BY <1>0, <1>a, Delivered
<1>4. /\ logs'[i][n] = c
      /\ \A j \in Server, x \in Index : j # i \/ x # n => logs'[j][x] = logs[j][x]
  BY <1>0, <1>2, LogsUpdate
<1>5. Recorded'
  <2> SUFFICES ASSUME NEW j \in Server, NEW x \in Index, logs'[j][x] # None
               PROVE  \E d \in Boot : \E k \in 1..Len(applied'[j][d]) :
                          applied'[j][d][k].index = x /\ applied'[j][d][k].cmd = logs'[j][x]
    BY DEF Recorded
  <2>1. CASE j = i /\ x = n
    <3>1. Len(applied[i][b]) + 1 \in 1..Len(applied'[i][b])
      BY <1>3
    <3> QED BY <1>3, <1>4, <2>1, <3>1
  <2>2. CASE j # i \/ x # n
    BY <1>0, <1>a, <1>4, <2>2, DeliverGrows, RecordedStays
  <2> QED BY <2>1, <2>2
<1>6. ASSUME NoErr'
      PROVE  Agreeing' /\ NoGap' /\ Noted'
  <2>1. ~Mismatch(i, n, c) /\ ~Gap(i, n) /\ hand' = hand
    <3>1. CASE Mismatch(i, n, c) \/ Gap(i, n)
      <4>1. hand' = [hand EXCEPT ![i][b] = Hand("error", n, c, TRUE)]
        BY <3>1 DEF Apply
      <4>2. hand'[i][b] = Hand("error", n, c, TRUE)
        BY <1>0, <4>1 DEF TypeLogs
      <4>3. hand'[i][b].err = TRUE
        BY <4>2 DEF Hand
      <4> QED BY <1>6, <4>3 DEF NoErr
    <3>2. CASE ~(Mismatch(i, n, c) \/ Gap(i, n))
      BY <3>2 DEF Apply
    <3> QED BY <3>1, <3>2
  <2>2. Agreeing /\ NoGap /\ Noted
    BY <1>6, <2>1 DEF LogInv, NoErr
  <2>3. /\ Agreeing' /\ NoGap'
        /\ \A j \in Server, x \in Index : logs[j][x] # None => logs'[j][x] = logs[j][x]
    BY <1>0, <1>2, <2>1, <2>2, NoteKeeps
  <2>4. NotedBy(i, b)'
    <3> SUFFICES ASSUME NEW k \in 1..Len(applied'[i][b])
                 PROVE  logs'[i][applied'[i][b][k].index] = applied'[i][b][k].cmd
      BY DEF NotedBy
    <3>1. CASE k = Len(applied[i][b]) + 1
      BY <1>3, <1>4, <3>1
    <3>2. CASE k \in 1..Len(applied[i][b])
      <4>1. applied[i][b][k] \in Message
        BY <1>0, <3>2 DEF TypeLogs
      <4>2. applied[i][b][k].index \in Index /\ applied[i][b][k].cmd # None
        BY <4>1, TesterAssumption DEF Message
      <4>3. logs[i][applied[i][b][k].index] = applied[i][b][k].cmd
        BY <1>2, <2>2, <3>2, IdleTyped DEF Noted, NotedBy
      <4>4. logs'[i][applied[i][b][k].index] = applied[i][b][k].cmd
        BY <2>3, <4>2, <4>3
      <4>5. applied'[i][b][k] = applied[i][b][k]
        BY <1>3, <3>2
      <4> QED BY <4>4, <4>5
    <3> QED BY <1>3, <3>1, <3>2
  <2>5. Noted'
    BY <1>0, <1>3, <2>1, <2>2, <2>3, <2>4, NotedElse
  <2> QED BY <2>3, <2>5
<1> QED BY <1>1, <1>2, <1>5, <1>6 DEF LogInv

\* applierSnap takes a message: it is not recorded yet.
LEMMA LogsTake ==
    ASSUME LogInv, NEW i \in Server, NEW b \in Boot, NEW n \in Index, NEW c \in Cmd,
           TakeMsg(i, b, n, c)
    PROVE  LogInv'
<1>0. TypeLogs /\ Held /\ Recorded
  BY DEF LogInv
<1>1. TypeLogs' /\ Held'
  BY <1>0, TypesTake
<1>a. Deliver(i, b, n, c)
  BY DEF TakeMsg
<1>2. logs' = logs /\ ~fatal /\ ~fatal' /\ hand[i][b] = Idle
  BY DEF TakeMsg, Deliver
<1>3. /\ Len(applied[i][b]) \in Nat /\ Len(applied'[i][b]) = Len(applied[i][b]) + 1
      /\ \A k \in 1..Len(applied[i][b]) : applied'[i][b][k] = applied[i][b][k]
      /\ \A j \in Server, d \in Boot : j # i \/ d # b => applied'[j][d] = applied[j][d]
  BY <1>0, <1>a, Delivered
<1>4. /\ hand'[i][b] = Hand("taken", n, c, n # lastApplied[i] + 1)
      /\ \A j \in Server, d \in Boot : j # i \/ d # b => hand'[j][d] = hand[j][d]
  BY <1>0 DEF TakeMsg, TypeLogs
<1>5. hand'[i][b].at = "taken"
  BY <1>4 DEF Hand
<1>6. Recorded'
  BY <1>0, <1>a, <1>2, DeliverGrows, RecordedStays DEF Recorded
<1>7. ASSUME NoErr'
      PROVE  Agreeing' /\ NoGap' /\ Noted'
  <2>1. NoErr
    BY <1>2, <1>4, <1>7, IdleTyped DEF NoErr
  <2>2. Agreeing /\ NoGap /\ Noted
    BY <2>1 DEF LogInv
  <2>3. Agreeing' /\ NoGap'
    BY <1>2, <2>2 DEF Agreeing, NoGap
  <2>4. NotedBy(i, b)'
    <3> SUFFICES ASSUME NEW k \in 1..Len(applied[i][b])
                 PROVE  logs[i][applied'[i][b][k].index] = applied'[i][b][k].cmd
      BY <1>2, <1>3, <1>5 DEF NotedBy
    <3>1. logs[i][applied[i][b][k].index] = applied[i][b][k].cmd
      BY <1>2, <2>2, IdleTyped DEF Noted, NotedBy
    <3>2. applied'[i][b][k] = applied[i][b][k]
      BY <1>3
    <3> QED BY <3>1, <3>2
  <2>5. \A j \in Server, x \in Index : logs[j][x] # None => logs'[j][x] = logs[j][x]
    BY <1>2
  <2>6. Noted'
    BY <1>0, <1>3, <1>4, <2>2, <2>4, <2>5, NotedElse
  <2> QED BY <2>3, <2>6
<1> QED BY <1>1, <1>2, <1>6, <1>7 DEF LogInv

\* applierSnap checks and records a message whose index was right.
LEMMA LogsCheck ==
    ASSUME LogInv, NEW i \in Server, NEW b \in Boot, CheckMsg(i, b)
    PROVE  LogInv'
<1> DEFINE m == hand[i][b]
           l == Len(applied[i][b])
<1>0. TypeLogs /\ Held /\ Recorded
  BY DEF LogInv
<1>1. TypeLogs' /\ Held'
  BY <1>0, TypesCheck
<1>2. m.at = "taken" /\ applied' = applied /\ ~fatal /\ ~fatal'
  BY DEF CheckMsg
<1>3. /\ hand'[i][b] = Hand("checked", m.index, m.cmd,
                            m.err \/ Mismatch(i, m.index, m.cmd) \/ Gap(i, m.index))
      /\ \A j \in Server, d \in Boot : j # i \/ d # b => hand'[j][d] = hand[j][d]
  BY <1>0 DEF CheckMsg, TypeLogs
<1>4. HeldBy(i, b)
  BY <1>0 DEF Held
<1>5. /\ m.index \in Index /\ m.cmd \in Cmd /\ l > 0
      /\ applied[i][b][l].index = m.index /\ applied[i][b][l].cmd = m.cmd
  BY <1>2, <1>4 DEF HeldBy
<1>6. l \in 1..Len(applied[i][b])
  BY <1>0, <1>5 DEF TypeLogs
<1>7. Grows
  BY <1>2 DEF Grows
<1>8. Recorded'
  <2>1. CASE logs' = logs
    BY <1>0, <1>7, <2>1, RecordedStays DEF Recorded
  <2>2. CASE Note(i, m.index, m.cmd)
    <3> SUFFICES ASSUME NEW j \in Server, NEW x \in Index, logs'[j][x] # None
                 PROVE  \E d \in Boot : \E k \in 1..Len(applied'[j][d]) :
                            applied'[j][d][k].index = x /\ applied'[j][d][k].cmd = logs'[j][x]
      BY DEF Recorded
    <3>1. /\ logs'[i][m.index] = m.cmd
          /\ j # i \/ x # m.index => logs'[j][x] = logs[j][x]
      BY <1>0, <1>5, <2>2, LogsUpdate
    <3>2. CASE j = i /\ x = m.index
      BY <1>2, <1>5, <1>6, <3>1, <3>2
    <3>3. CASE j # i \/ x # m.index
      BY <1>0, <1>7, <3>1, <3>3, RecordedStays
    <3> QED BY <3>2, <3>3
  <2> QED BY <2>1, <2>2 DEF CheckMsg
<1>9. ASSUME NoErr'
      PROVE  Agreeing' /\ NoGap' /\ Noted'
  <2>1. hand'[i][b].err = FALSE
    BY <1>9 DEF NoErr
  <2>2. ~Mismatch(i, m.index, m.cmd) /\ ~Gap(i, m.index) /\ ~m.err
    <3>1. hand'[i][b].err = (m.err \/ Mismatch(i, m.index, m.cmd) \/ Gap(i, m.index))
      BY <1>3 DEF Hand
    <3> QED BY <2>1, <3>1
  <2>3. Note(i, m.index, m.cmd)
    BY <2>2 DEF CheckMsg
  <2>4. hand[i][b].err = FALSE
    <3>1. hand[i][b].err \in BOOLEAN
      BY <1>0 DEF TypeLogs, HandSet
    <3> QED BY <2>2, <3>1
  <2>5. NoErr
    BY <1>3, <1>9, <2>4 DEF NoErr
  <2>6. Agreeing /\ NoGap /\ Noted
    BY <2>5 DEF LogInv
  <2>7. /\ Agreeing' /\ NoGap'
        /\ \A j \in Server, x \in Index : logs[j][x] # None => logs'[j][x] = logs[j][x]
    BY <1>0, <1>5, <2>2, <2>3, <2>6, NoteKeeps
  <2>8. NotedBy(i, b)'
    <3> SUFFICES ASSUME NEW k \in 1..Len(applied[i][b])
                 PROVE  logs'[i][applied[i][b][k].index] = applied[i][b][k].cmd
      BY <1>2 DEF NotedBy
    <3>1. CASE k = l
      <4>1. logs'[i][m.index] = m.cmd
        BY <1>0, <1>5, <2>3, LogsUpdate
      <4> QED BY <1>5, <3>1, <4>1
    <3>2. CASE k # l
      <4>1. applied[i][b][k] \in Message
        BY <1>0 DEF TypeLogs
      <4>2. applied[i][b][k].index \in Index /\ applied[i][b][k].cmd # None
        BY <4>1, TesterAssumption DEF Message
      <4>3. logs[i][applied[i][b][k].index] = applied[i][b][k].cmd
        BY <2>6, <3>2 DEF Noted, NotedBy
      <4> QED BY <2>7, <4>2, <4>3
    <3> QED BY <3>1, <3>2
  <2>9. Noted'
    BY <1>0, <1>2, <1>3, <2>6, <2>7, <2>8, NotedElse
  <2> QED BY <2>7, <2>9
<1> QED BY <1>1, <1>2, <1>8, <1>9 DEF LogInv

\* applierSnap is through with a message.
LEMMA LogsNoteMsg ==
    ASSUME LogInv, NEW i \in Server, NEW b \in Boot, NoteMsg(i, b)
    PROVE  LogInv'
<1>0. TypeLogs /\ Held /\ Recorded
  BY DEF LogInv
<1>1. TypeLogs' /\ Held'
  BY <1>0, TypesNote
<1>2. hand[i][b].at = "checked" /\ applied' = applied /\ logs' = logs /\ ~fatal /\ ~fatal'
  BY DEF NoteMsg
<1>3. \A j \in Server, d \in Boot : j # i \/ d # b => hand'[j][d] = hand[j][d]
  BY <1>0 DEF NoteMsg, TypeLogs
<1>4. Recorded'
  BY <1>0, <1>2 DEF Recorded
<1>5. ASSUME NoErr'
      PROVE  Agreeing' /\ NoGap' /\ Noted'
  <2>1. hand[i][b].err = FALSE
    <3>1. hand[i][b].err \in BOOLEAN
      BY <1>0 DEF TypeLogs, HandSet
    <3>2. ASSUME hand[i][b].err = TRUE PROVE FALSE
      <4>1. hand'[i][b] = Hand("error", hand[i][b].index, hand[i][b].cmd, TRUE)
        BY <1>0, <3>2 DEF NoteMsg, TypeLogs
      <4>2. hand'[i][b].err = TRUE
        BY <4>1 DEF Hand
      <4> QED BY <1>5, <4>2 DEF NoErr
    <3> QED BY <3>1, <3>2
  <2>2. NoErr
    BY <1>3, <1>5, <2>1 DEF NoErr
  <2>3. Agreeing /\ NoGap /\ Noted
    BY <2>2 DEF LogInv
  <2>4. Agreeing' /\ NoGap'
    BY <1>2, <2>3 DEF Agreeing, NoGap
  <2>5. NotedBy(i, b)'
    BY <1>2, <2>3 DEF Noted, NotedBy
  <2>6. Noted'
    BY <1>0, <1>2, <1>3, <2>3, <2>5, NotedElse
  <2> QED BY <2>4, <2>6
<1> QED BY <1>1, <1>2, <1>4, <1>5 DEF LogInv

LEMMA LogsFatalf ==
    ASSUME LogInv, NEW i \in Server, NEW b \in Boot, Fatalf(i, b)
    PROVE  LogInv'
<1>1. /\ snapshot' = snapshot /\ logs' = logs /\ applied' = applied /\ hand' = hand
      /\ stray' = stray /\ fatal' = TRUE /\ lastApplied' = lastApplied
      /\ hand[i][b].at = "error"
  BY DEF Fatalf
<1>2. TypeLogs' /\ Held'
  BY <1>1, TypesRest DEF LogInv
<1>3. hand[i][b].err = TRUE
  BY <1>1 DEF LogInv, Held, HeldBy
<1>4. ~NoErr'
  BY <1>1, <1>3 DEF NoErr
<1> QED BY <1>1, <1>2, <1>4 DEF LogInv, Recorded

\* The rest of the tester leaves the records alone, start1's reset of
\* lastApplied apart.
LEMMA LogsRest ==
    ASSUME LogInv, snapshot' = snapshot, logs' = logs, applied' = applied, hand' = hand,
           stray' = stray, fatal' = fatal,
           lastApplied' = lastApplied \/ lastApplied' = [lastApplied EXCEPT ![srv] = 0]
    PROVE  LogInv'
<1>1. TypeLogs' /\ Held'
  BY TypesRest DEF LogInv, TypeLogs
<1> QED BY <1>1 DEF LogInv, Recorded, NoErr, Agreeing, NoGap, Noted, NotedBy

\* The steps of the test and of the instances, as far as the appliers see them.
LEMMA Bystander ==
    ASSUME TestStep \/ RaftStep \/ UNCHANGED vars
    PROVE  /\ snapshot' = snapshot /\ logs' = logs /\ applied' = applied /\ hand' = hand
           /\ stray' = stray /\ fatal' = fatal
           /\ lastApplied' = lastApplied \/ lastApplied' = [lastApplied EXCEPT ![srv] = 0]
<1> USE DEF netVars, raftState, logVars
<1>1. CASE UNCHANGED vars
  BY <1>1 DEF vars
<1>2. CASE RaftStep
  <2>1. PICK i \in Server, b \in Boot :
            \/ Save(i, b) \/ \E j \in Server : Call(i, b, j) \/ Answer(i, b, j)
            \/ \E t \in 0..MaxTerm, l \in BOOLEAN : Turn(i, t, l)
    BY <1>2 DEF RaftStep
  <2>2. CASE Save(i, b)
    BY <2>2 DEF Save
  <2>3. CASE \E j \in Server : Call(i, b, j) \/ Answer(i, b, j)
    <3>1. Heard(i, b)
      BY <2>3 DEF Call, Answer
    <3> QED BY <3>1 DEF Heard
  <2>4. CASE \E t \in 0..MaxTerm, l \in BOOLEAN : Turn(i, t, l)
    BY <2>4 DEF Turn, lookFrame
  <2> QED BY <2>1, <2>2, <2>3, <2>4
<1>3. CASE TestStep
  <2>1. CASE \E i \in Server : Connect(i) \/ Disconnect(i) \/ \E again \in BOOLEAN : Crash(i, again)
    BY <2>1 DEF Connect, Disconnect, Crash
  <2>2. CASE DeleteServer \/ CopySaved \/ Killed
    BY <2>2 DEF DeleteServer, CopySaved, Killed
  <2>3. CASE NewEnds \/ Prepare \/ MakeRaft \/ AddServer
    BY <2>3 DEF NewEnds, Prepare, MakeRaft, AddServer
  <2>4. CASE \E n \in 1..Cardinality(Server), x \in Index :
               Wait(n, x) \/ \E i \in Server, c \in Cmd : One(i, c, n, x)
    BY <2>4 DEF Wait, One, askFrame
  <2>5. CASE \E j \in Server : Count(j)
    BY <2>5 DEF Count, askFrame
  <2>6. CASE \E j \in Server : GetState(j)
    BY <2>6 DEF GetState, lookFrame
  <2>7. CASE Agreed \/ LookAgain \/ TimeUp \/ NoLeader
    BY <2>7 DEF Agreed, LookAgain, TimeUp, NoLeader, askFrame
  <2>8. CASE \E kind \in {"one leader", "terms", "no leader"} : Look(kind)
    BY <2>8 DEF Look, lookFrame
  <2>9. CASE CheckOneLeader \/ CheckTerms \/ CheckNoLeader
    BY <2>9 DEF CheckOneLeader, CheckTerms, CheckNoLeader, Found, lookFrame
  <2> QED BY <1>3, <2>1, <2>2, <2>3, <2>4, <2>5, <2>6, <2>7, <2>8, <2>9 DEF TestStep
<1> QED BY <1>1, <1>2, <1>3

LEMMA LogsNext == LogInv /\ [Next]_vars => LogInv'
<1> SUFFICES ASSUME LogInv, [Next]_vars PROVE LogInv'
  OBVIOUS
<1>1. CASE ApplierStep
  BY <1>1, LogsApply, LogsTake, LogsCheck, LogsNoteMsg, LogsFatalf DEF ApplierStep
<1>2. CASE TestStep \/ RaftStep \/ UNCHANGED vars
  BY <1>2, Bystander, LogsRest
<1> QED BY <1>1, <1>2 DEF Next

LEMMA LogsInit == Init => LogInv
<1> SUFFICES ASSUME Init PROVE LogInv
  OBVIOUS
<1>1. \A i \in Server, b \in Boot : hand[i][b] = Idle /\ applied[i][b] = <<>>
  BY DEF Init
<1>2. \A i \in Server, n \in Index : logs[i][n] = None
  BY DEF Init
<1>3. TypeLogs
  <2>1. 0 \in 0..MaxIndex
    BY TesterAssumption
  <2>2. <<>> \in Seq(Message)
    OBVIOUS
  <2> QED BY <2>1, <2>2, IdleTyped DEF Init, TypeLogs
<1>4. Held
  BY <1>1, IdleTyped DEF Held, HeldBy
<1>5. Recorded /\ Agreeing /\ NoGap
  BY <1>2 DEF Recorded, Agreeing, NoGap
<1>6. Noted
  BY <1>1 DEF Noted, NotedBy
<1>7. ~fatal
  BY DEF Init
<1> QED BY <1>3, <1>4, <1>5, <1>6, <1>7 DEF LogInv

\* The invariant of the appliers holds in every reachable state.
LEMMA LogsAlways == Spec => []LogInv
BY LogsInit, LogsNext, PTL DEF Spec

\* All that was applied, message by message.
LEMMA AppliedMessage ==
    ASSUME TypeLogs, NEW m \in Applied
    PROVE  \E i \in Server, b \in Boot : \E k \in 1..Len(applied[i][b]) : m = applied[i][b][k]
<1>1. PICK i \in Server, b \in Boot : \E k \in DOMAIN applied[i][b] : m = applied[i][b][k]
  BY DEF Applied
<1>2. applied[i][b] \in Seq(Message)
  BY DEF TypeLogs
<1>3. DOMAIN applied[i][b] = 1..Len(applied[i][b])
  BY <1>2
<1> QED BY <1>1, <1>3

\* checkLogs misses no disagreement, for any servers, commands, restarts and
\* whatever the instances apply: it looks only at the last record of each index.
THEOREM TesterDisagreementCaught == Spec => []DisagreementCaught
<1>1. ASSUME LogInv
      PROVE  DisagreementCaught
  <2> SUFFICES ASSUME Quiet, NEW m \in Applied, NEW l \in Applied, m.index = l.index
               PROVE  m.cmd = l.cmd
    BY DEF DisagreementCaught
  <2>1. NoErr /\ \A i \in Server, b \in Boot : hand[i][b].at = "idle"
    BY IdleTyped DEF Quiet, NoErr
  <2>2. Agreeing /\ Noted /\ TypeLogs
    BY <1>1, <2>1 DEF LogInv
  <2>3. ASSUME NEW x \in Applied
        PROVE  x \in Message /\ \E i \in Server : logs[i][x.index] = x.cmd
    <3>1. PICK i \in Server, b \in Boot : \E k \in 1..Len(applied[i][b]) : x = applied[i][b][k]
      BY <2>2, AppliedMessage
    <3>2. PICK k \in 1..Len(applied[i][b]) : x = applied[i][b][k]
      BY <3>1
    <3>3. applied[i][b] \in Seq(Message)
      BY <2>2 DEF TypeLogs
    <3>4. x \in Message
      BY <3>2, <3>3
    <3>5. logs[i][x.index] = x.cmd
      BY <2>1, <2>2, <3>2 DEF Noted, NotedBy
    <3> QED BY <3>4, <3>5
  <2>4. m.index \in Index /\ m.cmd \in Cmd /\ l.cmd \in Cmd
    BY <2>3 DEF Message
  <2> QED BY <2>2, <2>3, <2>4, TesterAssumption DEF Agreeing
<1> QED BY <1>1, LogsAlways, PTL

-----------------------------------------------------------------------------
(* No false alarm.  lastApplied belongs to one incarnation at a time, and as *)
(* long as no other touches it, it is what that incarnation has applied.     *)

\* An incarnation that Make has not returned has applied nothing.
Fresh ==
    \A i \in Server, b \in Boot :
        b \notin Made(i) => Len(applied[i][b]) = 0 /\ hand[i][b].at = "idle"

PacedBy(i) ==
    \/ hand[i][Owner(i)].at = "idle" /\ Len(applied[i][Owner(i)]) = lastApplied[i]
    \/ hand[i][Owner(i)].at # "idle" /\ Len(applied[i][Owner(i)]) = lastApplied[i] + 1

Ordered == \A i \in Server, b \in Boot : InOrder(applied[i][b])

\* With applierSnap and no error, every incarnation has applied in order.
Paced == snapshot /\ ~stray /\ NoErr => Ordered /\ \A i \in Server : PacedBy(i)

\* An error is the fault of the instances or of a stray applier.
Alarm == Sound /\ ~stray => NoErr

OwnerMade == \A i \in Server : Owner(i) \in Boot

AlarmInv == LogInv /\ LinkInv /\ OwnerMade /\ Fresh /\ Paced /\ Alarm

\* In order: the index of a message is its place.
LEMMA OrderFacts ==
    ASSUME TypeLogs, NEW i \in Server, NEW b \in Boot
    PROVE  /\ applied[i][b] \in Seq(Message) /\ Len(applied[i][b]) \in Nat
           /\ InOrder(applied[i][b]) <=>
                 \A k \in 1..Len(applied[i][b]) : applied[i][b][k].index = k
<1>1. applied[i][b] \in Seq(Message)
  BY DEF TypeLogs
<1>2. DOMAIN applied[i][b] = 1..Len(applied[i][b]) /\ Len(applied[i][b]) \in Nat
  BY <1>1
<1> QED BY <1>1, <1>2 DEF InOrder

\* Sound, message by message.
LEMMA SoundFacts ==
    ASSUME TypeLogs, Sound, NEW i \in Server, NEW b \in Boot, NEW k \in 1..Len(applied[i][b]),
           NEW j \in Server, NEW d \in Boot, NEW l \in 1..Len(applied[j][d]),
           applied[i][b][k].index = applied[j][d][l].index
    PROVE  applied[i][b][k].cmd = applied[j][d][l].cmd
<1>1. applied[i][b] \in Seq(Message) /\ applied[j][d] \in Seq(Message)
  BY DEF TypeLogs
<1>2. /\ k \in DOMAIN applied[i][b] /\ l \in DOMAIN applied[j][d]
      /\ applied[i][b][k] \in Message /\ applied[j][d][l] \in Message
  BY <1>1
<1>3. applied[i][b][k] \in Applied /\ applied[j][d][l] \in Applied
  BY <1>2 DEF Applied
<1> QED BY <1>3 DEF Sound

\* What was not sound before a step is not sound after it.
LEMMA SoundBefore ==
    ASSUME TypeLogs, TypeLogs', Grows, Sound'
    PROVE  Sound
<1>1. ASSUME NEW m \in Applied PROVE m \in Applied'
  <2>1. PICK i \in Server, b \in Boot : \E k \in 1..Len(applied[i][b]) : m = applied[i][b][k]
    BY <1>1, AppliedMessage
  <2>2. PICK k \in 1..Len(applied[i][b]) : m = applied[i][b][k]
    BY <2>1
  <2>3. k \in 1..Len(applied'[i][b]) /\ m = applied'[i][b][k]
    BY <2>2 DEF Grows
  <2>4. applied'[i][b] \in Seq(Message)
    BY DEF TypeLogs
  <2>5. k \in DOMAIN applied'[i][b] /\ applied'[i][b][k] \in Message
    BY <2>3, <2>4
  <2> QED BY <2>3, <2>5 DEF Applied
<1>2. ASSUME NEW i \in Server, NEW b \in Boot PROVE InOrder(applied[i][b])
  <2>1. InOrder(applied'[i][b])
    BY DEF Sound
  <2>2. \A k \in 1..Len(applied'[i][b]) : applied'[i][b][k].index = k
    <3>1. applied'[i][b] \in Seq(Message)
      BY DEF TypeLogs
    <3>2. DOMAIN applied'[i][b] = 1..Len(applied'[i][b])
      BY <3>1
    <3> QED BY <2>1, <3>2 DEF InOrder
  <2>3. \A k \in 1..Len(applied[i][b]) : applied[i][b][k].index = k
    BY <2>2 DEF Grows
  <2> QED BY <2>3, OrderFacts
<1> QED BY <1>1, <1>2 DEF Sound

\* The appliers do not move the test.
LEMMA StillMade ==
    ASSUME at' = at, srv' = srv, boot' = boot
    PROVE  \A i \in Server : Made(i)' = Made(i) /\ Owner(i)' = Owner(i)
BY DEF Made, Owner

\* A sound message, not yet recorded, passes checkLogs.
LEMMA SoundPasses ==
    ASSUME TypeLogs, Recorded, Sound, NEW i \in Server, NEW b \in Boot,
           NEW l \in 1..Len(applied[i][b]), NEW n \in Index, NEW c \in Cmd,
           applied[i][b][l].index = n, applied[i][b][l].cmd = c
    PROVE  ~Mismatch(i, n, c)
<1> SUFFICES ASSUME NEW j \in Server, logs[j][n] # None
             PROVE  logs[j][n] = c
  BY DEF Mismatch
<1>1. PICK d \in Boot : \E k \in 1..Len(applied[j][d]) :
          applied[j][d][k].index = n /\ applied[j][d][k].cmd = logs[j][n]
  BY DEF Recorded
<1>2. PICK k \in 1..Len(applied[j][d]) :
          applied[j][d][k].index = n /\ applied[j][d][k].cmd = logs[j][n]
  BY <1>1
<1>3. applied[j][d][k].index = applied[i][b][l].index
  BY <1>2
<1>4. applied[j][d][k].cmd = applied[i][b][l].cmd
  BY <1>3, SoundFacts
<1> QED BY <1>2, <1>4

LEMMA AlarmApply ==
    ASSUME AlarmInv, LogInv', NEW i \in Server, NEW b \in Boot, NEW n \in Index, NEW c \in Cmd,
           Apply(i, b, n, c)
    PROVE  OwnerMade' /\ Fresh' /\ Paced' /\ Alarm'
<1>0. TypeLogs /\ Held /\ Recorded /\ TypeLogs' /\ Recorded'
  BY DEF AlarmInv, LogInv
<1>t. TypeLogs
  BY DEF AlarmInv, LogInv
<1>a. Deliver(i, b, n, c)
  BY DEF Apply
<1>1. /\ at' = at /\ srv' = srv /\ boot' = boot /\ snapshot' = snapshot /\ ~snapshot
      /\ stray' = stray /\ hand[i][b] = Idle /\ b \in Made(i)
  BY DEF Apply, Deliver
<1>2. \A j \in Server : Made(j)' = Made(j) /\ Owner(j)' = Owner(j)
  BY <1>1, StillMade
<1>3. /\ Len(applied[i][b]) \in Nat /\ Len(applied'[i][b]) = Len(applied[i][b]) + 1
      /\ applied'[i][b][Len(applied[i][b]) + 1].index = n
      /\ applied'[i][b][Len(applied[i][b]) + 1].cmd = c
      /\ \A k \in 1..Len(applied[i][b]) : applied'[i][b][k] = applied[i][b][k]
      /\ \A j \in Server, d \in Boot : j # i \/ d # b => applied'[j][d] = applied[j][d]
  BY <1>t, <1>a, Delivered
<1>4. \A j \in Server, d \in Boot : j # i \/ d # b => hand'[j][d] = hand[j][d]
  BY <1>0 DEF Apply, TypeLogs
<1>5. OwnerMade' /\ Paced'
  BY <1>1, <1>2 DEF AlarmInv, OwnerMade, Paced
<1>6. Fresh'
  <2> SUFFICES ASSUME NEW j \in Server, NEW d \in Boot, d \notin Made(j)
               PROVE  Len(applied'[j][d]) = 0 /\ hand'[j][d].at = "idle"
    BY <1>2 DEF Fresh
  <2>1. j # i \/ d # b
    BY <1>1
  <2> QED BY <1>3, <1>4, <2>1 DEF AlarmInv, Fresh
<1>7. ASSUME Sound', ~stray'
      PROVE  NoErr'
  <2>1. Sound /\ NoErr
    BY <1>0, <1>1, <1>7, <1>a, DeliverGrows, SoundBefore DEF AlarmInv, Alarm
  <2>2. Noted
    BY <2>1 DEF AlarmInv, LogInv
  <2>3. ~Mismatch(i, n, c)
    <3> SUFFICES ASSUME NEW j \in Server, logs[j][n] # None
                 PROVE  logs[j][n] = c
      BY DEF Mismatch
    <3>1. PICK d \in Boot : \E k \in 1..Len(applied[j][d]) :
              applied[j][d][k].index = n /\ applied[j][d][k].cmd = logs[j][n]
      BY <1>0 DEF Recorded
    <3>2. PICK k \in 1..Len(applied[j][d]) :
              applied[j][d][k].index = n /\ applied[j][d][k].cmd = logs[j][n]
      BY <3>1
    <3>3. k \in 1..Len(applied'[j][d]) /\ applied'[j][d][k] = applied[j][d][k]
      BY <1>0, <1>a, <3>2, DeliverGrows DEF Grows
    <3>4. Len(applied[i][b]) + 1 \in 1..Len(applied'[i][b])
      BY <1>3
    <3>5. applied'[j][d][k].cmd = applied'[i][b][Len(applied[i][b]) + 1].cmd
      <4>1. TypeLogs' /\ Sound'
        BY <1>0, <1>7
      <4>2. applied'[j][d] \in Seq(Message) /\ applied'[i][b] \in Seq(Message)
        BY <1>0 DEF TypeLogs
      <4>3. /\ k \in DOMAIN applied'[j][d] /\ Len(applied[i][b]) + 1 \in DOMAIN applied'[i][b]
            /\ applied'[j][d][k] \in Message
            /\ applied'[i][b][Len(applied[i][b]) + 1] \in Message
        BY <3>3, <3>4, <4>2
      <4>4. applied'[j][d][k] \in Applied' /\ applied'[i][b][Len(applied[i][b]) + 1] \in Applied'
        BY <4>3 DEF Applied
      <4>5. applied'[j][d][k].index = applied'[i][b][Len(applied[i][b]) + 1].index
        BY <1>3, <3>2, <3>3
      <4> QED BY <4>1, <4>4, <4>5 DEF Sound
    <3> QED BY <1>3, <3>2, <3>3, <3>5
  <2>4. ~Gap(i, n)
    <3> SUFFICES ASSUME n > 1 PROVE logs[i][n - 1] # None
      BY DEF Gap
    <3>1. n = Len(applied[i][b]) + 1
      <4>1. InOrder(applied'[i][b])
        BY <1>7 DEF Sound
      <4>2. applied'[i][b] \in Seq(Message)
        BY <1>0 DEF TypeLogs
      <4>3. Len(applied[i][b]) + 1 \in DOMAIN applied'[i][b]
        BY <1>3, <4>2
      <4> QED BY <1>3, <4>1, <4>3 DEF InOrder
    <3>2. n - 1 \in 1..Len(applied[i][b])
      BY <1>3, <3>1
    <3>3. applied[i][b][n - 1].index = n - 1
      BY <1>0, <2>1, <3>2, OrderFacts DEF Sound
    <3>4. applied[i][b][n - 1].cmd \in Cmd
      <4>1. applied[i][b][n - 1] \in Message
        BY <1>0, <3>2 DEF TypeLogs
      <4> QED BY <4>1 DEF Message
    <3>5. logs[i][n - 1] = applied[i][b][n - 1].cmd
      BY <1>1, <2>2, <3>2, <3>3, IdleTyped DEF Noted, NotedBy
    <3> QED BY <3>4, <3>5, TesterAssumption
  <2>5. hand' = hand
    BY <2>3, <2>4 DEF Apply
  <2> QED BY <2>1, <2>5 DEF NoErr
<1> QED BY <1>5, <1>6, <1>7 DEF Alarm

LEMMA AlarmTake ==
    ASSUME AlarmInv, LogInv', NEW i \in Server, NEW b \in Boot, NEW n \in Index, NEW c \in Cmd,
           TakeMsg(i, b, n, c)
    PROVE  OwnerMade' /\ Fresh' /\ Paced' /\ Alarm'
<1>t. TypeLogs
  BY DEF AlarmInv, LogInv
<1>0. TypeLogs'
  BY DEF LogInv
<1>a. Deliver(i, b, n, c)
  BY DEF TakeMsg
<1>1. /\ at' = at /\ srv' = srv /\ boot' = boot /\ snapshot' = snapshot /\ snapshot
      /\ lastApplied' = lastApplied
      /\ hand[i][b] = Idle /\ b \in Made(i)
  BY DEF TakeMsg, Deliver
<1>s. ~stray' => ~stray /\ b = Owner(i)
  BY DEF TakeMsg
<1>2. \A j \in Server : Made(j)' = Made(j) /\ Owner(j)' = Owner(j)
  BY <1>1, StillMade
<1>3. /\ Len(applied[i][b]) \in Nat /\ Len(applied'[i][b]) = Len(applied[i][b]) + 1
      /\ applied'[i][b][Len(applied[i][b]) + 1].index = n
      /\ \A k \in 1..Len(applied[i][b]) : applied'[i][b][k] = applied[i][b][k]
      /\ \A j \in Server, d \in Boot : j # i \/ d # b => applied'[j][d] = applied[j][d]
  BY <1>t, <1>a, Delivered
<1>4. /\ hand'[i][b] = Hand("taken", n, c, n # lastApplied[i] + 1)
      /\ \A j \in Server, d \in Boot : j # i \/ d # b => hand'[j][d] = hand[j][d]
  BY <1>t DEF TakeMsg, TypeLogs
<1>5. hand'[i][b].at = "taken" /\ hand'[i][b].err = (n # lastApplied[i] + 1)
  BY <1>4 DEF Hand
<1>6. OwnerMade'
  BY <1>2 DEF AlarmInv, OwnerMade
<1>7. Fresh'
  <2> SUFFICES ASSUME NEW j \in Server, NEW d \in Boot, d \notin Made(j)
               PROVE  Len(applied'[j][d]) = 0 /\ hand'[j][d].at = "idle"
    BY <1>2 DEF Fresh
  <2>1. j # i \/ d # b
    BY <1>1
  <2> QED BY <1>3, <1>4, <2>1 DEF AlarmInv, Fresh
<1>8. ASSUME ~stray', NoErr
      PROVE  Ordered /\ \A j \in Server : PacedBy(j)
  BY <1>1, <1>s, <1>8 DEF AlarmInv, Paced
<1>9. ASSUME ~stray', NoErr
      PROVE  Len(applied[i][b]) = lastApplied[i]
  BY <1>1, <1>s, <1>8, <1>9, IdleTyped DEF PacedBy
<1>10. Paced'
  <2> SUFFICES ASSUME ~stray', NoErr'
               PROVE  Ordered' /\ \A j \in Server : PacedBy(j)'
    BY DEF Paced
  <2>1. NoErr
    BY <1>1, <1>4, IdleTyped DEF NoErr
  <2>2. n = Len(applied[i][b]) + 1
    <3>1. hand'[i][b].err = FALSE
      BY DEF NoErr
    <3>2. n = lastApplied[i] + 1
      BY <1>5, <3>1
    <3> QED BY <1>9, <2>1, <3>2
  <2>3. Ordered'
    <3> SUFFICES ASSUME NEW j \in Server, NEW d \in Boot
                 PROVE  InOrder(applied'[j][d])
      BY DEF Ordered
    <3>1. InOrder(applied[j][d])
      BY <1>8, <2>1 DEF Ordered
    <3>2. CASE j # i \/ d # b
      BY <1>3, <3>1, <3>2
    <3>3. CASE j = i /\ d = b
      <4>1. \A k \in 1..Len(applied[i][b]) : applied[i][b][k].index = k
        BY <1>t, <3>1, <3>3, OrderFacts
      <4>2. \A k \in 1..Len(applied'[i][b]) : applied'[i][b][k].index = k
        <5> TAKE k \in 1..Len(applied'[i][b])
        <5>1. k \in 1..Len(applied[i][b]) \/ k = Len(applied[i][b]) + 1
          BY <1>3
        <5>2. CASE k \in 1..Len(applied[i][b])
          <6>1. applied'[i][b][k] = applied[i][b][k]
            BY <1>3, <5>2
          <6> QED BY <4>1, <5>2, <6>1
        <5>3. CASE k = Len(applied[i][b]) + 1
          BY <1>3, <2>2, <5>3
        <5> QED BY <5>1, <5>2, <5>3
      <4>3. applied'[i][b] \in Seq(Message)
        BY <1>0 DEF TypeLogs
      <4>4. DOMAIN applied'[i][b] = 1..Len(applied'[i][b])
        BY <4>3
      <4> QED BY <3>3, <4>2, <4>4 DEF InOrder
    <3> QED BY <3>2, <3>3
  <2>4. ASSUME NEW j \in Server PROVE PacedBy(j)'
    <3>1. CASE j = i
      <4>1. Owner(i)' = b
        BY <1>2, <1>s
      <4>2. hand'[i][b].at # "idle" /\ Len(applied'[i][b]) = lastApplied'[i] + 1
        BY <1>1, <1>3, <1>5, <1>9, <2>1
      <4> QED BY <3>1, <4>1, <4>2 DEF PacedBy
    <3>2. CASE j # i
      <4>1. Owner(j)' = Owner(j) /\ Owner(j) \in Boot
        BY <1>2 DEF AlarmInv, OwnerMade
      <4>2. /\ applied'[j][Owner(j)] = applied[j][Owner(j)]
            /\ hand'[j][Owner(j)] = hand[j][Owner(j)]
        BY <1>3, <1>4, <3>2, <4>1
      <4>3. PacedBy(j)
        BY <1>8, <2>1
      <4> QED BY <1>1, <4>1, <4>2, <4>3 DEF PacedBy
    <3> QED BY <3>1, <3>2
  <2> QED BY <2>3, <2>4
<1>11. ASSUME Sound', ~stray'
       PROVE  NoErr'
  <2>1. Sound /\ NoErr
    BY <1>0, <1>s, <1>t, <1>a, <1>11, DeliverGrows, SoundBefore DEF AlarmInv, Alarm
  <2>2. n = Len(applied[i][b]) + 1
    <3>1. InOrder(applied'[i][b])
      BY <1>11 DEF Sound
    <3>2. applied'[i][b] \in Seq(Message)
      BY <1>0 DEF TypeLogs
    <3>3. Len(applied[i][b]) + 1 \in DOMAIN applied'[i][b]
      BY <1>3, <3>2
    <3> QED BY <1>3, <3>1, <3>3 DEF InOrder
  <2>3. n = lastApplied[i] + 1
    BY <1>9, <1>11, <2>1, <2>2
  <2>4. hand'[i][b].err = FALSE
    BY <1>5, <2>3
  <2> QED BY <1>4, <2>1, <2>4 DEF NoErr
<1> QED BY <1>6, <1>7, <1>10, <1>11 DEF Alarm

LEMMA AlarmCheck ==
    ASSUME AlarmInv, LogInv', NEW i \in Server, NEW b \in Boot, CheckMsg(i, b)
    PROVE  OwnerMade' /\ Fresh' /\ Paced' /\ Alarm'
<1> DEFINE m == hand[i][b]
           l == Len(applied[i][b])
<1>0. TypeLogs /\ Held /\ Recorded
  BY DEF AlarmInv, LogInv
<1>1. /\ at' = at /\ srv' = srv /\ boot' = boot /\ snapshot' = snapshot
      /\ lastApplied' = lastApplied /\ stray' = stray /\ applied' = applied /\ m.at = "taken"
  BY DEF CheckMsg
<1>2. \A j \in Server : Made(j)' = Made(j) /\ Owner(j)' = Owner(j)
  BY <1>1, StillMade
<1>3. /\ hand'[i][b] = Hand("checked", m.index, m.cmd,
                            m.err \/ Mismatch(i, m.index, m.cmd) \/ Gap(i, m.index))
      /\ \A j \in Server, d \in Boot : j # i \/ d # b => hand'[j][d] = hand[j][d]
  BY <1>0 DEF CheckMsg, TypeLogs
<1>4. /\ hand'[i][b].at = "checked"
      /\ hand'[i][b].err = (m.err \/ Mismatch(i, m.index, m.cmd) \/ Gap(i, m.index))
  BY <1>3 DEF Hand
<1>5. \A j \in Server, d \in Boot : hand'[j][d].at = "idle" <=> hand[j][d].at = "idle"
  BY <1>1, <1>3, <1>4
<1>6. OwnerMade' /\ Fresh'
  BY <1>1, <1>2, <1>5 DEF AlarmInv, OwnerMade, Fresh
<1>7. Paced'
  <2> SUFFICES ASSUME snapshot, ~stray, NoErr'
               PROVE  Ordered' /\ \A j \in Server : PacedBy(j)'
    BY <1>1 DEF Paced
  <2>1. m.err = FALSE
    <3>1. hand'[i][b].err = FALSE /\ m.err \in BOOLEAN
      BY <1>0 DEF NoErr, TypeLogs, HandSet
    <3> QED BY <1>4, <3>1
  <2>2. NoErr
    BY <1>3, <2>1 DEF NoErr
  <2>3. Ordered /\ \A j \in Server : PacedBy(j)
    BY <2>2 DEF AlarmInv, Paced
  <2>4. Ordered'
    BY <1>1, <2>3 DEF Ordered
  <2>5. ASSUME NEW j \in Server PROVE PacedBy(j)'
    <3>1. Owner(j)' = Owner(j) /\ Owner(j) \in Boot /\ PacedBy(j)
      BY <1>2, <2>3 DEF AlarmInv, OwnerMade
    <3>2. hand'[j][Owner(j)].at = "idle" <=> hand[j][Owner(j)].at = "idle"
      BY <1>5, <3>1
    <3> QED BY <1>1, <3>1, <3>2 DEF PacedBy
  <2> QED BY <2>4, <2>5
<1>8. ASSUME Sound', ~stray'
      PROVE  NoErr'
  <2>1. Sound
    BY <1>1, <1>8 DEF Sound, Applied
  <2>2. NoErr
    BY <1>1, <1>8, <2>1 DEF AlarmInv, Alarm
  <2>3. /\ m.index \in Index /\ m.cmd \in Cmd /\ l > 0
        /\ applied[i][b][l].index = m.index /\ applied[i][b][l].cmd = m.cmd
    BY <1>0, <1>1 DEF Held, HeldBy
  <2>4. l \in Nat /\ l \in 1..Len(applied[i][b])
    BY <1>0, <2>3 DEF TypeLogs
  <2>5. ~Mismatch(i, m.index, m.cmd)
    BY <1>0, <2>1, <2>3, <2>4, SoundPasses
  <2>6. ~Gap(i, m.index)
    <3> SUFFICES ASSUME m.index > 1 PROVE logs[i][m.index - 1] # None
      BY DEF Gap
    <3>1. \A k \in 1..Len(applied[i][b]) : applied[i][b][k].index = k
      BY <1>0, <2>1, OrderFacts DEF Sound
    <3>2. m.index = l
      BY <2>3, <2>4, <3>1
    <3>3. l - 1 \in 1..Len(applied[i][b]) /\ l - 1 # l
      BY <2>4, <3>2
    <3>4. applied[i][b][l - 1] \in Message
      BY <1>0, <3>3 DEF TypeLogs
    <3>5. applied[i][b][l - 1].cmd \in Cmd /\ applied[i][b][l - 1].index = l - 1
      BY <3>1, <3>3, <3>4 DEF Message
    <3>6. Noted
      BY <2>2 DEF AlarmInv, LogInv
    <3>7. logs[i][l - 1] = applied[i][b][l - 1].cmd
      BY <3>3, <3>5, <3>6 DEF Noted, NotedBy
    <3> QED BY <3>2, <3>5, <3>7, TesterAssumption
  <2>7. m.err = FALSE
    BY <2>2 DEF NoErr
  <2>8. hand'[i][b].err = FALSE
    BY <1>4, <2>5, <2>6, <2>7
  <2> QED BY <1>3, <2>2, <2>8 DEF NoErr
<1> QED BY <1>6, <1>7, <1>8 DEF Alarm

LEMMA AlarmNote ==
    ASSUME AlarmInv, LogInv', NEW i \in Server, NEW b \in Boot, NoteMsg(i, b)
    PROVE  OwnerMade' /\ Fresh' /\ Paced' /\ Alarm'
<1> DEFINE m == hand[i][b]
           l == Len(applied[i][b])
<1>0. TypeLogs /\ Held
  BY DEF AlarmInv, LogInv
<1>1. /\ at' = at /\ srv' = srv /\ boot' = boot /\ snapshot' = snapshot
      /\ applied' = applied /\ m.at = "checked"
  BY DEF NoteMsg
<1>s. ~stray' => ~stray /\ b = Owner(i)
  BY DEF NoteMsg
<1>2. \A j \in Server : Made(j)' = Made(j) /\ Owner(j)' = Owner(j)
  BY <1>1, StillMade
<1>3. /\ lastApplied'[i] = m.index
      /\ \A j \in Server : j # i => lastApplied'[j] = lastApplied[j]
      /\ \A j \in Server, d \in Boot : j # i \/ d # b => hand'[j][d] = hand[j][d]
  BY <1>0 DEF NoteMsg, TypeLogs
<1>4. ASSUME m.err = FALSE PROVE hand'[i][b] = Idle
  BY <1>0, <1>4 DEF NoteMsg, TypeLogs
<1>5. ASSUME m.err = TRUE PROVE hand'[i][b].err = TRUE
  <2>1. hand'[i][b] = Hand("error", m.index, m.cmd, TRUE)
    BY <1>0, <1>5 DEF NoteMsg, TypeLogs
  <2> QED BY <2>1 DEF Hand
<1>6. m.err \in BOOLEAN
  BY <1>0 DEF TypeLogs, HandSet
<1>7. OwnerMade'
  BY <1>2 DEF AlarmInv, OwnerMade
<1>8. Fresh'
  <2> SUFFICES ASSUME NEW j \in Server, NEW d \in Boot, d \notin Made(j)
               PROVE  Len(applied'[j][d]) = 0 /\ hand'[j][d].at = "idle"
    BY <1>2 DEF Fresh
  <2>1. Len(applied[j][d]) = 0 /\ hand[j][d].at = "idle"
    BY DEF AlarmInv, Fresh
  <2>2. j # i \/ d # b
    BY <1>1, <2>1
  <2> QED BY <1>1, <1>3, <2>1, <2>2
<1>9. Paced'
  <2> SUFFICES ASSUME snapshot, ~stray', NoErr'
               PROVE  Ordered' /\ \A j \in Server : PacedBy(j)'
    BY <1>1 DEF Paced
  <2>1. m.err = FALSE
    BY <1>5, <1>6 DEF NoErr
  <2>2. NoErr
    BY <1>3, <2>1 DEF NoErr
  <2>3. Ordered /\ \A j \in Server : PacedBy(j)
    BY <1>s, <2>2 DEF AlarmInv, Paced
  <2>4. Ordered'
    BY <1>1, <2>3 DEF Ordered
  <2>5. ASSUME NEW j \in Server PROVE PacedBy(j)'
    <3>1. CASE j = i
      <4>1. Owner(i)' = b /\ hand'[i][b].at = "idle"
        BY <1>2, <1>4, <1>s, <2>1, IdleTyped
      <4>2. l > 0 /\ applied[i][b][l].index = m.index
        BY <1>0, <1>1 DEF Held, HeldBy
      <4>3. l \in 1..Len(applied[i][b])
        BY <1>0, <4>2 DEF TypeLogs
      <4>4. InOrder(applied[i][b])
        BY <2>3 DEF Ordered
      <4>5. m.index = l
        BY <1>0, <4>2, <4>3, <4>4, OrderFacts
      <4>6. Len(applied'[i][b]) = lastApplied'[i]
        BY <1>1, <1>3, <4>5
      <4> QED BY <3>1, <4>1, <4>6 DEF PacedBy
    <3>2. CASE j # i
      <4>1. Owner(j)' = Owner(j) /\ Owner(j) \in Boot /\ PacedBy(j)
        BY <1>2, <2>3 DEF AlarmInv, OwnerMade
      <4>2. hand'[j][Owner(j)] = hand[j][Owner(j)] /\ lastApplied'[j] = lastApplied[j]
        BY <1>3, <3>2, <4>1
      <4> QED BY <1>1, <4>1, <4>2 DEF PacedBy
    <3> QED BY <3>1, <3>2
  <2> QED BY <2>4, <2>5
<1>10. ASSUME Sound', ~stray'
       PROVE  NoErr'
  <2>1. Sound
    BY <1>1, <1>10 DEF Sound, Applied
  <2>2. NoErr
    BY <1>s, <1>10, <2>1 DEF AlarmInv, Alarm
  <2>3. hand'[i][b] = Idle
    BY <1>4, <2>2 DEF NoErr
  <2> QED BY <1>3, <2>2, <2>3, IdleTyped DEF NoErr
<1> QED BY <1>7, <1>8, <1>9, <1>10 DEF Alarm

LEMMA AlarmFatalf ==
    ASSUME AlarmInv, NEW i \in Server, NEW b \in Boot, Fatalf(i, b)
    PROVE  OwnerMade' /\ Fresh' /\ Paced' /\ Alarm'
<1>1. /\ at' = at /\ srv' = srv /\ boot' = boot /\ snapshot' = snapshot /\ hand' = hand
      /\ lastApplied' = lastApplied /\ stray' = stray /\ applied' = applied
  BY DEF Fatalf
<1>2. \A j \in Server : Made(j)' = Made(j) /\ Owner(j)' = Owner(j)
  BY <1>1, StillMade
<1>3. OwnerMade' /\ Fresh'
  BY <1>1, <1>2 DEF AlarmInv, OwnerMade, Fresh
<1>4. Paced' /\ Alarm'
  BY <1>1, <1>2 DEF AlarmInv, Paced, Ordered, PacedBy, Alarm, NoErr, Sound, Applied
<1> QED BY <1>3, <1>4

\* Whose lastApplied is: it changes hands in start1's reset and nowhere else.
Handed ==
    \A i \in Server :
        /\ Made(i) \subseteq Made(i)'
        /\ \/ Owner(i)' = Owner(i) /\ lastApplied'[i] = lastApplied[i]
           \/ Owner(i)' \in Boot \ Made(i) /\ lastApplied'[i] = 0

LEMMA HandedElse ==
    ASSUME boot' = boot, lastApplied' = lastApplied,
           \/ at' = at /\ srv' = srv
           \/ at \notin {"named", "prepared"} /\ at' \notin {"named", "prepared"}
    PROVE  Handed
BY DEF Handed, Made, Owner

LEMMA HandedStart ==
    ASSUME LinkInv, TypeLogs, NewEnds \/ Prepare \/ MakeRaft \/ AddServer
    PROVE  Handed
<1>0. srv \in Server /\ boot[srv] \in Boot /\ boot \in [Server -> Boot]
  BY DEF LinkInv, TypeLinks
<1>n. boot[srv] \in Nat
  BY <1>0 DEF Boot
<1>1. CASE NewEnds
  <2>1. /\ boot' = [boot EXCEPT ![srv] = @ + 1] /\ at = "crashed" /\ at' = "named"
        /\ srv' = srv /\ lastApplied' = lastApplied
    BY <1>1 DEF NewEnds, logVars
  <2> SUFFICES ASSUME NEW i \in Server
               PROVE  Made(i) \subseteq Made(i)' /\ Owner(i)' = Owner(i)
    BY <2>1 DEF Handed
  <2>2. CASE i = srv
    <3>1. boot'[srv] - 1 = boot[srv]
      BY <1>0, <1>n, <2>1
    <3> QED BY <2>1, <2>2, <3>1 DEF Made, Owner
  <2>3. CASE i # srv
    <3>1. boot'[i] = boot[i]
      BY <1>0, <2>1, <2>3
    <3> QED BY <2>1, <2>3, <3>1 DEF Made, Owner
  <2> QED BY <2>2, <2>3
<1>2. CASE Prepare
  <2>1. /\ boot' = boot /\ at = "named" /\ at' = "prepared" /\ srv' = srv
        /\ lastApplied' = [lastApplied EXCEPT ![srv] = 0]
    BY <1>2 DEF Prepare
  <2> SUFFICES ASSUME NEW i \in Server
               PROVE  /\ Made(i) \subseteq Made(i)'
                      /\ \/ Owner(i)' = Owner(i) /\ lastApplied'[i] = lastApplied[i]
                         \/ Owner(i)' \in Boot \ Made(i) /\ lastApplied'[i] = 0
    BY DEF Handed
  <2>2. CASE i = srv
    <3>1. lastApplied'[i] = 0
      BY <2>1, <2>2 DEF TypeLogs
    <3>2. Made(i) = 1..(boot[srv] - 1) /\ Made(i)' = 1..(boot[srv] - 1) /\ Owner(i)' = boot[srv]
      BY <2>1, <2>2 DEF Made, Owner
    <3>3. boot[srv] \notin 1..(boot[srv] - 1)
      BY <1>n
    <3> QED BY <1>0, <3>1, <3>2, <3>3
  <2>3. CASE i # srv
    <3>1. lastApplied'[i] = lastApplied[i]
      BY <2>1, <2>3 DEF TypeLogs
    <3> QED BY <2>1, <2>3, <3>1 DEF Made, Owner
  <2> QED BY <2>2, <2>3
<1>3. CASE MakeRaft
  <2>1. /\ boot' = boot /\ at = "prepared" /\ at' = "made" /\ srv' = srv
        /\ lastApplied' = lastApplied
    BY <1>3 DEF MakeRaft, logVars
  <2>2. 1..(boot[srv] - 1) \subseteq 1..boot[srv]
    BY <1>n
  <2> QED BY <2>1, <2>2 DEF Handed, Made, Owner
<1>4. CASE AddServer
  <2>1. /\ boot' = boot /\ at = "made" /\ at' = "idle" /\ lastApplied' = lastApplied
    BY <1>4 DEF AddServer, logVars
  <2> QED BY <2>1, HandedElse
<1> QED BY <1>1, <1>2, <1>3, <1>4

LEMMA HandedAlways ==
    ASSUME LinkInv, TypeLogs, TestStep \/ RaftStep \/ UNCHANGED vars
    PROVE  Handed
<1> USE DEF logVars
<1>1. CASE UNCHANGED vars
  BY <1>1, HandedElse DEF vars
<1>2. CASE RaftStep
  <2>1. PICK i \in Server, b \in Boot :
            \/ Save(i, b) \/ \E j \in Server : Call(i, b, j) \/ Answer(i, b, j)
            \/ \E t \in 0..MaxTerm, l \in BOOLEAN : Turn(i, t, l)
    BY <1>2 DEF RaftStep
  <2>2. CASE Save(i, b)
    BY <2>2, HandedElse DEF Save
  <2>3. CASE \E j \in Server : Call(i, b, j) \/ Answer(i, b, j)
    <3>1. Heard(i, b)
      BY <2>3 DEF Call, Answer
    <3> QED BY <3>1, HandedElse DEF Heard
  <2>4. CASE \E t \in 0..MaxTerm, l \in BOOLEAN : Turn(i, t, l)
    BY <2>4, HandedElse DEF Turn, lookFrame
  <2> QED BY <2>1, <2>2, <2>3, <2>4
<1>3. CASE TestStep
  <2>1. CASE \E i \in Server : Connect(i) \/ Disconnect(i) \/ \E again \in BOOLEAN : Crash(i, again)
    BY <2>1, HandedElse DEF Connect, Disconnect, Crash
  <2>2. CASE DeleteServer \/ CopySaved \/ Killed
    BY <2>2, HandedElse DEF DeleteServer, CopySaved, Killed
  <2>3. CASE NewEnds \/ Prepare \/ MakeRaft \/ AddServer
    BY <2>3, HandedStart
  <2>4. CASE \E n \in 1..Cardinality(Server), x \in Index :
               Wait(n, x) \/ \E i \in Server, c \in Cmd : One(i, c, n, x)
    BY <2>4, HandedElse DEF Wait, One, askFrame
  <2>5. CASE \E j \in Server : Count(j)
    BY <2>5, HandedElse DEF Count, askFrame
  <2>6. CASE \E j \in Server : GetState(j)
    BY <2>6, HandedElse DEF GetState, lookFrame
  <2>7. CASE Agreed \/ LookAgain \/ TimeUp \/ NoLeader
    BY <2>7, HandedElse DEF Agreed, LookAgain, TimeUp, NoLeader, askFrame
  <2>8. CASE \E kind \in {"one leader", "terms", "no leader"} : Look(kind)
    BY <2>8, HandedElse DEF Look, lookFrame
  <2>9. CASE CheckOneLeader \/ CheckTerms \/ CheckNoLeader
    BY <2>9, HandedElse DEF CheckOneLeader, CheckTerms, CheckNoLeader, Found, lookFrame
  <2> QED BY <1>3, <2>1, <2>2, <2>3, <2>4, <2>5, <2>6, <2>7, <2>8, <2>9 DEF TestStep
<1> QED BY <1>1, <1>2, <1>3

LEMMA AlarmRest ==
    ASSUME AlarmInv, TestStep \/ RaftStep \/ UNCHANGED vars
    PROVE  OwnerMade' /\ Fresh' /\ Paced' /\ Alarm'
<1>1. /\ snapshot' = snapshot /\ applied' = applied /\ hand' = hand /\ stray' = stray
  BY Bystander
<1>2. Handed
  BY HandedAlways DEF AlarmInv, LogInv
<1>3. OwnerMade'
  BY <1>2 DEF Handed, AlarmInv, OwnerMade
<1>4. Fresh'
  BY <1>1, <1>2 DEF Handed, AlarmInv, Fresh
<1>5. Alarm'
  BY <1>1 DEF AlarmInv, Alarm, NoErr, Sound, Applied
<1>6. Paced'
  <2> SUFFICES ASSUME snapshot, ~stray, NoErr
               PROVE  Ordered' /\ \A j \in Server : PacedBy(j)'
    BY <1>1 DEF Paced, NoErr
  <2>1. Ordered /\ \A j \in Server : PacedBy(j)
    BY DEF AlarmInv, Paced
  <2>2. Ordered'
    BY <1>1, <2>1 DEF Ordered
  <2>3. ASSUME NEW j \in Server PROVE PacedBy(j)'
    <3>1. CASE Owner(j)' = Owner(j) /\ lastApplied'[j] = lastApplied[j]
      BY <1>1, <2>1, <3>1 DEF PacedBy
    <3>2. CASE Owner(j)' \in Boot \ Made(j) /\ lastApplied'[j] = 0
      <4>1. Len(applied[j][Owner(j)']) = 0 /\ hand[j][Owner(j)'].at = "idle"
        BY <3>2 DEF AlarmInv, Fresh
      <4> QED BY <1>1, <3>2, <4>1 DEF PacedBy
    <3> QED BY <1>2, <3>1, <3>2 DEF Handed
  <2> QED BY <2>2, <2>3
<1> QED BY <1>3, <1>4, <1>5, <1>6

LEMMA AlarmNext == AlarmInv /\ [Next]_vars => AlarmInv'
<1> SUFFICES ASSUME AlarmInv, [Next]_vars PROVE AlarmInv'
  OBVIOUS
<1>1. LogInv' /\ LinkInv'
  BY LogsNext, LinksNext DEF AlarmInv
<1>2. CASE ApplierStep
  BY <1>1, <1>2, AlarmApply, AlarmTake, AlarmCheck, AlarmNote, AlarmFatalf
     DEF ApplierStep, AlarmInv
<1>3. CASE TestStep \/ RaftStep \/ UNCHANGED vars
  BY <1>1, <1>3, AlarmRest DEF AlarmInv
<1> QED BY <1>2, <1>3 DEF Next

LEMMA AlarmInit == Init => AlarmInv
<1> SUFFICES ASSUME Init PROVE AlarmInv
  OBVIOUS
<1>1. LogInv /\ LinkInv
  BY LogsInit, LinksInit
<1>2. \A i \in Server, b \in Boot : hand[i][b] = Idle /\ applied[i][b] = <<>>
  BY DEF Init
<1>3. \A i \in Server : Owner(i) = 1 /\ lastApplied[i] = 0
  BY DEF Init, Owner
<1>4. OwnerMade /\ Fresh /\ NoErr
  BY <1>2, <1>3, BootFacts, IdleTyped DEF OwnerMade, Fresh, NoErr
<1>5. Paced
  BY <1>2, <1>3, BootFacts, IdleTyped DEF Paced, Ordered, PacedBy, InOrder
<1> QED BY <1>1, <1>4, <1>5 DEF AlarmInv, Alarm

\* The invariant of the alarms holds in every reachable state.
LEMMA AlarmAlways == Spec => []AlarmInv
BY AlarmInit, AlarmNext, PTL DEF Spec

\* The appliers end the test only if the instances are at fault or an applier
\* of a killed instance touched the lastApplied of the next one (applierSnap).
THEOREM TesterNoFalseAlarm == Spec => []NoFalseAlarm
<1>1. ASSUME AlarmInv
      PROVE  NoFalseAlarm
  <2> SUFFICES ASSUME fatal, ~stray, Sound PROVE FALSE
    BY DEF NoFalseAlarm
  <2>1. NoErr /\ ~NoErr
    BY <1>1 DEF AlarmInv, Alarm, LogInv
  <2> QED BY <2>1
<1> QED BY <1>1, AlarmAlways, PTL

\* No gap in what a server applied stays unnoticed, and with applierSnap no
\* message out of order.
THEOREM TesterOrderCaught == Spec => []OrderCaught
<1>1. ASSUME AlarmInv
      PROVE  OrderCaught
  <2> SUFFICES ASSUME Quiet, NEW i \in Server
               PROVE  /\ \A n \in Index : logs[i][n] # None /\ n > 1 => logs[i][n - 1] # None
                      /\ snapshot /\ ~stray => \A b \in Boot : InOrder(applied[i][b])
    BY DEF OrderCaught
  <2>1. NoErr
    BY IdleTyped DEF Quiet, NoErr
  <2> QED BY <1>1, <2>1 DEF AlarmInv, LogInv, NoGap, Paced, Ordered
<1> QED BY <1>1, AlarmAlways, PTL

-----------------------------------------------------------------------------
(* What the tester's questions are worth: one and wait, although nCommitted  *)
(* lets go of the lock between two servers, and the checks of leaders and    *)
(* terms, although the servers are asked one after the other.                *)

\* The servers that nCommitted has counted and that still have the command.
Witnesses == {j \in Server \ scan.left : logs[j][asked.index] = scan.cmd}

Scanning ==
    at = "asking" =>
        /\ asked.index \in Index /\ asked.n \in Nat
        /\ scan.count \in Nat
        /\ scan.count > 0 => scan.cmd \in Cmd
        /\ NoErr => scan.count <= Cardinality(Witnesses)

Returned ==
    returned # None =>
        /\ returned.index \in Index /\ returned.n \in Nat /\ returned.cmd \in Cmd
        /\ NoErr => Cardinality({j \in Server : logs[j][returned.index] = returned.cmd}) >= returned.n

AskInv == LogInv /\ Scanning /\ Returned

-----------------------------------------------------------------------------
\* An error is not forgotten, and without one a record is not overwritten.
Lasting ==
    NoErr' =>
        /\ NoErr
        /\ \A j \in Server, n \in Index : logs[j][n] # None => logs'[j][n] = logs[j][n]

LEMMA LastingApply ==
    ASSUME LogInv, NEW i \in Server, NEW b \in Boot, NEW n \in Index, NEW c \in Cmd,
           Apply(i, b, n, c)
    PROVE  Lasting
<1> SUFFICES ASSUME NoErr'
             PROVE  /\ NoErr
                    /\ \A j \in Server, x \in Index : logs[j][x] # None => logs'[j][x] = logs[j][x]
  BY DEF Lasting
<1>1. TypeLogs
  BY DEF LogInv
<1>2. ~Mismatch(i, n, c)
  <2> SUFFICES ASSUME Mismatch(i, n, c) PROVE FALSE
    OBVIOUS
  <2>1. hand' = [hand EXCEPT ![i][b] = Hand("error", n, c, TRUE)]
    BY DEF Apply
  <2>2. hand'[i][b] = Hand("error", n, c, TRUE)
    BY <1>1, <2>1 DEF TypeLogs
  <2>3. hand'[i][b].err = TRUE
    BY <2>2 DEF Hand
  <2> QED BY <2>3 DEF NoErr
<1>3. hand' = hand
  <2> SUFFICES ASSUME Gap(i, n) PROVE FALSE
    BY <1>2 DEF Apply
  <2>1. hand' = [hand EXCEPT ![i][b] = Hand("error", n, c, TRUE)]
    BY DEF Apply
  <2>2. hand'[i][b] = Hand("error", n, c, TRUE)
    BY <1>1, <2>1 DEF TypeLogs
  <2>3. hand'[i][b].err = TRUE
    BY <2>2 DEF Hand
  <2> QED BY <2>3 DEF NoErr
<1>4. NoErr
  BY <1>3 DEF NoErr
<1>5. Note(i, n, c)
  BY DEF Apply
<1> QED BY <1>1, <1>2, <1>4, <1>5, LogsUpdate DEF Mismatch

LEMMA LastingCheck ==
    ASSUME LogInv, NEW i \in Server, NEW b \in Boot, CheckMsg(i, b)
    PROVE  Lasting
<1> SUFFICES ASSUME NoErr'
             PROVE  /\ NoErr
                    /\ \A j \in Server, x \in Index : logs[j][x] # None => logs'[j][x] = logs[j][x]
  BY DEF Lasting
<1> DEFINE m == hand[i][b]
           e == m.err \/ Mismatch(i, m.index, m.cmd) \/ Gap(i, m.index)
<1>1. TypeLogs /\ Held
  BY DEF LogInv
<1>2. hand' = [hand EXCEPT ![i][b] = Hand("checked", m.index, m.cmd, e)]
  BY DEF CheckMsg
<1>3. /\ hand'[i][b] = Hand("checked", m.index, m.cmd, e)
      /\ \A j \in Server, d \in Boot : j # i \/ d # b => hand'[j][d] = hand[j][d]
  <2> HIDE DEF e, m
  <2> QED BY <1>1, <1>2 DEF TypeLogs
<1>4. hand'[i][b].err = e
  <2> HIDE DEF e, m
  <2> QED BY <1>3 DEF Hand
<1>5. ~e
  <2> HIDE DEF e
  <2> QED BY <1>4 DEF NoErr
<1>6. m.err = FALSE /\ ~Mismatch(i, m.index, m.cmd)
  <2>1. m \in HandSet
    BY <1>1 DEF TypeLogs
  <2> QED BY <1>5, <2>1 DEF HandSet
<1>7. NoErr
  BY <1>3, <1>6 DEF NoErr
<1>8. m.index \in Index /\ m.cmd \in Cmd
  BY <1>1 DEF CheckMsg, Held, HeldBy
<1>9. Note(i, m.index, m.cmd)
  BY <1>6 DEF CheckMsg
<1> HIDE DEF m
<1> QED BY <1>1, <1>6, <1>7, <1>8, <1>9, LogsUpdate DEF Mismatch

LEMMA LastingRest ==
    ASSUME LogInv, NEW i \in Server, NEW b \in Boot,
           \/ NoteMsg(i, b) \/ Fatalf(i, b)
           \/ \E n \in Index, c \in Cmd : TakeMsg(i, b, n, c)
    PROVE  Lasting
<1> SUFFICES ASSUME NoErr' PROVE NoErr /\ logs' = logs
  BY DEF Lasting
<1>1. TypeLogs
  BY DEF LogInv
<1>2. logs' = logs
  BY DEF NoteMsg, Fatalf, TakeMsg
<1>3. CASE Fatalf(i, b)
  BY <1>2, <1>3 DEF Fatalf, NoErr
<1>4. CASE NoteMsg(i, b)
  <2> DEFINE m == hand[i][b]
  <2>1. hand' = [hand EXCEPT ![i][b] = IF m.err THEN Hand("error", m.index, m.cmd, TRUE) ELSE Idle]
    BY <1>4 DEF NoteMsg
  <2>2. m \in HandSet
    BY <1>1 DEF TypeLogs
  <2>3. m.err \in BOOLEAN
    BY <2>2 DEF HandSet
  <2>4. ASSUME m.err = TRUE PROVE FALSE
    <3>1. hand'[i][b] = Hand("error", m.index, m.cmd, TRUE)
      <4> HIDE DEF m
      <4> QED BY <1>1, <2>1, <2>4 DEF TypeLogs
    <3>2. hand'[i][b].err = TRUE
      BY <3>1 DEF Hand
    <3> QED BY <3>2 DEF NoErr
  <2>5. \A j \in Server, d \in Boot : j # i \/ d # b => hand'[j][d] = hand[j][d]
    <3> HIDE DEF m
    <3> QED BY <1>1, <2>1 DEF TypeLogs
  <2> QED BY <1>2, <2>3, <2>4, <2>5 DEF NoErr
<1>5. CASE \E n \in Index, c \in Cmd : TakeMsg(i, b, n, c)
  <2>1. PICK n \in Index, c \in Cmd : TakeMsg(i, b, n, c)
    BY <1>5
  <2>2. hand[i][b] = Idle
    BY <2>1 DEF TakeMsg, Deliver
  <2>3. \A j \in Server, d \in Boot : j # i \/ d # b => hand'[j][d] = hand[j][d]
    <3>1. PICK h : hand' = [hand EXCEPT ![i][b] = h]
      BY <2>1 DEF TakeMsg
    <3> QED BY <1>1, <3>1 DEF TypeLogs
  <2> QED BY <1>2, <2>2, <2>3, IdleTyped DEF NoErr
<1> QED BY <1>3, <1>4, <1>5

LEMMA LastingNext == ASSUME LogInv, [Next]_vars PROVE Lasting
<1>1. CASE ApplierStep
  BY <1>1, LastingApply, LastingCheck, LastingRest DEF ApplierStep
<1>2. CASE TestStep \/ RaftStep \/ UNCHANGED vars
  BY <1>2, Bystander DEF Lasting, NoErr
<1> QED BY <1>1, <1>2 DEF Next

-----------------------------------------------------------------------------
(* one, wait and nCommitted *)

AskStep ==
    \/ \E n \in 1..Cardinality(Server), x \in Index :
          Wait(n, x) \/ \E i \in Server, c \in Cmd : One(i, c, n, x)
    \/ \E j \in Server : Count(j)
    \/ Agreed \/ LookAgain

LEMMA NotAsking ==
    ASSUME [Next]_vars, ~AskStep
    PROVE  /\ asked' = asked /\ scan' = scan /\ returned' = returned
           /\ at' = "asking" => at = "asking"
<1> USE DEF askVars
<1>1. CASE UNCHANGED vars
  BY <1>1 DEF vars
<1>2. CASE RaftStep
  <2>1. PICK i \in Server, b \in Boot :
            \/ Save(i, b) \/ \E j \in Server : Call(i, b, j) \/ Answer(i, b, j)
            \/ \E t \in 0..MaxTerm, l \in BOOLEAN : Turn(i, t, l)
    BY <1>2 DEF RaftStep
  <2>2. CASE Save(i, b)
    BY <2>2 DEF Save
  <2>3. CASE \E j \in Server : Call(i, b, j) \/ Answer(i, b, j)
    <3>1. Heard(i, b)
      BY <2>3 DEF Call, Answer
    <3> QED BY <3>1 DEF Heard
  <2>4. CASE \E t \in 0..MaxTerm, l \in BOOLEAN : Turn(i, t, l)
    BY <2>4 DEF Turn, lookFrame
  <2> QED BY <2>1, <2>2, <2>3, <2>4
<1>3. CASE TestStep
  <2>1. CASE \E i \in Server : Connect(i) \/ Disconnect(i) \/ \E again \in BOOLEAN : Crash(i, again)
    BY <2>1 DEF Connect, Disconnect, Crash
  <2>2. CASE DeleteServer \/ CopySaved \/ Killed
    BY <2>2 DEF DeleteServer, CopySaved, Killed
  <2>3. CASE NewEnds \/ Prepare \/ MakeRaft \/ AddServer
    BY <2>3 DEF NewEnds, Prepare, MakeRaft, AddServer
  <2>4. CASE \E j \in Server : GetState(j)
    BY <2>4 DEF GetState, lookFrame
  <2>5. CASE TimeUp \/ NoLeader
    BY <2>5 DEF TimeUp, NoLeader, askFrame
  <2>6. CASE \E kind \in {"one leader", "terms", "no leader"} : Look(kind)
    BY <2>6 DEF Look, lookFrame
  <2>7. CASE CheckOneLeader \/ CheckTerms \/ CheckNoLeader
    BY <2>7 DEF CheckOneLeader, CheckTerms, CheckNoLeader, Found, lookFrame
  <2> QED BY <1>3, <2>1, <2>2, <2>3, <2>4, <2>5, <2>6, <2>7 DEF TestStep, AskStep
<1>4. CASE ApplierStep
  <2>1. PICK i \in Server, b \in Boot :
            \/ \E n \in Index, c \in Cmd : Apply(i, b, n, c) \/ TakeMsg(i, b, n, c)
            \/ CheckMsg(i, b) \/ NoteMsg(i, b) \/ Fatalf(i, b)
    BY <1>4 DEF ApplierStep
  <2> QED BY <2>1 DEF Apply, TakeMsg, CheckMsg, NoteMsg, Fatalf
<1> QED BY <1>1, <1>2, <1>3, <1>4 DEF Next

\* Of servers, more are counted as more are recorded.
LEMMA MoreServers ==
    ASSUME NEW S \in SUBSET Server, NEW T \in SUBSET Server, S \subseteq T
    PROVE  /\ Cardinality(S) \in Nat /\ Cardinality(T) \in Nat
           /\ Cardinality(S) <= Cardinality(T)
           /\ \A j \in T \ S : Cardinality(S) + 1 <= Cardinality(T)
<1>1. IsFiniteSet(S) /\ IsFiniteSet(T)
  BY TesterAssumption, FS_Subset
<1>2. /\ Cardinality(S) \in Nat /\ Cardinality(T) \in Nat
      /\ Cardinality(S) <= Cardinality(T)
  BY <1>1, FS_CardinalityType, FS_Subset
<1>3. ASSUME NEW j \in T \ S PROVE Cardinality(S) + 1 <= Cardinality(T)
  <2>1. S # T
    OBVIOUS
  <2>2. Cardinality(S) # Cardinality(T)
    BY <1>1, <2>1, FS_Subset
  <2> QED BY <1>2, <2>2
<1> QED BY <1>2, <1>3

LEMMA AskRest ==
    ASSUME AskInv, [Next]_vars, ~AskStep
    PROVE  Scanning' /\ Returned'
<1>1. /\ asked' = asked /\ scan' = scan /\ returned' = returned
      /\ at' = "asking" => at = "asking"
  BY NotAsking
<1>2. Lasting /\ TypeLogs
  BY LastingNext DEF AskInv, LogInv
<1>3. Scanning'
  <2> SUFFICES ASSUME at = "asking"
               PROVE  /\ asked.index \in Index /\ asked.n \in Nat
                      /\ scan.count \in Nat
                      /\ scan.count > 0 => scan.cmd \in Cmd
                      /\ NoErr' => scan.count <= Cardinality(Witnesses')
    BY <1>1 DEF Scanning
  <2>1. /\ asked.index \in Index /\ asked.n \in Nat /\ scan.count \in Nat
        /\ scan.count > 0 => scan.cmd \in Cmd
        /\ NoErr => scan.count <= Cardinality(Witnesses)
    BY DEF AskInv, Scanning
  <2>2. Witnesses \in SUBSET Server /\ Witnesses' \in SUBSET Server
    BY DEF Witnesses
  <2>3. ASSUME NoErr' PROVE scan.count <= Cardinality(Witnesses')
    <3>1. CASE scan.count = 0
      BY <2>2, <3>1, MoreServers
    <3>2. CASE scan.count > 0
      <4>1. scan.cmd # None
        BY <2>1, <3>2, TesterAssumption
      <4>2. Witnesses \subseteq Witnesses'
        BY <1>1, <1>2, <2>1, <2>3, <4>1 DEF Witnesses, Lasting
      <4>3. scan.count <= Cardinality(Witnesses)
        BY <1>2, <2>1, <2>3 DEF Lasting
      <4> QED BY <2>1, <2>2, <4>2, <4>3, MoreServers
    <3> QED BY <2>1, <3>1, <3>2
  <2> QED BY <2>1, <2>3
<1>4. Returned'
  <2> SUFFICES ASSUME returned # None
               PROVE  /\ returned.index \in Index /\ returned.n \in Nat /\ returned.cmd \in Cmd
                      /\ NoErr' => Cardinality({j \in Server : logs'[j][returned.index] = returned.cmd})
                                      >= returned.n
    BY <1>1 DEF Returned
  <2> DEFINE S == {j \in Server : logs[j][returned.index] = returned.cmd}
             T == {j \in Server : logs'[j][returned.index] = returned.cmd}
  <2>1. /\ returned.index \in Index /\ returned.n \in Nat /\ returned.cmd \in Cmd
        /\ NoErr => Cardinality(S) >= returned.n
    BY DEF AskInv, Returned
  <2>2. ASSUME NoErr' PROVE Cardinality(T) >= returned.n
    <3>1. returned.cmd # None
      BY <2>1, TesterAssumption
    <3>2. S \subseteq T /\ S \in SUBSET Server /\ T \in SUBSET Server
      BY <1>2, <2>1, <2>2, <3>1 DEF Lasting
    <3>3. Cardinality(S) >= returned.n
      BY <1>2, <2>1, <2>2 DEF Lasting
    <3> HIDE DEF S, T
    <3> QED BY <2>1, <3>2, <3>3, MoreServers
  <2> QED BY <2>1, <2>2
<1> QED BY <1>3, <1>4

LEMMA AskBegins ==
    ASSUME AskInv, at' = "asking", scan' = NoScan, returned' = returned, hand' = hand,
           logs' = logs, asked'.index \in Index, asked'.n \in Nat
    PROVE  Scanning' /\ Returned'
<1>1. scan'.count = 0
  BY DEF NoScan
<1>2. Witnesses' \in SUBSET Server
  BY DEF Witnesses
<1>3. Cardinality(Witnesses') \in Nat
  BY <1>2, MoreServers
<1>4. Scanning'
  BY <1>1, <1>3 DEF Scanning
<1>5. Returned'
  BY DEF AskInv, Returned, NoErr
<1> QED BY <1>4, <1>5

LEMMA AskCount ==
    ASSUME AskInv, NEW j \in Server, Count(j)
    PROVE  Scanning' /\ Returned'
<1> DEFINE c == logs[j][asked.index]
<1>1. logs' = logs /\ hand' = hand /\ asked' = asked /\ returned' = returned
  BY DEF Count, askFrame, logVars
<1>2. Returned'
  BY <1>1 DEF AskInv, Returned, NoErr
<1>3. /\ asked.index \in Index /\ asked.n \in Nat /\ scan.count \in Nat
      /\ scan.count > 0 => scan.cmd \in Cmd
      /\ NoErr => scan.count <= Cardinality(Witnesses)
  BY DEF AskInv, Scanning, Count
<1>4. j \in scan.left
  BY DEF Count
<1>5. c \in Cmd \cup {None}
  BY <1>3 DEF AskInv, LogInv, TypeLogs
<1>6. Witnesses \in SUBSET Server /\ Witnesses' \in SUBSET Server /\ j \notin Witnesses
  BY <1>4 DEF Witnesses
<1>7. NoErr' <=> NoErr
  BY <1>1 DEF NoErr
<1>8. CASE c # None /\ scan.count > 0 /\ c # scan.cmd
  <2>1. at' = "failed"
    BY <1>8 DEF Count
  <2> QED BY <1>2, <2>1 DEF Scanning
<1>9. CASE c = None
  <2>1. /\ scan'.left = scan.left \ {j} /\ scan'.count = scan.count /\ scan'.cmd = scan.cmd
    BY <1>9 DEF Count
  <2>2. Witnesses \subseteq Witnesses'
    BY <1>1, <2>1 DEF Witnesses
  <2>3. Cardinality(Witnesses) <= Cardinality(Witnesses')
        /\ Cardinality(Witnesses) \in Nat /\ Cardinality(Witnesses') \in Nat
    BY <1>6, <2>2, MoreServers
  <2> QED BY <1>1, <1>2, <1>3, <1>7, <2>1, <2>3 DEF Scanning
<1>10. CASE c # None /\ ~(scan.count > 0 /\ c # scan.cmd)
  <2>1. /\ scan'.left = scan.left \ {j} /\ scan'.count = scan.count + 1 /\ scan'.cmd = c
    BY <1>10 DEF Count
  <2>2. j \in Witnesses'
    BY <1>1, <2>1 DEF Witnesses
  <2>3. Cardinality(Witnesses') \in Nat /\ 1 <= Cardinality(Witnesses')
    <3>1. {} \in SUBSET Server /\ Cardinality({}) = 0
      BY FS_EmptySet
    <3>2. Cardinality({}) + 1 <= Cardinality(Witnesses') /\ Cardinality(Witnesses') \in Nat
      BY <1>6, <2>2, <3>1, MoreServers
    <3> QED BY <3>1, <3>2
  <2>4. NoErr' => scan'.count <= Cardinality(Witnesses')
    <3>1. CASE scan.count = 0
      BY <2>1, <2>3, <3>1
    <3>2. CASE scan.count > 0
      <4>1. Witnesses \subseteq Witnesses'
        BY <1>1, <1>10, <2>1, <3>2 DEF Witnesses
      <4>2. Cardinality(Witnesses) + 1 <= Cardinality(Witnesses') /\ Cardinality(Witnesses) \in Nat
        BY <1>6, <2>2, <4>1, MoreServers
      <4> QED BY <1>3, <1>7, <2>1, <2>3, <4>2
    <3> QED BY <1>3, <3>1, <3>2
  <2> QED BY <1>1, <1>2, <1>3, <1>5, <1>10, <2>1, <2>4 DEF Scanning
<1> QED BY <1>8, <1>9, <1>10

LEMMA AskAgreed ==
    ASSUME AskInv, Agreed
    PROVE  Scanning' /\ Returned'
<1>1. logs' = logs /\ hand' = hand
  BY DEF Agreed, askFrame, logVars
<1>2. at' = "idle"
  BY DEF Agreed
<1>3. /\ asked.index \in Index /\ asked.n \in Nat /\ scan.count \in Nat
      /\ scan.count > 0 => scan.cmd \in Cmd
      /\ NoErr => scan.count <= Cardinality(Witnesses)
  BY DEF AskInv, Scanning, Agreed
<1>4. scan.count > 0 /\ scan.count >= asked.n
  BY DEF Agreed, Enough
<1>5. returned'.index = asked.index /\ returned'.n = asked.n /\ returned'.cmd = scan.cmd
  BY DEF Agreed, Enough
<1>6. Witnesses = {j \in Server : logs'[j][returned'.index] = returned'.cmd}
  BY <1>1, <1>5 DEF Witnesses, Agreed
<1>7. Witnesses \in SUBSET Server
  BY DEF Witnesses
<1>8. Cardinality(Witnesses) \in Nat
  BY <1>7, MoreServers
<1>9. NoErr' => Cardinality(Witnesses) >= asked.n
  <2>1. NoErr' <=> NoErr
    BY <1>1 DEF NoErr
  <2> QED BY <1>3, <1>4, <1>8, <2>1
<1>10. NoErr' => Cardinality({j \in Server : logs'[j][returned'.index] = returned'.cmd}) >= returned'.n
  BY <1>5, <1>6, <1>9
<1> QED BY <1>2, <1>3, <1>4, <1>5, <1>10 DEF Scanning, Returned

LEMMA AskNext == AskInv /\ [Next]_vars => AskInv'
<1> SUFFICES ASSUME AskInv, [Next]_vars PROVE Scanning' /\ Returned'
  BY LogsNext DEF AskInv
<1>1. Cardinality(Server) \in Nat
  BY TesterAssumption, FS_CardinalityType
<1>2. ASSUME NEW n \in 1..Cardinality(Server), NEW x \in Index, Wait(n, x)
      PROVE  Scanning' /\ Returned'
  <2>1. /\ at' = "asking" /\ scan' = NoScan /\ returned' = returned /\ hand' = hand
        /\ logs' = logs /\ asked'.index = x /\ asked'.n = n
    BY <1>2 DEF Wait, askFrame, logVars
  <2>2. n \in Nat
    BY <1>1
  <2> QED BY <2>1, <2>2, AskBegins
<1>3. ASSUME NEW n \in 1..Cardinality(Server), NEW x \in Index, NEW i \in Server, NEW c \in Cmd,
             One(i, c, n, x)
      PROVE  Scanning' /\ Returned'
  <2>1. /\ at' = "asking" /\ scan' = NoScan /\ returned' = returned /\ hand' = hand
        /\ logs' = logs /\ asked'.index = x /\ asked'.n = n
    BY <1>3 DEF One, askFrame, logVars
  <2>2. n \in Nat
    BY <1>1
  <2> QED BY <2>1, <2>2, AskBegins
<1>4. ASSUME LookAgain PROVE Scanning' /\ Returned'
  <2>1. /\ at' = "asking" /\ scan' = NoScan /\ returned' = returned /\ hand' = hand
        /\ logs' = logs /\ asked' = asked
    BY <1>4 DEF LookAgain, askFrame, logVars
  <2>2. asked.index \in Index /\ asked.n \in Nat
    BY <1>4 DEF AskInv, Scanning, LookAgain
  <2> QED BY <2>1, <2>2, AskBegins
<1> QED BY <1>2, <1>3, <1>4, AskCount, AskAgreed, AskRest DEF AskStep

LEMMA AskInit == Init => AskInv
<1> SUFFICES ASSUME Init PROVE AskInv
  OBVIOUS
<1>1. LogInv
  BY LogsInit
<1>2. at = "idle" /\ returned = None
  BY DEF Init
<1> QED BY <1>1, <1>2 DEF AskInv, Scanning, Returned

\* For any number of servers: although the records change between two looks of
\* nCommitted, what one or wait returned was applied by as many servers as the
\* test asked for, unless an applier has found an error.
THEOREM TesterOneAgreed == Spec => []OneAgreed
<1>1. ASSUME AskInv PROVE OneAgreed
  <2> SUFFICES ASSUME returned # None, \A i \in Server, b \in Boot : ~hand[i][b].err
               PROVE  Cardinality({j \in Server : logs[j][returned.index] = returned.cmd}) >= returned.n
    BY DEF OneAgreed
  <2>1. \A i \in Server, b \in Boot : hand[i][b] \in HandSet
    BY <1>1 DEF AskInv, LogInv, TypeLogs
  <2>2. NoErr
    BY <2>1 DEF NoErr, HandSet
  <2> QED BY <1>1, <2>2 DEF AskInv, Returned
<1> QED BY <1>1, AskInit, AskNext, PTL DEF Spec

-----------------------------------------------------------------------------
(* checkOneLeader, checkTerms and checkNoLeader *)

Leading == \A i \in Server : leads[i] => <<term[i], i>> \in led

\* Of each server that has been asked there is one answer; a leader's is true
\* for ever, and the answer of a server that has not changed is true still.
Looking ==
    at = "looking" =>
        /\ \A f \in look.found : f.server \in Server /\ f.server \notin look.left
        /\ \A f \in look.found : f.leads \in BOOLEAN
        /\ \A f \in look.found : f.leads = TRUE => <<f.term, f.server>> \in led
        /\ \A f, g \in look.found : f.server = g.server => f = g
        /\ \A i \in steady \ look.left :
              \E f \in look.found : f.server = i /\ f.term = term[i] /\ f.leads = leads[i]

TypeLook ==
    /\ term \in [Server -> 0..MaxTerm] /\ leads \in [Server -> BOOLEAN] /\ steady \subseteq Server

LookInv == TypeLook /\ Leading /\ Looking /\ ChecksSound

LookStep ==
    \/ \E i \in Server, t \in 0..MaxTerm, l \in BOOLEAN : Turn(i, t, l)
    \/ \E kind \in {"one leader", "terms", "no leader"} : Look(kind)
    \/ \E j \in Server : GetState(j)
    \/ CheckOneLeader \/ CheckTerms \/ CheckNoLeader
    \/ MakeRaft

LEMMA NotLooking ==
    ASSUME [Next]_vars, ~LookStep
    PROVE  UNCHANGED lookVars /\ (at' = "looking" => at = "looking")
<1> USE DEF askVars
<1>1. CASE UNCHANGED vars
  BY <1>1 DEF vars, lookVars
<1>2. CASE RaftStep
  <2>1. PICK i \in Server, b \in Boot :
            \/ Save(i, b) \/ \E j \in Server : Call(i, b, j) \/ Answer(i, b, j)
            \/ \E t \in 0..MaxTerm, l \in BOOLEAN : Turn(i, t, l)
    BY <1>2 DEF RaftStep
  <2>2. CASE Save(i, b)
    BY <2>2 DEF Save
  <2>3. CASE \E j \in Server : Call(i, b, j) \/ Answer(i, b, j)
    <3>1. Heard(i, b)
      BY <2>3 DEF Call, Answer
    <3> QED BY <3>1 DEF Heard
  <2> QED BY <2>1, <2>2, <2>3 DEF LookStep
<1>3. CASE TestStep
  <2>1. CASE \E i \in Server : Connect(i) \/ Disconnect(i) \/ \E again \in BOOLEAN : Crash(i, again)
    BY <2>1 DEF Connect, Disconnect, Crash
  <2>2. CASE DeleteServer \/ CopySaved \/ Killed
    BY <2>2 DEF DeleteServer, CopySaved, Killed
  <2>3. CASE NewEnds \/ Prepare \/ AddServer
    BY <2>3 DEF NewEnds, Prepare, AddServer
  <2>4. CASE \E n \in 1..Cardinality(Server), x \in Index :
               Wait(n, x) \/ \E i \in Server, c \in Cmd : One(i, c, n, x)
    BY <2>4 DEF Wait, One
  <2>5. CASE \E j \in Server : Count(j)
    BY <2>5 DEF Count
  <2>6. CASE Agreed \/ LookAgain \/ TimeUp \/ NoLeader
    BY <2>6 DEF Agreed, LookAgain, TimeUp, NoLeader
  <2> QED BY <1>3, <2>1, <2>2, <2>3, <2>4, <2>5, <2>6 DEF TestStep, LookStep
<1>4. CASE ApplierStep
  <2>1. PICK i \in Server, b \in Boot :
            \/ \E n \in Index, c \in Cmd : Apply(i, b, n, c) \/ TakeMsg(i, b, n, c)
            \/ CheckMsg(i, b) \/ NoteMsg(i, b) \/ Fatalf(i, b)
    BY <1>4 DEF ApplierStep
  <2> QED BY <2>1 DEF Apply, TakeMsg, CheckMsg, NoteMsg, Fatalf
<1> QED BY <1>1, <1>2, <1>3, <1>4 DEF Next

LEMMA LookTurn ==
    ASSUME LookInv, NEW i \in Server, NEW t \in 0..MaxTerm, NEW l \in BOOLEAN, Turn(i, t, l)
    PROVE  LookInv'
<1>1. /\ term' = [term EXCEPT ![i] = t] /\ leads' = [leads EXCEPT ![i] = l]
      /\ steady' = steady \ {i} /\ look' = look /\ verdict' = verdict /\ at' = at
      /\ l => <<t, i>> \in led'
      /\ led \subseteq led'
  BY DEF Turn
<1>2. TypeLook'
  BY <1>1 DEF LookInv, TypeLook
<1>3. /\ term'[i] = t /\ leads'[i] = l
      /\ \A j \in Server : j # i => term'[j] = term[j] /\ leads'[j] = leads[j]
  BY <1>1 DEF LookInv, TypeLook
<1>4. \A j \in steady' : j \in steady /\ term'[j] = term[j] /\ leads'[j] = leads[j]
  BY <1>1, <1>3 DEF LookInv, TypeLook
<1>5. Leading'
  BY <1>1, <1>3 DEF LookInv, Leading
<1>6. Looking'
  BY <1>1, <1>4 DEF LookInv, Looking
<1>7. ChecksSound'
  <2> SUFFICES ASSUME verdict # None PROVE ChecksSound'
    BY <1>1 DEF ChecksSound
  <2>1. ChecksSound
    BY DEF LookInv
  <2>2. verdict.kind = "split" =>
           \E k, j \in Server : k # j /\ {<<verdict.term, k>>, <<verdict.term, j>>} \subseteq led'
    BY <1>1, <2>1 DEF ChecksSound
  <2>3. verdict.kind = "leader" =>
           /\ <<verdict.term, verdict.server>> \in led'
           /\ \A k \in steady' : leads'[k] => term'[k] <= verdict.term
    BY <1>1, <1>4, <2>1 DEF ChecksSound
  <2>4. verdict.kind = "no leader" => \A k \in steady' : ~leads'[k]
    BY <1>4, <2>1 DEF ChecksSound
  <2>5. verdict.kind = "term" => \A k \in steady' : term'[k] = verdict.term
    BY <1>4, <2>1 DEF ChecksSound
  <2> QED BY <1>1, <2>2, <2>3, <2>4, <2>5 DEF ChecksSound
<1> QED BY <1>2, <1>5, <1>6, <1>7 DEF LookInv

LEMMA LookGetState ==
    ASSUME LookInv, NEW j \in Server, GetState(j)
    PROVE  LookInv'
<1> DEFINE f == [term |-> term[j], leads |-> leads[j], server |-> j]
<1>1. /\ at = "looking" /\ at' = at /\ UNCHANGED <<term, leads, led, verdict, steady>>
      /\ look'.left = look.left \ {j} /\ look'.found = look.found \cup {f}
      /\ j \in look.left
  BY DEF GetState
<1>2. f.server = j /\ f.term = term[j] /\ f.leads = leads[j]
  OBVIOUS
<1> HIDE DEF f
<1>3. Looking'
  <2>1. Looking /\ Leading /\ leads[j] \in BOOLEAN
    BY DEF LookInv, TypeLook
  <2>2. \A g \in look'.found : g.server \in Server /\ g.server \notin look'.left
    <3>1. \A g \in look.found : g.server \in Server /\ g.server \notin look.left
      BY <1>1, <2>1 DEF Looking
    <3> QED BY <1>1, <1>2, <3>1
  <2>5. \A g \in look'.found : g.leads \in BOOLEAN
    BY <1>1, <1>2, <2>1 DEF Looking
  <2>6. \A g \in look'.found : g.leads = TRUE => <<g.term, g.server>> \in led'
    <3>1. \A g \in look.found : g.leads = TRUE => <<g.term, g.server>> \in led
      BY <1>1, <2>1 DEF Looking
    <3>2. leads[j] = TRUE => <<term[j], j>> \in led
      BY <2>1 DEF Leading
    <3> QED BY <1>1, <1>2, <3>1, <3>2
  <2>3. \A g, h \in look'.found : g.server = h.server => g = h
    <3>1. \A g \in look.found : g.server # j
      BY <1>1, <2>1 DEF Looking
    <3>2. \A g, h \in look.found : g.server = h.server => g = h
      BY <1>1, <2>1 DEF Looking
    <3> QED BY <1>1, <1>2, <3>1, <3>2
  <2>4. \A i \in steady' \ look'.left :
           \E g \in look'.found : g.server = i /\ g.term = term'[i] /\ g.leads = leads'[i]
    BY <1>1, <1>2, <2>1 DEF Looking
  <2> QED BY <2>2, <2>3, <2>4, <2>5, <2>6 DEF Looking
<1>4. TypeLook' /\ Leading' /\ ChecksSound'
  BY <1>1 DEF LookInv, TypeLook, Leading, ChecksSound
<1> QED BY <1>3, <1>4 DEF LookInv

LEMMA LookFound ==
    ASSUME LookInv, at' # "looking", UNCHANGED <<term, leads, led, steady>>, ChecksSound'
    PROVE  LookInv'
BY DEF LookInv, TypeLook, Leading, Looking

LEMMA LookOneLeader ==
    ASSUME LookInv, CheckOneLeader PROVE LookInv'
<1>1. at = "looking" /\ look.left = {} /\ Looking /\ TypeLook
  BY DEF CheckOneLeader, LookInv
<1>2. UNCHANGED <<term, leads, led, steady>>
  BY DEF CheckOneLeader, Found
<1>0. ASSUME NEW f \in Claims
      PROVE  f.server \in Server /\ <<f.term, f.server>> \in led
  <2>1. f \in look.found /\ f.leads
    BY DEF Claims
  <2>2. f.leads \in BOOLEAN
    BY <1>1, <2>1 DEF Looking
  <2>3. f.leads = TRUE
    BY <2>1, <2>2
  <2>4. f.leads = TRUE => <<f.term, f.server>> \in led
    BY <1>1, <2>1 DEF Looking
  <2>5. f.server \in Server
    BY <1>1, <2>1 DEF Looking
  <2> QED BY <2>3, <2>4, <2>5
<1>3. CASE \E f, g \in Claims : /\ f.term = g.term /\ f # g
                               /\ Found([kind |-> "split", term |-> f.term])
  <2>1. PICK f \in Claims, g \in Claims :
             /\ f.term = g.term /\ f # g /\ Found([kind |-> "split", term |-> f.term])
    BY <1>3
  <2>2. verdict'.kind = "split" /\ verdict'.term = f.term /\ at' = "failed"
    BY <2>1 DEF Found
  <2>3. /\ f.server \in Server /\ g.server \in Server /\ f.server # g.server
        /\ <<f.term, f.server>> \in led /\ <<f.term, g.server>> \in led
    <3>1. f \in look.found /\ g \in look.found
      BY DEF Claims
    <3>2. f.server # g.server
      BY <1>1, <2>1, <3>1 DEF Looking
    <3> QED BY <1>0, <2>1, <3>2
  <2>4. ChecksSound'
    BY <1>2, <2>2, <2>3 DEF ChecksSound
  <2> QED BY <1>2, <2>2, <2>4, LookFound
<1>4. CASE \E f \in Claims :
               Newest(f) /\ Found([kind |-> "leader", term |-> f.term, server |-> f.server])
  <2>1. PICK f \in Claims :
               Newest(f) /\ Found([kind |-> "leader", term |-> f.term, server |-> f.server])
    BY <1>4
  <2>2. /\ verdict'.kind = "leader" /\ verdict'.term = f.term /\ verdict'.server = f.server
        /\ at' = "idle"
    BY <2>1 DEF Found
  <2>3. <<f.term, f.server>> \in led
    BY <1>0
  <2>4. ASSUME NEW i \in steady, leads[i] PROVE term[i] <= f.term
    <3>1. PICK g \in look.found : g.server = i /\ g.term = term[i] /\ g.leads = leads[i]
      BY <1>1 DEF Looking
    <3>2. g \in Claims
      BY <2>4, <3>1 DEF Claims
    <3> QED BY <2>1, <3>1, <3>2 DEF Newest
  <2>5. ChecksSound'
    BY <1>2, <2>2, <2>3, <2>4 DEF ChecksSound
  <2> QED BY <1>2, <2>2, <2>5, LookFound
<1>5. CASE Claims = {} /\ at' \in {"idle", "failed"} /\ verdict' = verdict
  <2>1. ChecksSound'
    BY <1>2, <1>5 DEF LookInv, ChecksSound
  <2> QED BY <1>2, <1>5, <2>1, LookFound
<1> QED BY <1>3, <1>4, <1>5 DEF CheckOneLeader

LEMMA LookOthers ==
    ASSUME LookInv, CheckTerms \/ CheckNoLeader PROVE LookInv'
<1>1. at = "looking" /\ Looking /\ TypeLook
  BY DEF CheckTerms, CheckNoLeader, LookInv
<1>2. UNCHANGED <<term, leads, led, steady>>
  BY DEF CheckTerms, CheckNoLeader, Found
<1>3. ASSUME NEW k \in {"differ", "a leader", "-1"}, Found([kind |-> k]) PROVE LookInv'
  <2>1. verdict'.kind = k /\ at' \in {"idle", "failed"}
    BY <1>3 DEF Found
  <2>2. ChecksSound'
    BY <2>1 DEF ChecksSound
  <2> QED BY <1>2, <2>1, <2>2, LookFound
<1>4. ASSUME look.left = {}, NEW f \in look.found, \A g \in look.found : g.term = f.term,
             Found([kind |-> "term", term |-> f.term])
      PROVE  LookInv'
  <2>1. verdict'.kind = "term" /\ verdict'.term = f.term /\ at' = "idle"
    BY <1>4 DEF Found
  <2>2. \A i \in steady : term[i] = f.term
    BY <1>1, <1>4 DEF Looking
  <2>3. ChecksSound'
    BY <1>2, <2>1, <2>2 DEF ChecksSound
  <2> QED BY <1>2, <2>1, <2>3, LookFound
<1>5. ASSUME look.left = {}, Claims = {}, Found([kind |-> "no leader"]) PROVE LookInv'
  <2>1. verdict'.kind = "no leader" /\ at' = "idle"
    BY <1>5 DEF Found
  <2>2. \A i \in steady : ~leads[i]
    BY <1>1, <1>5 DEF Looking, Claims
  <2>3. ChecksSound'
    BY <1>2, <2>1, <2>2 DEF ChecksSound
  <2> QED BY <1>2, <2>1, <2>3, LookFound
<1> QED BY <1>3, <1>4, <1>5 DEF CheckTerms, CheckNoLeader

LEMMA LookNext == LookInv /\ [Next]_vars => LookInv'
<1> SUFFICES ASSUME LookInv, [Next]_vars PROVE LookInv'
  OBVIOUS
<1>1. ASSUME NEW kind, Look(kind) PROVE LookInv'
  <2>1. /\ verdict' = None /\ UNCHANGED <<term, leads, led>>
        /\ look'.found = {} /\ look'.left = steady' /\ steady' \subseteq Server
    BY <1>1 DEF Look
  <2> QED BY <2>1 DEF LookInv, TypeLook, Leading, Looking, ChecksSound
<1>2. ASSUME MakeRaft PROVE LookInv'
  <2>1. /\ at' = "made" /\ UNCHANGED <<term, led, verdict, steady>>
        /\ leads' = [leads EXCEPT ![srv] = FALSE]
    BY <1>2 DEF MakeRaft
  <2>2. TypeLook' /\ \A i \in Server : leads'[i] => leads[i]
    BY <2>1 DEF LookInv, TypeLook
  <2>3. Leading' /\ Looking'
    BY <2>1, <2>2 DEF LookInv, Leading, Looking
  <2>4. ChecksSound'
    BY <2>1, <2>2 DEF LookInv, TypeLook, ChecksSound
  <2> QED BY <2>2, <2>3, <2>4 DEF LookInv
<1>3. ASSUME ~LookStep PROVE LookInv'
  <2>1. UNCHANGED <<term, leads, led, look, verdict, steady>> /\ (at' = "looking" => at = "looking")
    BY <1>3, NotLooking DEF lookVars
  <2>2. TypeLook' /\ Leading'
    BY <2>1 DEF LookInv, TypeLook, Leading
  <2>3. Looking'
    BY <2>1 DEF LookInv, Looking
  <2>4. ChecksSound'
    BY <2>1 DEF LookInv, ChecksSound
  <2> QED BY <2>2, <2>3, <2>4 DEF LookInv
<1> QED BY <1>1, <1>2, <1>3, LookTurn, LookGetState, LookOneLeader, LookOthers DEF LookStep

LEMMA LookInit == Init => LookInv
<1> SUFFICES ASSUME Init PROVE LookInv
  OBVIOUS
<1>1. 0 \in 0..MaxTerm
  BY TesterAssumption
<1> QED BY <1>1 DEF Init, LookInv, TypeLook, Leading, Looking, ChecksSound

\* For any number of servers that change roles and terms while they are asked:
\* two leaders in one term are reported only if there were, no leader that stays
\* one is missed, and the term returned is that of all who kept theirs.
THEOREM TesterChecksSound == Spec => []ChecksSound
<1>1. LookInv => ChecksSound
  BY DEF LookInv
<1> QED BY <1>1, LookInit, LookNext, PTL DEF Spec

-----------------------------------------------------------------------------
(* Types *)

EndsTyped == enabled \subseteq Server \X Boot \X Server
LedTyped  == led \subseteq (0..MaxTerm) \X Server

LEMMA EndsKept ==
    ASSUME [Next]_vars, \A i \in Server : ~Connect(i)
    PROVE  enabled' \subseteq enabled
<1> USE DEF netVars
<1>1. CASE UNCHANGED vars
  BY <1>1 DEF vars
<1>2. CASE RaftStep
  <2>1. PICK i \in Server, b \in Boot :
            \/ Save(i, b) \/ \E j \in Server : Call(i, b, j) \/ Answer(i, b, j)
            \/ \E t \in 0..MaxTerm, l \in BOOLEAN : Turn(i, t, l)
    BY <1>2 DEF RaftStep
  <2>2. CASE Save(i, b)
    BY <2>2 DEF Save
  <2>3. CASE \E j \in Server : Call(i, b, j) \/ Answer(i, b, j)
    <3>1. Heard(i, b)
      BY <2>3 DEF Call, Answer
    <3> QED BY <3>1 DEF Heard
  <2>4. CASE \E t \in 0..MaxTerm, l \in BOOLEAN : Turn(i, t, l)
    BY <2>4 DEF Turn, lookFrame
  <2> QED BY <2>1, <2>2, <2>3, <2>4
<1>3. CASE TestStep
  <2>1. CASE \E i \in Server : Disconnect(i) \/ \E again \in BOOLEAN : Crash(i, again)
    <3>1. PICK i \in Server : Cut(i)
      BY <2>1 DEF Disconnect, Crash
    <3> QED BY <3>1 DEF Cut
  <2>2. CASE DeleteServer \/ CopySaved \/ Killed
    BY <2>2 DEF DeleteServer, CopySaved, Killed
  <2>3. CASE NewEnds \/ Prepare \/ MakeRaft \/ AddServer
    BY <2>3 DEF NewEnds, Prepare, MakeRaft, AddServer
  <2>4. CASE \E n \in 1..Cardinality(Server), x \in Index :
               Wait(n, x) \/ \E i \in Server, c \in Cmd : One(i, c, n, x)
    BY <2>4 DEF Wait, One, askFrame
  <2>5. CASE \E j \in Server : Count(j)
    BY <2>5 DEF Count, askFrame
  <2>6. CASE \E j \in Server : GetState(j)
    BY <2>6 DEF GetState, lookFrame
  <2>7. CASE Agreed \/ LookAgain \/ TimeUp \/ NoLeader
    BY <2>7 DEF Agreed, LookAgain, TimeUp, NoLeader, askFrame
  <2>8. CASE \E kind \in {"one leader", "terms", "no leader"} : Look(kind)
    BY <2>8 DEF Look, lookFrame
  <2>9. CASE CheckOneLeader \/ CheckTerms \/ CheckNoLeader
    BY <2>9 DEF CheckOneLeader, CheckTerms, CheckNoLeader, Found, lookFrame
  <2> QED BY <1>3, <2>1, <2>2, <2>3, <2>4, <2>5, <2>6, <2>7, <2>8, <2>9 DEF TestStep
<1>4. CASE ApplierStep
  <2>1. PICK i \in Server, b \in Boot :
            \/ \E n \in Index, c \in Cmd : Apply(i, b, n, c) \/ TakeMsg(i, b, n, c)
            \/ CheckMsg(i, b) \/ NoteMsg(i, b) \/ Fatalf(i, b)
    BY <1>4 DEF ApplierStep
  <2> QED BY <2>1 DEF Apply, TakeMsg, CheckMsg, NoteMsg, Fatalf
<1> QED BY <1>1, <1>2, <1>3, <1>4 DEF Next

LEMMA EndsNext == TypeLinks /\ EndsTyped /\ [Next]_vars => EndsTyped'
<1> SUFFICES ASSUME TypeLinks, EndsTyped, [Next]_vars PROVE EndsTyped'
  OBVIOUS
<1>1. ASSUME NEW i \in Server, Connect(i) PROVE EndsTyped'
  <2> DEFINE on == {k \in Server : k = i \/ connected[k]}
  <2>1. enabled' = enabled \cup {<<i, boot[i], j>> : j \in on} \cup {<<j, boot[j], i>> : j \in on}
    BY <1>1 DEF Connect
  <2>2. \A j \in on : j \in Server /\ boot[j] \in Boot
    BY DEF TypeLinks
  <2>3. boot[i] \in Boot
    BY DEF TypeLinks
  <2> HIDE DEF on
  <2>4. ASSUME NEW j \in on
        PROVE  <<i, boot[i], j>> \in Server \X Boot \X Server /\ <<j, boot[j], i>> \in Server \X Boot \X Server
    BY <2>2, <2>3
  <2> QED BY <2>1, <2>4 DEF EndsTyped
<1>2. CASE \A i \in Server : ~Connect(i)
  BY <1>2, EndsKept DEF EndsTyped
<1> QED BY <1>1, <1>2

LEMMA LedNext == LedTyped /\ [Next]_vars => LedTyped'
<1> SUFFICES ASSUME LedTyped, [Next]_vars PROVE LedTyped'
  OBVIOUS
<1>1. ASSUME NEW i \in Server, NEW t \in 0..MaxTerm, NEW l \in BOOLEAN, Turn(i, t, l)
      PROVE  LedTyped'
  <2>1. led' \subseteq led \cup {<<t, i>>}
    BY <1>1 DEF Turn
  <2> QED BY <2>1 DEF LedTyped
<1>2. CASE LookStep /\ ~\E i \in Server, t \in 0..MaxTerm, l \in BOOLEAN : Turn(i, t, l)
  <2>1. led' = led
    BY <1>2 DEF LookStep, Look, GetState, CheckOneLeader, CheckTerms, CheckNoLeader, Found, MakeRaft
  <2> QED BY <2>1 DEF LedTyped
<1>3. CASE ~LookStep
  BY <1>3, NotLooking DEF lookVars, LedTyped
<1> QED BY <1>1, <1>2, <1>3

TypeInv == LinkInv /\ LogInv /\ LookInv /\ EndsTyped /\ LedTyped

\* Every variable of the tester keeps its type, for any servers, commands and
\* bounds.
THEOREM TesterTypeCorrect == Spec => []TypeOK
<1>1. Init => TypeInv
  <2> SUFFICES ASSUME Init PROVE EndsTyped /\ LedTyped
    BY LinksInit, LogsInit, LookInit DEF TypeInv
  <2>1. \A i, j \in Server : <<i, 1, j>> \in Server \X Boot \X Server
    BY BootFacts
  <2>2. enabled = {<<i, 1, j>> : i \in Server, j \in Server} /\ led = {}
    BY DEF Init
  <2> QED BY <2>1, <2>2 DEF EndsTyped, LedTyped
<1>2. TypeInv /\ [Next]_vars => TypeInv'
  BY LinksNext, LogsNext, LookNext, EndsNext, LedNext DEF TypeInv, LinkInv
<1>3. ASSUME TypeInv PROVE TypeOK
  BY <1>3, BootFacts DEF TypeInv, LinkInv, TypeLinks, LogInv, TypeLogs, HandSet, LookInv, TypeLook,
     EndsTyped, LedTyped, TypeOK
<1> QED BY <1>1, <1>2, <1>3, PTL DEF Spec
=============================================================================
