------------------------------- MODULE Tester -------------------------------
(***************************************************************************)
(* The Raft tester, src/src/raft/config.go: how it cuts servers off, kills *)
(* and restarts them, and how it judges what they apply.                   *)
(*                                                                         *)
(* The test's own goroutine takes one operation after the other (at); each *)
(* incarnation of a server has an applier goroutine (hand).  Incarnations  *)
(* are numbered, and <<i, b, j>> stands for the random name endnames[i][j] *)
(* that incarnation b of server i got for its ClientEnd to j.              *)
(*                                                                         *)
(* The Raft instances are what is tested and may do anything: save a new   *)
(* state, make and answer calls, and apply any command at any index.       *)
(***************************************************************************)
EXTENDS Naturals, Sequences, FiniteSets

CONSTANTS
    Server, Cmd,
    None,        \* no command
    MaxBoot,     \* bound: incarnations of a server
    MaxSave,     \* bound: states an instance saves
    MaxIndex,    \* bound: the highest log index
    MaxDeliver,  \* bound: messages an instance sends on its applyCh
    MaxTerm      \* bound: the highest term

ASSUME TesterAssumption ==
    /\ IsFiniteSet(Server) /\ None \notin Cmd
    /\ MaxBoot \in Nat \ {0} /\ MaxSave \in Nat
    /\ MaxIndex \in Nat /\ MaxDeliver \in Nat /\ MaxTerm \in Nat

VARIABLES
    \* config
    snapshot,    \* the parameter of make_config: which applier is used
    connected,
    boot,        \* whose names endnames[i] holds
    rafts,       \* the incarnation in rafts[i], 0 is nil
    saved,       \* the state in the Persister saved[i]
    holder,      \* the incarnation that writes to that Persister, 0 if none
    logs, lastApplied,
    fatal,       \* log.Fatalf was called: the process is gone
    \* labrpc
    enabled, servers,
    \* the Raft instances
    state,       \* the state each incarnation saved last
    seen,        \* the newest state of a server that a peer may have heard of
    applied,     \* what each incarnation sent on its applyCh
    term, leads, \* what GetState of the current incarnation returns
    led,         \* who was leader in which term
    \* goroutines
    at, srv, restart,    \* the test: where it is in crash1(srv) or start1(srv)
    asked, scan,         \* the test: its one() or wait(), and nCommitted()
    returned,            \* what the last of them returned
    look,                \* the test: its checkOneLeader, checkTerms or checkNoLeader
    verdict,             \* what the last of them found
    steady,              \* the connected servers that have not changed since it began
    hand,                \* the message each applier is busy with, and its error
    stray        \* an applier of a replaced incarnation was still at work

lookVars  == <<term, leads, led, look, verdict, steady>>
netVars   == <<enabled, servers>>
raftState == <<state, seen, saved>>
logVars   == <<logs, lastApplied, applied, hand, stray, fatal>>
askVars   == <<asked, scan, returned, lookVars>>
vars == <<snapshot, connected, boot, rafts, saved, holder, logs, lastApplied, fatal,
          enabled, servers, state, seen, applied, at, srv, restart, asked, scan,
          returned, hand, stray, term, leads, led, look, verdict, steady>>

Boot  == 1..MaxBoot
Index == 1..MaxIndex

\* An applier's message, how far it is with it, and its err_msg.
Hand(a, n, c, e) == [at |-> a, index |-> n, cmd |-> c, err |-> e]
Idle == Hand("idle", 0, None, FALSE)

\* make_config has started every server once and connected them all.
Init ==
    /\ snapshot \in BOOLEAN
    /\ connected = [i \in Server |-> TRUE]
    /\ boot = [i \in Server |-> 1]
    /\ rafts = [i \in Server |-> 1]
    /\ saved = [i \in Server |-> 0]
    /\ holder = [i \in Server |-> 1]
    /\ logs = [i \in Server |-> [n \in Index |-> None]]
    /\ lastApplied = [i \in Server |-> 0]
    /\ fatal = FALSE
    /\ enabled = {<<i, 1, j>> : i \in Server, j \in Server}
    /\ servers = [i \in Server |-> 1]
    /\ state = [i \in Server |-> [b \in Boot |-> 0]]
    /\ seen = [i \in Server |-> 0]
    /\ applied = [i \in Server |-> [b \in Boot |-> <<>>]]
    /\ at = "idle"
    /\ srv \in Server
    /\ restart = FALSE
    /\ asked = None /\ scan = None /\ returned = None
    /\ hand = [i \in Server |-> [b \in Boot |-> Idle]]
    /\ stray = FALSE
    /\ term = [i \in Server |-> 0]
    /\ leads = [i \in Server |-> FALSE]
    /\ led = {} /\ look = None /\ verdict = None /\ steady = {}

-----------------------------------------------------------------------------
(* connect and disconnect *)

Ends(i) == {<<i, boot[i], j>> : j \in Server} \cup {<<j, boot[j], i>> : j \in Server}

\* Fault: the ends of the others are forgotten.
FaultyConnect(i) ==
    /\ ~fatal /\ at = "idle" /\ rafts[i] # 0
    /\ connected' = [connected EXCEPT ![i] = TRUE]
    /\ enabled' = enabled \cup {<<i, boot[i], j>> : j \in {k \in Server : connected'[k]}}
    /\ UNCHANGED <<snapshot, boot, rafts, holder, servers, raftState, logVars, at, srv,
                   restart, askVars>>

\* The tests connect a server only when it runs (crash1 leaves nil in rafts).
\* connect and disconnect change the ends one by one: a call made in between finds
\* its own end on or off, as it would before or after the one step they are here.
Connect(i) ==
    LET on == {k \in Server : k = i \/ connected[k]}
    IN  /\ ~fatal /\ at = "idle" /\ rafts[i] # 0
        /\ connected' = [connected EXCEPT ![i] = TRUE]
        /\ enabled' = enabled \cup {<<i, boot[i], j>> : j \in on}
                              \cup {<<j, boot[j], i>> : j \in on}
        /\ UNCHANGED <<snapshot, boot, rafts, holder, servers, raftState, logVars, at, srv,
                       restart, askVars>>

\* disconnect(i), which does not ask whether i was connected.
Cut(i) ==
    /\ connected' = [connected EXCEPT ![i] = FALSE]
    /\ enabled' = enabled \ Ends(i)

Disconnect(i) ==
    /\ ~fatal /\ at = "idle" /\ connected[i]
    /\ Cut(i)
    /\ UNCHANGED <<snapshot, boot, rafts, holder, servers, raftState, logVars, at, srv,
                   restart, askVars>>

-----------------------------------------------------------------------------
(* crash1 and start1.  The lock cfg.mu is held within a step only: start1    *)
(* takes no lock at first, and crash1 lets go of it to call Kill.            *)

\* Fault: the Persister is copied while the server is still connected.
FaultyCrash(i, again) ==
    /\ ~fatal /\ at = "idle"
    /\ IF again THEN boot[i] < MaxBoot ELSE rafts[i] # 0
    /\ holder' = [holder EXCEPT ![i] = 0]
    /\ at' = "cut" /\ srv' = i /\ restart' = again
    /\ UNCHANGED <<snapshot, connected, enabled, boot, rafts, servers, raftState, logVars,
                   askVars>>

\* crash1(i), or start1(i) with again: cut the server off ...
Crash(i, again) ==
    /\ ~fatal /\ at = "idle"
    /\ IF again THEN boot[i] < MaxBoot ELSE rafts[i] # 0
    /\ Cut(i)
    /\ at' = "cut" /\ srv' = i /\ restart' = again
    /\ UNCHANGED <<snapshot, boot, rafts, holder, servers, raftState, logVars, askVars>>

\* ... take it from the network ...
DeleteServer ==
    /\ ~fatal /\ at = "cut"
    /\ servers' = [servers EXCEPT ![srv] = 0]
    /\ at' = "deleted"
    /\ UNCHANGED <<snapshot, connected, boot, rafts, holder, enabled, raftState, logVars,
                   srv, restart, askVars>>

\* ... put a copy in the place of its Persister ...
CopySaved ==
    /\ ~fatal /\ at = "deleted"
    /\ holder' = [holder EXCEPT ![srv] = 0]
    /\ at' = "copied"
    /\ UNCHANGED <<snapshot, connected, boot, rafts, netVars, raftState, logVars, srv,
                   restart, askVars>>

\* ... and, after Kill, forget it.  Kill stops neither the goroutines that
\* apply nor those that call, and the state goes into yet another Persister.
Killed ==
    /\ ~fatal /\ at = "copied"
    /\ rafts' = [rafts EXCEPT ![srv] = 0]
    /\ at' = IF restart THEN "crashed" ELSE "idle"
    /\ UNCHANGED <<snapshot, connected, boot, holder, netVars, raftState, logVars, srv,
                   restart, askVars>>

\* start1 makes new names and ends, which MakeEnd leaves disabled ...
NewEnds ==
    /\ ~fatal /\ at = "crashed"
    /\ boot' = [boot EXCEPT ![srv] = @ + 1]
    /\ at' = "named"
    /\ UNCHANGED <<snapshot, connected, rafts, holder, netVars, raftState, logVars, srv,
                   restart, askVars>>

\* ... resets lastApplied and copies the Persister once more (a snapshot is
\* never there: persist() saves none) ...
Prepare ==
    /\ ~fatal /\ at = "named"
    /\ lastApplied' = [lastApplied EXCEPT ![srv] = 0]
    /\ at' = "prepared"
    /\ UNCHANGED <<snapshot, connected, boot, rafts, holder, netVars, raftState, logs,
                   applied, hand, stray, fatal, srv, restart, askVars>>

\* ... hands the copy to Make, stores the instance and starts its applier ...
MakeRaft ==
    /\ ~fatal /\ at = "prepared"
    /\ holder' = [holder EXCEPT ![srv] = boot[srv]]
    /\ state' = [state EXCEPT ![srv][boot[srv]] = saved[srv]]
    /\ rafts' = [rafts EXCEPT ![srv] = boot[srv]]
    /\ leads' = [leads EXCEPT ![srv] = FALSE]
    /\ at' = "made"
    /\ UNCHANGED <<snapshot, connected, boot, netVars, seen, saved, logVars, srv,
                   restart, asked, scan, returned, term, led, look, verdict, steady>>

\* ... and puts it on the network, where it is yet to be connected.
AddServer ==
    /\ ~fatal /\ at = "made"
    /\ servers' = [servers EXCEPT ![srv] = boot[srv]]
    /\ at' = "idle"
    /\ UNCHANGED <<snapshot, connected, boot, rafts, holder, enabled, raftState, logVars,
                   srv, restart, askVars>>

-----------------------------------------------------------------------------
(* The Raft instances *)

\* The incarnations of i that Make has returned, the killed ones included.
Made(i) == IF srv = i /\ at \in {"named", "prepared"} THEN 1..(boot[i] - 1) ELSE 1..boot[i]

\* persist(): seen by the tester only if the Persister is still the saved one.
Save(i, b) ==
    /\ ~fatal /\ b \in Made(i)
    /\ state[i][b] < MaxSave
    /\ state' = [state EXCEPT ![i][b] = @ + 1]
    /\ saved' = IF holder[i] = b THEN [saved EXCEPT ![i] = state[i][b] + 1] ELSE saved
    /\ UNCHANGED <<snapshot, connected, boot, rafts, holder, netVars, seen, logVars, at,
                   srv, restart, askVars>>

\* A peer gets to know what incarnation b of i has saved.
Heard(i, b) ==
    /\ seen' = [seen EXCEPT ![i] = IF @ < state[i][b] THEN state[i][b] ELSE @]
    /\ UNCHANGED <<snapshot, connected, boot, rafts, holder, netVars, state, saved, logVars,
                   at, srv, restart, askVars>>

\* A call of incarnation b of i reaches j: labrpc looks at the end and for
\* the server.
Call(i, b, j) ==
    /\ ~fatal /\ b \in Made(i)
    /\ <<i, b, j>> \in enabled /\ servers[j] # 0
    /\ Heard(i, b)

\* A reply of incarnation b of i reaches j: isServerDead has found the end
\* of the caller enabled and the server unchanged.
Answer(i, b, j) ==
    /\ ~fatal /\ servers[i] = b
    /\ \E c \in Boot : <<j, c, i>> \in enabled
    /\ Heard(i, b)

-----------------------------------------------------------------------------
(* The appliers *)

\* Fault: the server's own log is the only one that is looked at.
FaultyMismatch(i, n, c) == logs[i][n] \notin {None, c}

\* checkLogs, first half: some server has another command at this index.
Mismatch(i, n, c) == \E j \in Server : logs[j][n] \notin {None, c}

\* Fault: an off-by-one lets the second entry come first.
FaultyGapLate(i, n) == n > 2 /\ logs[i][n - 1] = None

\* Fault: the first entry is taken to need one before it.
FaultyGap(i, n) == n = 1 \/ logs[i][n - 1] = None

\* checkLogs, second half: the server has applied nothing at the index before.
Gap(i, n) == n > 1 /\ logs[i][n - 1] = None

\* The incarnation whose applier has lastApplied to itself since it was reset.
Owner(i) == IF srv = i /\ at = "named" THEN boot[i] - 1 ELSE boot[i]

Note(i, n, c) == logs' = [logs EXCEPT ![i][n] = c]

Deliver(i, b, n, c) ==
    /\ ~fatal /\ b \in Made(i)
    /\ hand[i][b] = Idle
    /\ Len(applied[i][b]) < MaxDeliver
    /\ applied' = [applied EXCEPT ![i][b] = Append(@, [index |-> n, cmd |-> c])]

\* applier: one message, checked and recorded under cfg.mu.
Apply(i, b, n, c) ==
    /\ ~snapshot
    /\ Deliver(i, b, n, c)
    /\ Note(i, n, c)
    /\ hand' = IF Mismatch(i, n, c) \/ Gap(i, n)
               THEN [hand EXCEPT ![i][b] = Hand("error", n, c, TRUE)]
               ELSE hand
    /\ UNCHANGED <<snapshot, connected, boot, rafts, holder, netVars, raftState, at, srv,
                   restart, askVars, lastApplied, stray, fatal>>

\* applierSnap: a message is taken and lastApplied is read without the lock.
TakeMsg(i, b, n, c) ==
    /\ snapshot
    /\ Deliver(i, b, n, c)
    /\ hand' = [hand EXCEPT ![i][b] = Hand("taken", n, c, n # lastApplied[i] + 1)]
    /\ stray' = (stray \/ b # Owner(i))
    /\ UNCHANGED <<snapshot, connected, boot, rafts, holder, netVars, raftState, at, srv,
                   restart, askVars, logs, lastApplied, fatal>>

\* applierSnap: checkLogs, unless the index was wrong already.
CheckMsg(i, b) ==
    LET m == hand[i][b]
    IN  /\ ~fatal /\ m.at = "taken"
        /\ IF m.err THEN UNCHANGED logs ELSE Note(i, m.index, m.cmd)
        /\ hand' = [hand EXCEPT ![i][b] =
                       Hand("checked", m.index, m.cmd,
                            m.err \/ Mismatch(i, m.index, m.cmd) \/ Gap(i, m.index))]
        /\ UNCHANGED <<snapshot, connected, boot, rafts, holder, netVars, raftState, at, srv,
                       restart, askVars, lastApplied, applied, stray, fatal>>

\* Fault: lastApplied is taken for the next index.
FaultyNoteMsg(i, b) ==
    LET m == hand[i][b]
    IN  /\ ~fatal /\ m.at = "checked"
        /\ lastApplied' = [lastApplied EXCEPT ![i] = m.index + 1]
        /\ hand' = [hand EXCEPT ![i][b] =
                       IF m.err THEN Hand("error", m.index, m.cmd, TRUE) ELSE Idle]
        /\ stray' = (stray \/ b # Owner(i))
        /\ UNCHANGED <<snapshot, connected, boot, rafts, holder, netVars, raftState, at, srv,
                       restart, askVars, logs, applied, fatal>>

\* applierSnap: lastApplied is set, whoever runs by now.  rf.Snapshot(), which
\* follows now and then, is empty.
NoteMsg(i, b) ==
    LET m == hand[i][b]
    IN  /\ ~fatal /\ m.at = "checked"
        /\ lastApplied' = [lastApplied EXCEPT ![i] = m.index]
        /\ hand' = [hand EXCEPT ![i][b] =
                       IF m.err THEN Hand("error", m.index, m.cmd, TRUE) ELSE Idle]
        /\ stray' = (stray \/ b # Owner(i))
        /\ UNCHANGED <<snapshot, connected, boot, rafts, holder, netVars, raftState, at, srv,
                       restart, askVars, logs, applied, fatal>>

\* log.Fatalf ends the process.
Fatalf(i, b) ==
    /\ ~fatal /\ hand[i][b].at = "error"
    /\ fatal' = TRUE
    /\ UNCHANGED <<snapshot, connected, boot, rafts, holder, netVars, raftState, at, srv,
                   restart, askVars, logs, lastApplied, applied, hand, stray>>

-----------------------------------------------------------------------------
(* one, wait and nCommitted *)

askFrame == <<snapshot, connected, boot, rafts, holder, netVars, raftState, logVars, srv,
              restart>>

NoScan == [left |-> Server, count |-> 0, cmd |-> None]

\* one(c, n, _): some server that is connected and runs claims to lead, and
\* Start gives the command an index.  Where nobody does, one tries again.
One(i, c, n, x) ==
    /\ ~fatal /\ at \in {"idle", "again"}
    /\ at = "again" => c = asked.cmd /\ n = asked.n
    /\ connected[i] /\ rafts[i] # 0
    /\ asked' = [cmd |-> c, n |-> n, index |-> x]
    /\ scan' = NoScan
    /\ at' = "asking"
    /\ UNCHANGED <<askFrame, returned, lookVars>>

\* wait(x, n, _): any command will do.
Wait(n, x) ==
    /\ ~fatal /\ at = "idle"
    /\ asked' = [cmd |-> None, n |-> n, index |-> x]
    /\ scan' = NoScan
    /\ at' = "asking"
    /\ UNCHANGED <<askFrame, returned, lookVars>>

\* nCommitted looks at one server after the other and lets go of cfg.mu in
\* between.  Two commands at one index end the test.
Count(j) ==
    LET c == logs[j][asked.index]
    IN  /\ ~fatal /\ at = "asking" /\ j \in scan.left
        /\ IF c # None /\ scan.count > 0 /\ c # scan.cmd
           THEN at' = "failed" /\ UNCHANGED scan
           ELSE /\ scan' = [left |-> scan.left \ {j},
                            count |-> IF c = None THEN scan.count ELSE scan.count + 1,
                            cmd |-> IF c = None THEN scan.cmd ELSE c]
                /\ UNCHANGED at
        /\ UNCHANGED <<askFrame, asked, returned, lookVars>>

\* Fault: any command at the index is taken for ours.
FaultyEnough == scan.count > 0 /\ scan.count >= asked.n

\* What one and wait are after: enough servers, and for one its own command.
Enough ==
    /\ scan.count > 0 /\ scan.count >= asked.n
    /\ asked.cmd # None => scan.cmd = asked.cmd

\* nCommitted is through, and one or wait returns.
Agreed ==
    /\ ~fatal /\ at = "asking" /\ scan.left = {}
    /\ Enough
    /\ returned' = [index |-> asked.index, n |-> asked.n,
                    cmd |-> IF asked.cmd # None THEN asked.cmd ELSE scan.cmd]
    /\ at' = "idle"
    /\ UNCHANGED <<askFrame, asked, scan, lookVars>>

\* nCommitted is through and called again: wait does so once more at its end.
LookAgain ==
    /\ ~fatal /\ at = "asking" /\ scan.left = {}
    /\ ~Enough \/ asked.cmd = None
    /\ scan' = NoScan
    /\ UNCHANGED <<askFrame, asked, at, returned, lookVars>>

\* Time is up: one starts the command again if it may, wait returns -1 when a
\* server has entered a later term, and otherwise the test fails.
TimeUp ==
    /\ ~fatal /\ at = "asking" /\ scan.left = {} /\ ~Enough
    /\ at' \in {IF asked.cmd # None THEN "again" ELSE "idle", "failed"}
    /\ UNCHANGED <<askFrame, asked, scan, returned, lookVars>>

\* one finds nobody who claims to lead for ten seconds.
NoLeader ==
    /\ ~fatal /\ at \in {"idle", "again"}
    /\ at' = "failed"
    /\ UNCHANGED <<askFrame, asked, scan, returned, lookVars>>

-----------------------------------------------------------------------------
(* checkOneLeader, checkTerms and checkNoLeader *)

lookFrame == <<snapshot, connected, boot, rafts, holder, netVars, raftState, logVars, srv,
               restart, asked, scan, returned>>

\* An instance enters a later term, or its role changes.  One whose Persister
\* was replaced is asked no more, and the next begins with the term saved there.
Turn(i, t, l) ==
    /\ ~fatal /\ holder[i] # 0
    /\ t >= term[i] /\ (l => t > 0) /\ <<t, l>> # <<term[i], leads[i]>>
    /\ term' = [term EXCEPT ![i] = t]
    /\ leads' = [leads EXCEPT ![i] = l]
    /\ led' = IF l THEN led \cup {<<t, i>>} ELSE led
    /\ steady' = steady \ {i}
    /\ UNCHANGED <<lookFrame, at, look, verdict>>

\* One of the three is called, or checkOneLeader tries once more.
Look(kind) ==
    /\ ~fatal /\ at = "idle"
    /\ look' = [kind |-> kind, left |-> {i \in Server : connected[i]}, found |-> {}]
    /\ steady' = {i \in Server : connected[i]}
    /\ verdict' = None
    /\ at' = "looking"
    /\ UNCHANGED <<lookFrame, term, leads, led>>

\* GetState of one connected server after the other.
GetState(j) ==
    /\ ~fatal /\ at = "looking" /\ j \in look.left
    /\ look' = [look EXCEPT !.left = @ \ {j},
                           !.found = @ \cup {[term |-> term[j], leads |-> leads[j], server |-> j]}]
    /\ UNCHANGED <<lookFrame, at, term, leads, led, verdict, steady>>

Claims == {f \in look.found : f.leads}

\* Fault: any of the leaders is returned.
FaultyNewest(f) == f \in Claims

Newest(f) == f \in Claims /\ \A g \in Claims : g.term <= f.term

Found(v) ==
    /\ verdict' = v
    /\ at' = IF v.kind \in {"split", "differ", "a leader"} THEN "failed" ELSE "idle"
    /\ UNCHANGED <<lookFrame, term, leads, led, look, steady>>

\* checkOneLeader: two leaders in a term end the test, else the newest one is
\* returned; without any it looks again, or gives up.
CheckOneLeader ==
    /\ ~fatal /\ at = "looking" /\ look.kind = "one leader" /\ look.left = {}
    /\ \/ \E f, g \in Claims : /\ f.term = g.term /\ f # g
                              /\ Found([kind |-> "split", term |-> f.term])
       \/ \E f \in Claims : /\ \A g, h \in Claims : g.term = h.term => g = h
                            /\ Newest(f)
                            /\ Found([kind |-> "leader", term |-> f.term, server |-> f.server])
       \/ /\ Claims = {}
          /\ at' \in {"idle", "failed"}
          /\ UNCHANGED <<lookFrame, term, leads, led, look, verdict, steady>>

\* checkTerms fails at the first term that differs; -1 stands for no server.
CheckTerms ==
    /\ ~fatal /\ at = "looking" /\ look.kind = "terms"
    /\ \/ \E f, g \in look.found : f.term # g.term /\ Found([kind |-> "differ"])
       \/ /\ look.left = {}
          /\ \E f \in look.found : /\ \A g \in look.found : g.term = f.term
                                  /\ Found([kind |-> "term", term |-> f.term])
       \/ look.left = {} /\ look.found = {} /\ Found([kind |-> "-1"])

\* checkNoLeader fails at the first leader.
CheckNoLeader ==
    /\ ~fatal /\ at = "looking" /\ look.kind = "no leader"
    /\ \/ Claims # {} /\ Found([kind |-> "a leader"])
       \/ Claims = {} /\ look.left = {} /\ Found([kind |-> "no leader"])

-----------------------------------------------------------------------------
TestStep ==
    \/ \E i \in Server : Connect(i) \/ Disconnect(i) \/ \E again \in BOOLEAN : Crash(i, again)
    \/ DeleteServer \/ CopySaved \/ Killed
    \/ NewEnds \/ Prepare \/ MakeRaft \/ AddServer
    \/ \E n \in 1..Cardinality(Server), x \in Index :
          \/ Wait(n, x)
          \/ \E i \in Server, c \in Cmd : One(i, c, n, x)
    \/ \E j \in Server : Count(j)
    \/ Agreed \/ LookAgain \/ TimeUp \/ NoLeader
    \/ \E kind \in {"one leader", "terms", "no leader"} : Look(kind)
    \/ \E j \in Server : GetState(j)
    \/ CheckOneLeader \/ CheckTerms \/ CheckNoLeader

RaftStep ==
    \E i \in Server, b \in Boot :
        \/ Save(i, b)
        \/ \E j \in Server : Call(i, b, j) \/ Answer(i, b, j)
        \/ b = boot[i] /\ \E t \in 0..MaxTerm, l \in BOOLEAN : Turn(i, t, l)

ApplierStep ==
    \E i \in Server, b \in Boot :
        \/ \E n \in Index, c \in Cmd : Apply(i, b, n, c) \/ TakeMsg(i, b, n, c)
        \/ CheckMsg(i, b) \/ NoteMsg(i, b) \/ Fatalf(i, b)

Next == TestStep \/ RaftStep \/ ApplierStep

Spec == Init /\ [][Next]_vars

-----------------------------------------------------------------------------
(* Properties *)

Message == [index : Index, cmd : Cmd]

\* Every variable of the tester, the network and the instances keeps its type;
\* in particular lastApplied is an index or 0.
TypeOK ==
    /\ snapshot \in BOOLEAN /\ connected \in [Server -> BOOLEAN]
    /\ boot \in [Server -> Boot] /\ rafts \in [Server -> 0..MaxBoot]
    /\ saved \in [Server -> 0..MaxSave] /\ holder \in [Server -> 0..MaxBoot]
    /\ logs \in [Server -> [Index -> Cmd \cup {None}]]
    /\ lastApplied \in [Server -> 0..MaxIndex]
    /\ fatal \in BOOLEAN
    /\ enabled \subseteq Server \X Boot \X Server /\ servers \in [Server -> 0..MaxBoot]
    /\ state \in [Server -> [Boot -> 0..MaxSave]] /\ seen \in [Server -> 0..MaxSave]
    /\ applied \in [Server -> [Boot -> Seq(Message)]]
    /\ at \in {"idle", "cut", "deleted", "copied", "crashed", "named", "prepared", "made",
               "asking", "again", "looking", "failed"}
    /\ srv \in Server /\ restart \in BOOLEAN
    /\ hand \in [Server -> [Boot -> [at : {"idle", "taken", "checked", "error"},
                                     index : 0..MaxIndex, cmd : Cmd \cup {None},
                                     err : BOOLEAN]]]
    /\ stray \in BOOLEAN
    /\ term \in [Server -> 0..MaxTerm] /\ leads \in [Server -> BOOLEAN]
    /\ led \subseteq (0..MaxTerm) \X Server /\ steady \subseteq Server

\* Whatever the order of connect, disconnect, crash1 and start1: the end from
\* the instance of i to j is enabled exactly if both are connected, and no end
\* of an instance that was replaced is enabled.
LinksFollow ==
    \A i, j \in Server, b \in Boot :
        <<i, b, j>> \in enabled <=> b = boot[i] /\ connected[i] /\ connected[j]

\* crash1 cuts a server off before it copies the Persister, and start1 makes
\* the new ends after that: nothing a peer has heard of is missing from the
\* state that Make gets.
SavedSuffices == \A i \in Server : seen[i] <= saved[i]

InOrder(s) == \A k \in DOMAIN s : s[k].index = k

Applied ==
    {m \in Message : \E i \in Server, b \in Boot : \E k \in DOMAIN applied[i][b] : m = applied[i][b][k]}

\* All that was ever applied agrees, and each instance applied in order.
Sound ==
    /\ \A m, k \in Applied : m.index = k.index => m = k
    /\ \A i \in Server, b \in Boot : InOrder(applied[i][b])

\* The appliers end the test (log.Fatalf) only if the instances are at fault,
\* or if an applier of a killed instance was still at work on the lastApplied
\* that start1 had reset for the next one.
NoFalseAlarm == fatal => stray \/ ~Sound

Quiet == ~fatal /\ \A i \in Server, b \in Boot : hand[i][b] = Idle

\* checkLogs compares with what each server applied last only, across restarts:
\* still, once the appliers are idle, all that was ever applied agrees.
DisagreementCaught ==
    Quiet => \A m, k \in Applied : m.index = k.index => m.cmd = k.cmd

\* No gap stays unnoticed: an index was applied by a server only after the one
\* before; with applierSnap each instance applied 1, 2, ... in order, unless an
\* applier of a replaced instance interfered.
OrderCaught ==
    Quiet =>
        \A i \in Server :
            /\ \A n \in Index : logs[i][n] # None /\ n > 1 => logs[i][n - 1] # None
            /\ snapshot /\ ~stray => \A b \in Boot : InOrder(applied[i][b])

\* Although nCommitted lets go of the lock between two servers: what one or
\* wait returned was applied by as many servers as the test asked for, unless
\* an applier has found an error.
OneAgreed ==
    returned # None =>
        \/ \E i \in Server, b \in Boot : hand[i][b].err
        \/ Cardinality({j \in Server : logs[j][returned.index] = returned.cmd}) >= returned.n

\* The three checks ask one server after the other while roles and terms go on
\* changing.  Still: checkOneLeader finds two leaders in a term only if there
\* were, and returns one at least as new as every leader that stayed leader all
\* the time; checkNoLeader misses no such leader; and the term that checkTerms
\* returns is that of every server that kept its term.
ChecksSound ==
    verdict # None =>
        /\ verdict.kind = "split" =>
              \E i, j \in Server : i # j /\ {<<verdict.term, i>>, <<verdict.term, j>>} \subseteq led
        /\ verdict.kind = "leader" =>
              /\ <<verdict.term, verdict.server>> \in led
              /\ \A i \in steady : leads[i] => term[i] <= verdict.term
        /\ verdict.kind = "no leader" => \A i \in steady : ~leads[i]
        /\ verdict.kind = "term" => \A i \in steady : term[i] = verdict.term
=============================================================================
