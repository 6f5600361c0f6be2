------------------------------- MODULE KVRaft -------------------------------
(***************************************************************************)
(* The replicated key/value service of src/src/kvraft: the KVServers with  *)
(* their RPC handlers and appliers, the Clerks, and between them the part  *)
(* of raft.go that carries a committed entry to the service                *)
(* (applyCommittedEntries and applyCh).                                    *)
(*                                                                         *)
(* Elections and replication are those of module Raft, reduced to what the *)
(* service can tell: who believes to lead in which term, the log Start     *)
(* appends to, and the entries that are committed for good (clog).         *)
(***************************************************************************)
EXTENDS Naturals, Sequences, FiniteSets

CONSTANTS
    N,         \* number of servers
    Client,    \* the Clerks, each used by one goroutine
    Key,
    OpType,    \* of "Get", "Put" and "Append" the ones the Clerks use
    Nil,
    MaxOps,    \* bound: calls each Clerk makes
    MaxTerm,   \* bound: leaders elected
    MaxLog,    \* bound: length of a log
    MaxBoot,   \* bound: restarts of each server
    MaxLate    \* bound: abandoned handlers that have yet to call Start

ASSUME SizeAssumption ==
    /\ N \in Nat \ {0} /\ IsFiniteSet(Client) /\ Nil \notin Client
    /\ OpType \subseteq {"Get", "Put", "Append"}
ASSUME LimitAssumption ==
    /\ MaxOps \in Nat /\ MaxTerm \in Nat /\ MaxLog \in Nat
    /\ MaxBoot \in Nat /\ MaxLate \in Nat

Server == 0..(N - 1)     \* indices into Clerk.servers

VARIABLES
    \* what Raft shows to the service
    term, leads,        \* GetState()
    log,                \* the log of a peer that leads or has led
    clog,               \* the committed entries
    commitIndex,
    lastApplied,        \* Raft.lastApplied: entries handed to a sender
    appliers,           \* applyCommittedEntries goroutines at the loop head
    sending,            \* indices taken and not yet received from applyCh
    \* KVServer
    machine,            \* kvStore, lastApplied and lastResult
    lastAppliedIndex,
    notifyChans,        \* index -> the handler that registered last, or Nil
    boot,
    \* Clerk, and the one handler that serves its call
    seqNum, op, server, lastLeader,
    pc,                 \* idle, sent, checked, started, waiting
    wait,               \* index and term that Start returned
    result,             \* what the handler's channel holds, or Nil
    late,               \* handlers before Start whose Clerk has moved on
    \* history
    replies,            \* the calls that have returned, with their values
    overtaken           \* <<server, boot>> where an entry arrived out of turn

raftVars   == <<term, leads, log, clog, commitIndex>>
applyVars  == <<lastApplied, appliers, sending>>
serverVars == <<machine, lastAppliedIndex>>
clerkVars  == <<seqNum, op, server, lastLeader, pc, wait, replies>>
vars == <<raftVars, applyVars, serverVars, notifyChans, boot, clerkVars, result, late, overtaken>>

\* A value is the sequence of the writes it was put together from.
OpOf(t, k, c, n) == [type |-> t, key |-> k, client |-> c, seq |-> n]
Written(o) == <<<<o.client, o.seq>>>>

EmptyMachine ==
    [store |-> [k \in Key |-> Nil],
     lastSeq |-> [c \in Client |-> 0],
     lastResult |-> [c \in Client |-> <<>>]]

Init ==
    /\ term = [i \in Server |-> 0]
    /\ leads = [i \in Server |-> FALSE]
    /\ log = [i \in Server |-> <<>>]
    /\ clog = <<>>
    /\ commitIndex = [i \in Server |-> 0]
    /\ lastApplied = [i \in Server |-> 0]
    /\ appliers = [i \in Server |-> 0]
    /\ sending = [i \in Server |-> {}]
    /\ machine = [i \in Server |-> EmptyMachine]
    /\ lastAppliedIndex = [i \in Server |-> 0]
    /\ notifyChans = [i \in Server |-> [n \in 1..MaxLog |-> Nil]]
    /\ boot = [i \in Server |-> 0]
    /\ seqNum = [c \in Client |-> 0]
    /\ op = [c \in Client |-> Nil]
    /\ server = [c \in Client |-> 0]
    /\ lastLeader = [c \in Client |-> 0]
    /\ pc = [c \in Client |-> "idle"]
    /\ wait = [c \in Client |-> Nil]
    /\ result = [c \in Client |-> Nil]
    /\ late = {}
    /\ replies = {}
    /\ overtaken = {}

-----------------------------------------------------------------------------
(* Raft as the service sees it *)

\* Do l and the committed entries agree up to n?
Agrees(l, n) == Len(l) >= n /\ SubSeq(l, 1, n) = SubSeq(clog, 1, n)

LastElected == CHOOSE t \in {term[i] : i \in Server} : \A i \in Server : term[i] <= t

\* A peer wins an election of a new term.  This is where the correctness of Raft
\* is assumed: nobody else leads in that term, and the log has every committed entry
\* and, of the others, whatever reached it from an earlier leader.
Elect(i) ==
    /\ LastElected < MaxTerm
    /\ \E j \in Server : \E n \in Len(clog)..Len(log[j]) :
          /\ Agrees(log[j], Len(clog))
          /\ log' = [log EXCEPT ![i] = SubSeq(log[j], 1, n)]
    /\ term' = [term EXCEPT ![i] = LastElected + 1]
    /\ leads' = [leads EXCEPT ![i] = TRUE]
    /\ UNCHANGED <<clog, commitIndex, applyVars, serverVars, notifyChans, boot,
                   clerkVars, result, late, overtaken>>

\* A peer hears of a higher term.
StepDown(i) ==
    /\ \E j \in Server :
          /\ term[j] > term[i]
          /\ term' = [term EXCEPT ![i] = term[j]]
    /\ leads' = [leads EXCEPT ![i] = FALSE]
    /\ UNCHANGED <<log, clog, commitIndex, applyVars, serverVars, notifyChans, boot,
                   clerkVars, result, late, overtaken>>

\* tryAdvanceCommitLocked of a leader, which ends with go applyCommittedEntries.
\* What a replaced leader still commits its successor has, so that it may as
\* well be committed before the election.
Commit(i, n) ==
    /\ leads[i]
    /\ term[i] = LastElected
    /\ n > commitIndex[i]
    /\ log[i][n].term = term[i]
    /\ clog' = SubSeq(log[i], 1, n)
    /\ commitIndex' = [commitIndex EXCEPT ![i] = n]
    /\ appliers' = [appliers EXCEPT ![i] = @ + 1]
    /\ UNCHANGED <<term, leads, log, lastApplied, sending, serverVars, notifyChans, boot,
                   clerkVars, result, late, overtaken>>

\* A follower hears from a leader that entries up to n are committed; the
\* leader's term is at least that of the last of them.
Learn(i, n) ==
    /\ n > commitIndex[i]
    /\ ~leads[i] \/ term[i] < clog[n].term
    /\ commitIndex' = [commitIndex EXCEPT ![i] = n]
    /\ term' = [term EXCEPT ![i] = IF @ < clog[n].term THEN clog[n].term ELSE @]
    /\ leads' = [leads EXCEPT ![i] = FALSE]
    /\ log' = [log EXCEPT ![i] = IF Agrees(@, n) THEN @ ELSE SubSeq(clog, 1, n)]
    /\ appliers' = [appliers EXCEPT ![i] = @ + 1]
    /\ UNCHANGED <<clog, lastApplied, sending, serverVars, notifyChans, boot, clerkVars,
                   result, late, overtaken>>

\* Fault: lastApplied is advanced only after the entry was sent.
FaultyApplyTake(i) ==
    /\ appliers[i] > 0
    /\ lastApplied[i] < commitIndex[i]
    /\ sending' = [sending EXCEPT ![i] = @ \cup {lastApplied[i] + 1}]
    /\ appliers' = [appliers EXCEPT ![i] = @ - 1]
    /\ UNCHANGED <<lastApplied, raftVars, serverVars, notifyChans, boot, clerkVars, result,
                   late, overtaken>>

\* applyCommittedEntries takes the next index under rf.mu and releases it.
ApplyTake(i) ==
    /\ appliers[i] > 0
    /\ lastApplied[i] < commitIndex[i]
    /\ lastApplied' = [lastApplied EXCEPT ![i] = @ + 1]
    /\ sending' = [sending EXCEPT ![i] = @ \cup {lastApplied[i] + 1}]
    /\ appliers' = [appliers EXCEPT ![i] = @ - 1]
    /\ UNCHANGED <<raftVars, serverVars, notifyChans, boot, clerkVars, result, late, overtaken>>

\* applyCommittedEntries finds nothing to do and returns.
ApplyDone(i) ==
    /\ appliers[i] > 0
    /\ lastApplied[i] >= commitIndex[i]
    /\ appliers' = [appliers EXCEPT ![i] = @ - 1]
    /\ UNCHANGED <<raftVars, lastApplied, sending, serverVars, notifyChans, boot,
                   clerkVars, result, late, overtaken>>

-----------------------------------------------------------------------------
(* KVServer: the applier *)

\* executeOperation
Execute(store, o) ==
    CASE o.type = "Get"    -> store
      [] o.type = "Put"    -> [store EXCEPT ![o.key] = Written(o)]
      [] o.type = "Append" -> [store EXCEPT ![o.key] =
                                  (IF @ = Nil THEN <<>> ELSE @) \o Written(o)]

\* What it returns; ErrNoKey comes with the empty string.
ValueOf(store, o) == IF o.type # "Get" \/ store[o.key] = Nil THEN <<>> ELSE store[o.key]
ErrOf(store, o) == IF o.type = "Get" /\ store[o.key] = Nil THEN "ErrNoKey" ELSE "OK"

\* Fault: a request with the last sequence number counts as new.
FaultyDuplicate(m, o) == m.lastSeq[o.client] > o.seq

Duplicate(m, o) == m.lastSeq[o.client] >= o.seq

\* The state machine's part of applyCommand.
Applied(m, o) ==
    IF Duplicate(m, o)
    THEN m
    ELSE [store |-> Execute(m.store, o),
          lastSeq |-> [m.lastSeq EXCEPT ![o.client] = o.seq],
          lastResult |-> IF o.type = "Get"
                         THEN [m.lastResult EXCEPT ![o.client] = ValueOf(m.store, o)]
                         ELSE m.lastResult]

\* What applyCommand puts into a waiting handler's channel.
Outcome(m, o, t) ==
    [term |-> t,
     err |-> IF Duplicate(m, o) THEN "OK" ELSE ErrOf(m.store, o),
     value |-> IF Duplicate(m, o)
               THEN IF o.type = "Get" THEN m.lastResult[o.client] ELSE <<>>
               ELSE ValueOf(m.store, o)]

\* applyCommand passes over an entry at or below lastAppliedIndex.
Fresh(i, n) == n > lastAppliedIndex[i]

\* applier() receives the entry n that some applyCommittedEntries is sending
\* (senders that are blocked together are served in any order) and runs
\* applyCommand; the sender goes back to its loop head.
Deliver(i, n) ==
    LET o == clog[n].op
        h == notifyChans[i][n]
    IN  /\ n \in sending[i]
        /\ sending' = [sending EXCEPT ![i] = @ \ {n}]
        /\ appliers' = [appliers EXCEPT ![i] = @ + 1]
        /\ IF Fresh(i, n)
           THEN /\ lastAppliedIndex' = [lastAppliedIndex EXCEPT ![i] = n]
                /\ machine' = [machine EXCEPT ![i] = Applied(@, o)]
                /\ result' = IF h # Nil /\ result[h] = Nil
                             THEN [result EXCEPT ![h] = Outcome(machine[i], o, term[i])]
                             ELSE result
           ELSE UNCHANGED <<serverVars, result>>
        /\ overtaken' = IF n = lastAppliedIndex[i] + 1
                        THEN overtaken ELSE overtaken \cup {<<i, boot[i]>>}
        /\ UNCHANGED <<raftVars, lastApplied, notifyChans, boot, clerkVars, late>>

-----------------------------------------------------------------------------
(* Clerk and RPC handlers.  A Clerk has one call under way.  labrpc ends a   *)
(* call after its handler has returned, or while the handler still runs if   *)
(* the server has died or has been cut off.                                  *)

\* Get, Put or Append is called.
Invoke(c) ==
    /\ pc[c] = "idle"
    /\ seqNum[c] < MaxOps
    /\ seqNum' = [seqNum EXCEPT ![c] = @ + 1]
    /\ \E t \in OpType, k \in Key :
          op' = [op EXCEPT ![c] = OpOf(t, k, c, seqNum[c] + 1)]
    /\ server' = [server EXCEPT ![c] = lastLeader[c]]
    /\ pc' = [pc EXCEPT ![c] = "sent"]
    /\ UNCHANGED <<raftVars, applyVars, serverVars, notifyChans, boot, lastLeader, wait,
                   replies, result, late, overtaken>>

\* Fault: the index of the next server does not wrap around.
FaultyNextServer(c) ==
    /\ server' = [server EXCEPT ![c] = @ + 1]
    /\ pc' = [pc EXCEPT ![c] = "sent"]
    /\ UNCHANGED <<lastLeader, replies>>

\* The call fails, or its reply asks for another server: the loop goes round.
NextServer(c) ==
    /\ server' = [server EXCEPT ![c] = (@ + 1) % N]
    /\ pc' = [pc EXCEPT ![c] = "sent"]
    /\ UNCHANGED <<lastLeader, replies>>

\* The reply arrives with OK or ErrNoKey: the Clerk's method returns.
Return(c, value) ==
    /\ pc' = [pc EXCEPT ![c] = "idle"]
    /\ lastLeader' = [lastLeader EXCEPT ![c] = server[c]]
    /\ replies' = replies \cup {[op |-> op[c], value |-> value]}
    /\ UNCHANGED server

\* The handler returns err and value; the reply may be lost.
Reply(c, err, value) ==
    /\ wait' = [wait EXCEPT ![c] = Nil]
    /\ \/ err \in {"OK", "ErrNoKey"} /\ Return(c, value)
       \/ NextServer(c)

\* The request is lost, or its server is down.
LoseCall(c) ==
    /\ pc[c] = "sent"
    /\ NextServer(c)
    /\ UNCHANGED <<raftVars, applyVars, serverVars, notifyChans, boot, seqNum, op, wait,
                   result, late, overtaken>>

\* Get and PutAppend answer a request that was applied from the cache.
Receive(c) ==
    LET m == machine[server[c]]
    IN  /\ pc[c] = "sent"
        /\ IF Duplicate(m, op[c])
           THEN Reply(c, "OK", IF op[c].type = "Get" THEN m.lastResult[c] ELSE <<>>)
           ELSE /\ pc' = [pc EXCEPT ![c] = "checked"]
                /\ UNCHANGED <<server, lastLeader, wait, replies>>
        /\ UNCHANGED <<raftVars, applyVars, serverVars, notifyChans, boot, seqNum, op,
                       result, late, overtaken>>

\* waitForApply calls Start, which a peer that does not lead refuses.
StartOp(c) ==
    LET i == server[c]
    IN  /\ pc[c] = "checked"
        /\ IF leads[i]
           THEN /\ Len(log[i]) < MaxLog
                /\ log' = [log EXCEPT ![i] = Append(@, [term |-> term[i], op |-> op[c]])]
                /\ wait' = [wait EXCEPT ![c] = [index |-> Len(log[i]) + 1, term |-> term[i]]]
                /\ pc' = [pc EXCEPT ![c] = "started"]
                /\ UNCHANGED <<server, lastLeader, replies>>
           ELSE Reply(c, "ErrWrongLeader", <<>>) /\ UNCHANGED log
        /\ UNCHANGED <<term, leads, clog, commitIndex, applyVars, serverVars, notifyChans,
                       boot, seqNum, op, result, late, overtaken>>

\* The server is cut off while the handler runs and the Clerk moves on.  If
\* the handler was yet to call Start it still will; past Start it only waits
\* for a result that nobody wants.
Abandon(c) ==
    /\ pc[c] \in {"checked", "started"}
    /\ IF pc[c] = "checked"
       THEN /\ Cardinality(late) < MaxLate
            /\ late' = late \cup {[op |-> op[c], server |-> server[c]]}
       ELSE UNCHANGED late
    /\ wait' = [wait EXCEPT ![c] = Nil]
    /\ NextServer(c)
    /\ UNCHANGED <<raftVars, applyVars, serverVars, notifyChans, boot, seqNum, op, result,
                   overtaken>>

\* An abandoned handler calls Start.
LateStart(h) ==
    LET i == h.server
    IN  /\ late' = late \ {h}
        /\ IF leads[i]
           THEN /\ Len(log[i]) < MaxLog
                /\ log' = [log EXCEPT ![i] = Append(@, [term |-> term[i], op |-> h.op])]
           ELSE UNCHANGED log
        /\ UNCHANGED <<term, leads, clog, commitIndex, applyVars, serverVars, notifyChans,
                       boot, clerkVars, result, overtaken>>

\* waitForApply registers its channel, over that of any handler which waits
\* for the same index.
Register(c) ==
    /\ pc[c] = "started"
    /\ notifyChans' = [notifyChans EXCEPT ![server[c]][wait[c].index] = c]
    /\ result' = [result EXCEPT ![c] = Nil]
    /\ pc' = [pc EXCEPT ![c] = "waiting"]
    /\ UNCHANGED <<raftVars, applyVars, serverVars, boot, seqNum, op, server, lastLeader,
                   wait, replies, late, overtaken>>

\* Fault: waitForApply does not compare terms.
FaultySameTerm(r, w) == TRUE

\* The entry at the index is the handler's own if the term has not changed.
SameTerm(r, w) == r.term = w.term

\* waitForApply takes the result, or gives up after 500 ms; either way it
\* removes whatever channel is registered for its index.
Unregister(c) ==
    /\ notifyChans' = [notifyChans EXCEPT ![server[c]][wait[c].index] = Nil]
    /\ result' = [result EXCEPT ![c] = Nil]

Notified(c) ==
    /\ pc[c] = "waiting"
    /\ result[c] # Nil
    /\ IF SameTerm(result[c], wait[c])
       THEN Reply(c, result[c].err, result[c].value)
       ELSE Reply(c, "ErrWrongLeader", <<>>)
    /\ Unregister(c)
    /\ UNCHANGED <<raftVars, applyVars, serverVars, boot, seqNum, op, late, overtaken>>

Timeout(c) ==
    /\ pc[c] = "waiting"
    /\ Reply(c, "ErrTimeout", <<>>)
    /\ Unregister(c)
    /\ UNCHANGED <<raftVars, applyVars, serverVars, boot, seqNum, op, late, overtaken>>

\* The server dies and StartKVServer runs again: Raft has its log back from
\* the Persister, the service starts empty and is fed from index 1.  Calls it
\* was serving fail.
Restart(i) ==
    LET served == {c \in Client : server[c] = i /\ pc[c] \in {"checked", "started", "waiting"}}
    IN  /\ boot[i] < MaxBoot
        /\ boot' = [boot EXCEPT ![i] = @ + 1]
        /\ leads' = [leads EXCEPT ![i] = FALSE]
        /\ commitIndex' = [commitIndex EXCEPT ![i] = 0]
        /\ lastApplied' = [lastApplied EXCEPT ![i] = 0]
        /\ appliers' = [appliers EXCEPT ![i] = 0]
        /\ sending' = [sending EXCEPT ![i] = {}]
        /\ machine' = [machine EXCEPT ![i] = EmptyMachine]
        /\ lastAppliedIndex' = [lastAppliedIndex EXCEPT ![i] = 0]
        /\ notifyChans' = [notifyChans EXCEPT ![i] = [n \in 1..MaxLog |-> Nil]]
        /\ server' = [c \in Client |-> IF c \in served THEN (i + 1) % N ELSE server[c]]
        /\ pc' = [c \in Client |-> IF c \in served THEN "sent" ELSE pc[c]]
        /\ wait' = [c \in Client |-> IF c \in served THEN Nil ELSE wait[c]]
        /\ result' = [c \in Client |-> IF c \in served THEN Nil ELSE result[c]]
        /\ late' = {h \in late : h.server # i}
        /\ UNCHANGED <<term, log, clog, seqNum, op, lastLeader, replies, overtaken>>

-----------------------------------------------------------------------------
Next ==
    \/ \E i \in Server :
          \/ Elect(i)
          \/ StepDown(i)
          \/ ApplyTake(i)
          \/ ApplyDone(i)
          \/ Restart(i)
          \/ \E n \in 1..Len(log[i]) : Commit(i, n)
          \/ \E n \in 1..Len(clog) : Learn(i, n) \/ Deliver(i, n)
    \/ \E c \in Client :
          \/ Invoke(c)
          \/ LoseCall(c)
          \/ Receive(c)
          \/ StartOp(c)
          \/ Abandon(c)
          \/ Register(c)
          \/ Notified(c)
          \/ Timeout(c)
    \/ \E h \in late : LateStart(h)

Spec == Init /\ [][Next]_vars

-----------------------------------------------------------------------------
(* Properties *)

\* Types, and the order of the indices a committed entry passes on its way: what
\* the applier has seen was taken by a sender before, and only committed entries
\* are taken; a Clerk's server index stays within its array.
TypeOK ==
    /\ term \in [Server -> 0..MaxTerm]
    /\ leads \in [Server -> BOOLEAN]
    /\ \A i \in Server : Len(log[i]) <= MaxLog
    /\ Len(clog) <= MaxLog
    /\ \A i \in Server :
          /\ commitIndex[i] \in 0..Len(clog)
          /\ lastApplied[i] \in 0..commitIndex[i]
          /\ lastAppliedIndex[i] \in 0..lastApplied[i]
          /\ sending[i] \subseteq 1..lastApplied[i]
    /\ appliers \in [Server -> Nat]
    /\ notifyChans \in [Server -> [1..MaxLog -> Client \cup {Nil}]]
    /\ server \in [Client -> Server] /\ lastLeader \in [Client -> Server]
    /\ pc \in [Client -> {"idle", "sent", "checked", "started", "waiting"}]

(* What the service is to be: every request executed once, at the first of   *)
(* its copies in the committed log.                                          *)

FirstCopy(l, n) == \A m \in 1..(n - 1) : l[m].op # l[n].op

\* The store after each of the entries of l.
Stores(l) ==
    LET store[n \in 0..Len(l)] ==
            IF n = 0 THEN [k \in Key |-> Nil]
            ELSE IF FirstCopy(l, n) THEN Execute(store[n - 1], l[n].op)
            ELSE store[n - 1]
    IN  store

InTurn(i) == <<i, boot[i]>> \notin overtaken

\* A server whose applier received the entries in order holds what executing
\* every request once gives, whatever was retried, started twice, started late
\* by an abandoned handler or replayed after a restart.
ReplicaCorrect ==
    \A i \in Server :
        InTurn(i) => machine[i].store = Stores(clog)[lastAppliedIndex[i]]

\* The same without the condition: entries reach the state machine "in order",
\* as raft.go and applyCommand say.
ReplicasInOrder ==
    \A i \in Server : machine[i].store = Stores(clog)[lastAppliedIndex[i]]

\* A call returns only when its request is committed, and a Get returns what the
\* store held at that place of the log: no handler takes the result of another
\* request that came to stand at its index, and no cached result is stale.
Linearizable ==
    overtaken = {} =>
        \A r \in replies : \E n \in 1..Len(clog) :
            /\ clog[n].op = r.op
            /\ FirstCopy(clog, n)
            /\ r.value = ValueOf(Stores(clog)[n - 1], r.op)

\* Nothing is handed over twice and nothing is left out on the way from the log
\* to the service: the entries up to Raft's lastApplied are those applied and
\* those a goroutine is still sending.
NothingLost ==
    \A i \in Server :
        InTurn(i) => sending[i] = (lastAppliedIndex[i] + 1)..lastApplied[i]
=============================================================================
