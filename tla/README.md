# A TLA+ development for the 6.5840 labs in this repository

The repository (Go, `src/src/`) holds the MIT 6.5840 labs: a Raft library, a
replicated key/value service on top of it, a single-server key/value service, the
simulated network (`labrpc`) and checker (`porcupine`) of the course, and the
skeletons of MapReduce and of the sharded service. This directory models the parts
that carry distributed behaviour, checks them with TLC on small instances and proves
the central facts with TLAPS for every instance.

## 1. Inventory

| component | state | operations | interacts with | hard behaviour | correct when |
|---|---|---|---|---|---|
| `raft/raft.go`, `persister.go` | currentTerm, votedFor, log (persisted); role, commitIndex, nextIndex, matchIndex, lastApplied | `ticker`, `startElection`, `RequestVote`, `AppendEntries`, `Start`, `replicateToPeer`, `broadcastAppendEntries`, `applyCommittedEntries`, `persist`/`readPersist` | peers by RPC, the service by `Start` and `applyCh` | a goroutine per follower and per `Start`; late, lost and overtaking calls; crashes between and inside handlers; state read before an unlock | one leader per term; logs match; committed entries stay and are the same everywhere; nextIndex stays inside the log; a started entry commits |
| `kvraft/server.go`, `client.go` | kvStore, lastApplied/lastResult per client, lastAppliedIndex, notifyChans; Clerk: seqNum, lastLeader | `Get`, `PutAppend`, `waitForApply`, `applier`/`applyCommand`; Clerk loop | Raft below, Clerks by RPC | index reused by another leader's entry; a handler whose Clerk has gone on; two senders on `applyCh`; replay after a restart | every request executed once; a call returns what the log says |
| `kvsrv` | data, lastRequest per Clerk | `Get`, `Put`, `Append`; Clerk retry | Clerks by RPC | lost replies and repeated requests | linearizable |
| `labrpc` | ends, enabled, connections, servers, reliable, longReordering, done; a goroutine that takes requests and one per call | `Call`, `processReq`, `MakeEnd`, `DeleteEnd`, `Enable`, `DeleteServer`, `AddServer`, `Cleanup` | everything above | a server killed and restarted while its handler runs; an end deleted, or the network destroyed, under a call | no positive reply from a dead incarnation; every call returns |
| the Raft tester (`raft/config.go`) | connected, endnames, saved, rafts, logs, lastApplied; an applier goroutine per instance | `connect`, `disconnect`, `crash1`, `start1`, `applier`, `applierSnap`, `checkLogs`, `one`, `wait`, `nCommitted`, `checkOneLeader`, `checkTerms`, `checkNoLeader` | labrpc, the instances under test | steps between locks; killed instances that go on applying, saving and calling; answers gathered one by one | links follow connect and disconnect; nothing a peer has heard of is lost in a crash; no false alarm and no missed error; questions answered rightly |
| the other testers (`*/config.go`) | saved Persisters, end names, Clerks | `ShutdownServer`, `StartServer`, `makeClient`, `deleteClient`, `partition` | labrpc | order of `DeleteServer` and replacing the Persister | nothing acknowledged is lost |
| `porcupine`, `models` | a search per partition: linked list, stack, cache; kill flag, answers | `checkOperations`, `checkSingle`, `checkParallel`; `KvModel` | used by tests | a search with memoisation and undo; goroutines killed by a timeout or by each other | agrees with the definition of linearizability; ends |
| `shardctrler`, `shardkv` | Clerk: config, seq | Clerk retry loops; servers are empty stubs | labrpc | retry across groups | (not implemented) |
| `labgob`, `mr`, `mrapps`, `main` | – | encoding wrapper; course skeletons | – | – | – |

The hazards, each with its line and the properties that watch it, are listed in
`PROJECT.json`.

## 2. Plan

In this order, most important first.

1. `Raft` – the whole peer, with persistence, crashes and the network. *Done.*
2. `KVRaft` – the service over what Raft shows to it. *Done.*
3. `KvSrv` as an implementation of `AtomicKV`. *Done.*
4. `Labrpc` with the testers' kill and restart. *Done.*
5. Proofs: types, election safety, revotes, nextIndex (Raft); refinement (KvSrv);
   surviving acknowledgements (Labrpc). *Done.*
6. Proofs of LogMatching, MatchIndexIsTrue, LeaderCompleteness, StateMachineSafety
   and CommittedStays of Raft under their hypotheses. *Done.* The abstract
   specification `CommittedLog` and the proof that Raft implements it. *Done.*
7. Proofs of all safety properties of `KVRaft`. *Done.*
8. `Porcupine` against the definition of linearizability, with proofs of all its
   safety properties for every history. *Done.*
9. `Tester` – the Raft tester (`raft/config.go`) around instances that may do
   anything, with proofs of all its properties. *Done.*
10. The rest of `labrpc`: ends that are made and deleted, and `Cleanup`. *Done.*
11. The Clerks of `shardctrler` and `shardkv`. *Dropped*: see section 7.

## 3. Modules

| module | models | checked by |
|---|---|---|
| `Raft` | `raft/raft.go` | `MCRaft`, `MCRaftDiverged`, `MCRaftLive`; `RaftProofs`, `RaftLogProofs`, `RaftCommitProofs` |
| `CommittedLog` | what Raft promises to the service: one log that only grows, of which every peer hands over a beginning | through `RaftCommits!OneLogForever` |
| `RaftCommits` | `Raft` with a record of what was ever committed, and its mapping to `CommittedLog` | `MCRaftDiverged`; `RaftCommitProofs` |
| `KVRaft` | `kvraft`, and `applyCommittedEntries` of `raft.go` | `MCKVRaft`; `KVRaftProofs` |
| `KvSrv` | `kvsrv` | `MCKvSrv`; `KvSrvProofs` |
| `AtomicKV` | what `kvsrv` promises: one atomic step between call and return | through `KvSrv!Linearizable` |
| `Labrpc` | `labrpc/labrpc.go`, with `ShutdownServer`, `StartServer` of `kvraft/config.go` and `makeClient`, `deleteClient` of `kvsrv/config.go` | `MCLabrpc`; `LabrpcProofs` |
| `Porcupine` | `porcupine/checker.go`, `bitset.go` and `models/kv.go` | `MCPorcupine`; `PorcupineProofs` |
| `Tester` | `raft/config.go`, with what it uses of `labrpc.go` and `persister.go` | `MCTester`; `TesterProofs` |

Operators whose name begins with `Faulty` are wrong versions of the definition that
follows them: each stands for a plausible bug, and replacing the definition by it makes
TLC find the property named in `PROJECT.json` violated.

### Raft

One action is one critical section under `rf.mu`. `currentTerm`, `votedFor`, `log`,
`commitIndex`, `nextIndex`, `matchIndex` are the fields of the struct; the sentinel
`log[0]` is not stored, so that `log[i][n]` is the code's `log[n]`. `persister` is what
`persist()` saved last. `votes` is the local variable of the peer's current
`startElection`, as the set of voters. `replicators[i][j]` counts the `replicateToPeer`
goroutines of leader `i` for follower `j` at their loop head; one that waits for a reply
is the request or reply in `net`. `won`, `cast` and `heard` record history.

| action | code |
|---|---|
| `ElectionTimeout`, `TickerPause`, `StaleTimeout`, `StaleRest` | `ticker`, `becomeCandidateLocked`, the sending half of `startElection` |
| `RejectStaleVote`, `RequestVote` | `RequestVote` |
| `VoteReply`, `WinElection` | the goroutines and the waiting half of `startElection`, `becomeLeaderLocked` |
| `Start` | `Start` |
| `Heartbeat`, `HeartbeatReplied` | `broadcastAppendEntries` |
| `SendEntries`, `ReplicatorDone`, `AppendReply` | `replicateToPeer`, `tryAdvanceCommitLocked` |
| `RejectStaleAppend`, `AppendEntries` | `AppendEntries` |
| `Restart`, `CrashInHandler` | the testers' `crash1` and `start1`, `Make`, `readPersist` |

Reductions, and why they lose nothing the properties see:

* **Losses.** A request that is lost is never put into `net`, a reply that is lost is
  never sent (`Consume`); only a lost call of `replicateToPeer` has an effect, the
  goroutine's return to its loop head. Calls are never duplicated, as in `labrpc`.
* **Replies without effect** are not sent: a refused vote or an accepted heartbeat
  whose term is not higher, a reply to a goroutine that will return at once.
* **`becomeCandidateLocked` and `startElection`** are one step: between them the peer
  holds nothing but the new term and its own vote, and an election that is overtaken
  by a step in between sends nothing – a case the model has when no request reaches anybody.
* **`ticker`** reads the role in one critical section and acts in another. Normally
  both are one step; `MaxStale` tickers may be paused in between.
* **Broadcasts** go to one peer at a time; a broadcast is a sequence of such steps.
* **`boot`** travels in requests: a reply for a dead incarnation finds nobody.

Timers are not modelled: a timeout may happen at any time.

### KVRaft

**Hypothesis.** What is checked and proved of `KVRaft` is about the service over a Raft that
keeps its promises: one leader per term, a new leader has all that is committed (`Elect`),
and what is committed stays (`clog` only grows). `raft.go` as it stands does not always
(`raft_one_leader`, `raft_batch`); it does, by the theorems about `Raft`, as long as
no peer votes twice in a term and logs fit into one AppendEntries call. The defects
that the service would inherit from Raft beyond that are not repeated here.

Raft is reduced to what the service can tell: `term` and `leads` (GetState), the log
`Start` appends to, the committed entries `clog`, and `commitIndex`. A new leader has all
committed entries and any part of what reached it of the others; an old leader may go on
leading in its term and accept requests. Entries a deposed leader still commits are
committed before the election instead, which no server can distinguish.
`applyCommittedEntries` is modelled in full, because its goroutines send outside the
lock: `ApplyTake` advances lastApplied, `Deliver` is the rendezvous on `applyCh` together
with `applyCommand`. A handler is followed from the check for duplicates (`Receive`)
through `Start` (`StartOp`), the registration of its channel (`Register`) to its end
(`Notified`, `Timeout`). labrpc may end a call while its handler runs (`Abandon`): a
handler that has yet to call `Start` still does (`late`, `LateStart`); one past it can
only wait, time out and delete a channel, which costs another handler a timeout and
which `Timeout` allows anyway. A value is the sequence of writes it consists of, so that a
request executed twice or in the wrong order shows. The reference is `Stores(l)`, the store
after every entry of `l` when a request is executed at its first copy (`FirstCopy`) only.

### KvSrv and AtomicKV

A handler is one step under `kv.mu`. A lost reply (`LoseReply`) makes the request arrive
again; a lost request is a request that has not arrived yet. `AtomicKV` executes every
operation in one step between call and return; `KvSrv!Linearizable` says that `KvSrv`
implements it, where the operation takes effect when the handler first executes it
(for a Get: when the answer that is returned was computed).

### Labrpc

One step lies between two looks at the Network. Incarnations of a server are numbered
and 0 is `nil`, so that the comparison of `*Server` pointers in `isServerDead` is one of
numbers. A handler is reduced to one write to the Persister of its incarnation; `holder`
is the incarnation whose Persister is `cfg.saved[i]`, so a write of any other is lost.
`longReordering` and the random delays are the freedom to take a step late. A `Call`
waits at its `select` (`calling`) until the goroutine of `MakeNetwork` takes the request
or `done` is closed; that goroutine may take a few more requests after `Cleanup` and then
ends (`LoopEnds`). A name is given to one end only, since names are random; a Clerk may
go on calling through an end that was deleted. A tester does nothing after its `cleanup`.

### Tester

The tester is the program here, and Raft its environment: an instance may save a state,
make and answer calls, change its role, and apply any command at any index whenever it
likes, after `Kill` too (`Kill` only sets a flag). So what is shown holds for any Raft the
tester is used on. One step is one critical section under `cfg.mu`, or what lies between
two of them. `<<i, b, j>>` stands for the random name `endnames[i][j]` of incarnation `b`.

| action | code |
|---|---|
| `Connect`, `Disconnect` | `connect`, `disconnect` |
| `Crash`, `DeleteServer`, `CopySaved`, `Killed` | `crash1` |
| `NewEnds`, `Prepare`, `MakeRaft`, `AddServer` | the rest of `start1`, which calls `crash1` first |
| `Save` | `Persister.Save`, into the saved Persister or one that was replaced |
| `Call`, `Answer` | a peer hears of an instance's state, as far as `readEndnameInfo` and `isServerDead` of labrpc allow |
| `Apply` | one round of `applier`, with `checkLogs` |
| `TakeMsg`, `CheckMsg`, `NoteMsg` | one round of `applierSnap`: lastApplied is read without the lock, `checkLogs` and the assignment have one each |
| `Fatalf` | `log.Fatalf`: the process ends |
| `One`, `Wait`, `Count`, `Agreed`, `LookAgain`, `TimeUp`, `NoLeader` | `one`, `wait`, `nCommitted` |
| `Look`, `GetState`, `CheckOneLeader`, `CheckTerms`, `CheckNoLeader` | the three checks |

A state that an instance saves is a number, later ones being larger; `seen` is the newest
that a peer may know. `stray` records that an applier of a replaced instance has touched
`lastApplied`; `led` who led in which term, `steady` the servers that have not changed since
the check began. `for`-loops over servers take them in any order. The tests connect only
servers that run, which is the guard of `Connect`. `connect` and `disconnect` switch the
ends one by one and are one step each: a call in between finds its own end on or off, as it
would before or after that step, and `LinksFollow` is about the moments between
the tester's operations.

### Porcupine

One call of `CheckOperations`, `CheckOperationsTimeout` or `CheckOperationsVerbose`
(`verbose`, `timer`). A step of a `checkSingle` goroutine is one turn of its loop: only
the kill flag is shared, and it is read once per turn. The linked list keeps its `next`
and `prev` pointers and `lift` and `unlift` assign them in the code's order, because the
undo relies on the links of nodes that are no longer in the list. The bitset is the set of
operations on the stack and the cache the set of combinations, whatever their hashes.
`sort.Sort` is not stable: `MakeEntries` is every order `byTime` allows. The reference,
`Linearizable(h)`, knows neither partitions nor `KvModel` nor the search: it asks for an
order of the whole history `h`, legal for a store with all the keys, that respects real
time.

## 4. Runs

Bounds are constants of the modules (`Max...`), all given in the `.cfg`.

| run | bounds | shows |
|---|---|---|
| `raft_election` | 3 peers, 2 terms, 2 messages (1 in term 2 of a disturbed run), a restart of one peer or a paused ticker | `TypeOK`; `ElectionSafety`; `RevoteNeedsAppend` |
| `raft_logs` | 3 peers, from two initial states. *Orphans*: conflicting logs, terms 3 and 4, 2 log slots, 2 messages once term 3 is won and 1 in term 4, a restart that makes everyone forget what was committed. *Race*: one peer has an entry the others lack, a leader of term 2 starts 2 commands, 3 log slots, 2 messages | `StateMachineSafety`, `LeaderCompleteness` (current-term rule), `LogMatching`, `OneLogForever`; with two replicators per follower `NextIndexInRange`, `MatchIndexIsTrue`, `CommittedStays` |
| `raft_progress` | a leader of term 1, 1 entry, 2 messages, fairness | `StartedCommits`, `CommitSpreads` |
| `raft_one_leader` | as elections, 3 messages | **violated**: two leaders in one term |
| `raft_batch` | stale tail, batches of 1 | **violated**: two peers commit different entries |
| `kv_failover` | 2 servers, 2 Clerks, 2 terms, 2 log slots | `Linearizable` across a change of leader, `TypeOK` |
| `kv_replay` | 2 servers, 1 Clerk with 2 calls, 3 log slots, 1 restart each, 1 late handler | `ReplicaCorrect`, `NothingLost` |
| `kv_order` | 2 servers, 2 Clerks, 1 term | **violated**: entries applied out of order |
| `kvsrv_atomic` | 2 goroutines, 2 keys, 2 values, 2 calls each | `Linearizable` (refinement of `AtomicKV`), `TypeOK` |
| `porcupine` | up to 3 operations on 1 or 2 keys, times 1..2 (most operations overlap or tie), fairness | `ListIntact`, `VerdictCorrect`, `PartialsLegal`, `Terminates` |
| `labrpc` | 2 calls, 2 ends, 2 incarnations, 2 cuts (a switch of an end or of reliability, a deleted end, the cleanup), fairness | `AckedSurvives`, `CallReturns`, `HandlerEnds`, `TypeOK` |
| `tester` | 2 servers, 2 incarnations, 2 saved states, 2 commands, 2 indices, 3 messages, 2 terms | `TypeOK`, `LinksFollow`, `SavedSuffices`, `NoFalseAlarm`, `DisagreementCaught`, `OrderCaught`, `OneAgreed`, `ChecksSound` |

Why the bounds are enough to be of interest: three peers are the smallest cluster
with a majority that is not everyone; two messages let one call overtake another, three
let a second leader's call stand between two of the first; two terms give an old and
a new leader; `TwoOrphansInit` has logs it takes two terms to build, so that
terms 3 and 4 decide which orphan survives (the case the current-term rule is for).
There a leader starts one command and has one `replicateToPeer` goroutine per follower.
From `RaceInit` it has two: both may have calls under way to one follower, back off from
one nextIndex, and overtake each other. The faulty versions of `BackOff`, `NewMatch` and
`MergedLog` need that: with a single Start TLC finds none of them.
Every bound was chosen so that the faulty versions are caught. What TLC cannot reach
is covered where a theorem exists (section 6). Two servers in the `kv_` runs suffice
because Raft is abstract there: no majority is counted. In `tester` they suffice because
the tester compares servers in pairs; all its properties are also proved.

**Constraints.** `LogsSpec` of `raft_logs` bounds its steps: `OneRestart` (from
`TwoOrphansInit`) allows the second message only when there is a
leader of term 3 and nobody was restarted: a call of that leader can be late there, and
term 4 is for the election that decides. `Forgets` leaves of all restarts those that
make the last peer forget what was committed; other restarts are in `raft_election`,
and the theorems are about all.
`TwoStarts` (from `RaceInit`) lets a leader start two commands, also one whose log was empty.
`Parts` in `tester` looks at four parts of the tester that share little state without the
noise of the others: links and Persisters, appliers across a restart, `one` and `wait`
against appliers, the checks of leaders. `Mirror` in `labrpc` gives the end that the first
call uses its name, since ends differ in nothing else.

**Conditional properties.** A peer can vote twice in a term (below). The log properties
are therefore stated under `NoRevote`; `RecordedNext` cuts a behaviour only where
that hypothesis is false, so nothing claimed is left unexplored. In the same way
`ReplicaCorrect`, `NothingLost` and `Linearizable` of KVRaft are about servers whose
entries arrived in order, and `CONSTRAINT AllInTurn` cuts where one did not.
`OneDisturbance` in `raft_election` keeps restarts and paused tickers apart, and with
either of them allows one call under way after the first term; the theorems have no
such restriction.

**Initial states.** `MCRaftDiverged` starts after a power cycle of every peer, in states
`Init` leads to; the comments there say how. `MCRaftLive` starts with an elected leader.

`CHECK_DEADLOCK FALSE` is set everywhere because with bounded terms, logs and calls
every behaviour comes to an end.

**Symmetry and views.** Peers and Clerks are interchangeable and the safety runs use
that; runs with liveness properties do not. The `VIEW`s leave out what no step reads before it is
overwritten (nextIndex of a peer that does not lead, say); that of `raft_logs` also leaves
out `heard`, a record that no step and no property of that run reads.

### What the violated runs show

* `raft_one_leader`: `AppendEntries` calls `becomeFollowerLocked` for an equal term too
  (`raft.go:557`), which sets `votedFor = -1` (`:429`) and saves it. A peer that voted
  for A, and has accepted a heartbeat of A in that term, grants B's late RequestVote of the same term:
  two leaders. `raft/README.md:14` promises a unique leader, `raft.go:88` no repeated vote.
* `raft_batch`: rule 5 bounds `commitIndex` by the end of the follower's log (`:629`);
  the comment above (`:626`) says the index of the last new entry. A batch that ends
  before a stale tail commits the tail.
* `kv_order`: two `applyCommittedEntries` goroutines send on `applyCh` in the wrong
  order (`:817`); `applyCommand` then drops the older entry for good (`server.go:250`).

Two more defects are left out of the properties that name them, and stated here:

* `checkParallel` compares the number of answers with the number of partitions only after
  an answer (`checker.go:357`). An empty history has no partition: without a timeout the
  check waits for ever, and `Terminates` asks for a timer or an operation. The tests
  always set a timeout.
* The applier of a killed instance may still be at work when `start1` resets `lastApplied`
  (`config.go:405`); it compares its next message with the new value or overwrites it
  (`:340`, `:355`), and the test ends although Raft made no error. `NoFalseAlarm` exempts
  this case (`stray`), and says that there is no other false alarm.

## 5. Fairness

`MCRaftLive` assumes strong fairness of the sends and of being answered for the leader's
calls – `replicateToPeer` retries every 50 ms and `ticker` broadcasts every 100 ms, and
the network loses a call with probability below one, so that a call repeated for ever is
answered; it is strong because other messages may fill the bounded network in between –
and weak fairness of delivery. Nothing is assumed of election timers: a peer may
depose the leader at any time, which the properties allow for.

`Labrpc` assumes weak fairness of the goroutines of `Call`, `processReq` and the drain, and
that a handler of a live server returns (handlers here wait at most 500 ms). Nothing is
assumed of handlers of killed servers nor of the tester.

`Porcupine` assumes weak fairness of every goroutine and of the main loop; its `select`
may take the timer although answers are there, and a timer that was set goes off. Without
a timer an empty history is never answered; `Terminates` is about all other checks.

## 6. Proofs

All proofs are for arbitrary values of the constants, under the named assumptions:
`ServerAssumption`, `BoundAssumption` (Raft: finitely many peers, `Nil` is none of
them, numeric bounds), `SizeAssumption`, `LimitAssumption` (KVRaft: a server, finitely
many Clerks, the three operations, numeric bounds), `ClerkAssumption`, `NilAssumption`, `MaxReqAssumption` (KvSrv),
`LabrpcAssumption` (every end is connected), `TesterAssumption` (finitely many servers),
`PorcupineAssumption`, `NilAssumption` (Porcupine: a history is finite, no operation
returns before its call, and values are strings; `Nil` is no node and no verdict).

* **Raft** (`RaftProofs`).
  * `RaftTypeCorrect`: `[]TypeOK`. Inductive with `NextPositive`: nextIndex of a
    leader is at least 1, or `prevLogIndex` would leave the naturals.
  * `RaftRevote`: `[]RevoteNeedsAppend`. The invariant `VoteInv` says that the Persister
    agrees with memory between critical sections, that `votedFor` names every candidate
    that got the peer's vote in its current term unless an AppendEntries was accepted in
    it, and that two votes of one term imply that. Persistence is what carries it over
    `Restart` and `CrashInHandler`.
  * `RaftElectionSafety`: `[]ElectionSafety`. `ElectionInv`: every granted reply under
    way and every counted vote was cast, and a won term had a majority of casts; two
    majorities intersect (proved from cardinalities), and with `NoRevote` the common
    voter's candidates are the same.
  * `RaftNextIndex`: `[]NextIndexInRange`. `LeaderInv`: requests and successful replies under way from
    the leader of a term are within that leader's log, which only grows while it leads;
    this needs that no peer leads a term it did not win.
  * `RaftLogMatching`, `RaftMatchIndex` (`RaftLogProofs`). The variables do not say what a
    deposed leader once had, so the invariant `LogHistory` says that there are two
    histories: `H[t]`, the log the leader of term t had as long as it led, and `A[v][t]`,
    the indices up to which `v` has told that leader that their logs agree. Every log
    follows `H` (each entry stands where the leader of its term put it, after what that
    leader had before it), a call under way is a slice of `H`, a matchIndex or a positive
    reply is in `A`, and a peer keeps what is in `A` unless a later leader without it
    was elected. A step extends the histories by the leaders there are after it and by
    the call that was accepted (`HistoryStep`, `AckStep`), and `GoodStep` is what each
    action does to logs, terms and calls.
  * `RaftLeaderCompleteness`, `RaftStateMachineSafety`, `RaftCommittedStays`
    (`RaftCommitProofs`). `CommitHistory` adds what a vote says: a candidate has every
    entry of its own term that the voter had reported to an earlier leader, unless a
    leader in between had lost it (`Ballots`; `Mandates` for the terms that were won).
    It also adds what a commit index stands for: an entry of some term that a majority
    had reported to the leader of that term (`CommitOK`). If a later leader lacked such an
    entry there would be a least one; a majority elected it and a majority reported the
    entry, and the common voter contradicts that none before it lacked the entry. The
    least one exists by counting, since induction is out of reach.
  * These three have the hypothesis `KeepsRuleFive`: where a follower advances its
    `commitIndex`, it does so to min(leaderCommit, index of the last new entry), which is
    what the comment above rule 5 says. The code does not where a batch ends before a
    stale tail, and `raft_batch` shows that safety is lost there, so that some such
    hypothesis is needed. In `raft_logs` it holds from `TwoOrphansInit`; from `RaceInit` it
    does not, with batches of one entry, where an overtaken call ends before entries of the
    same leader that its follower has already, and the properties hold all the same.
    `RaftShortLogs` proves
    it from `MaxLog <= MaxEntries`: as long as one call can hold a whole log (100
    entries in the code), a call always reaches the index it lets its follower commit.
    `RaftShortLogsSafe` states the three properties for that case, of the code as it is.
  * `RaftOneLogForever`: Raft implements `CommittedLog`. `commitIndex` is not saved, so
    that after restarts nobody may know what was committed and handed to the services;
    state machine safety, which compares peers at one moment, says nothing about it.
    `RaftCommits` therefore adds the history variable `clog`, the longest log that a
    peer ever took for committed (`Record` is possible with every step, since there are
    finitely many peers), and maps what each peer hands over to a beginning of it. The
    invariant `RecordInv` says that histories which explain the votes and the commits
    explain `clog` too. What a majority reported stays reported (`CommittedStill`), and any two
    committed beginnings agree (`BeginningsAgree`). A step moves one commit
    index at most (`OnePeerCommits`), and is then a `Commit`, a `Learn` or a `Restart` of
    that peer. The hypotheses are the same two, with `RaftShortLogsForever` for logs
    that one call can hold.
* **KVRaft** (`KVRaftProofs`), over a Raft that keeps its promises (section 3).
  `KVRaftTypeCorrect`, `KVRaftNothingLost`,
  `KVRaftReplicaCorrect`, `KVRaftReturned`, `KVRaftLinearizable`, from the invariant `KVInv`:
  * `ServiceInv`: a term has one leader, the newest leader has all that is committed,
    every leader what it takes for committed; a Clerk's request carries its own sequence number;
    lastAppliedIndex, lastApplied and commitIndex are in order, and the entries between
    the first two are being sent.
  * `OpsInv`: client and sequence number tell the request, in every log, call and table.
  * `HandlerInv`: a channel in notifyChans belongs to the handler that waits at that index,
    and as long as the server leads the handler's term, the entry there is the handler's.
  * `CommittedInv`: what a duplicate table knows, and what a Clerk may return, is committed.
    This part holds even where entries have overtaken each other (`KVRaftReturned`).
  * `OrderInv`: in the committed log, and in every log that holds all of it, a request comes
    after all earlier ones of its Clerk. Without it one sequence number per Clerk would
    not do to tell copies.
  * `Replicas`, `Answers`: the store is `Stores(clog)` at lastAppliedIndex, each kept result
    is the one of the last request of its Clerk up to there, and a result on its way
    to a Clerk is the one at the request's first copy.
  * That `Stores` is the store it is defined to be needs an induction over the log; its
    place is taken by `Greatest` (a bounded set of naturals has a greatest element, by
    counting), applied to the indices up to which a partial solution exists.
* **KvSrv** (`KvSrvProofs`). `KvSrvTypeCorrect`; `KvSrvIdsInStep`, the invariant that
  relates request ids, `lastRequest` and replies when no Clerk is shared;
  `KvSrvLinearizable`, the refinement: initial states map to initial states and every
  step to a step of `AtomicKV` or a stutter. That no Clerk is shared is a hypothesis of
  the theorems: with two requests outstanding the one remembered request does not suffice.
* **Labrpc** (`LabrpcProofs`). `LabrpcTypeCorrect`; `LabrpcAckedSurvives`. The invariant:
  a registered incarnation holds the Persister that counts, and a handler that has
  returned while its incarnation is still registered has written to it. A new
  incarnation's number is one no call has read, so that "still registered" cannot become true again.

* **Tester** (`TesterProofs`), with nothing assumed
  of the instances.
  * `TesterLinksFollow`, `TesterSavedSuffices` from `LinkInv`. Its parts beside the two:
    where `crash1` and `start1` are (`Place`), and that only the current incarnation is
    connected, registered or stored, and then holds the saved Persister (`Current`). That
    is why what a peer hears was saved: a step that reaches a peer needs an enabled end or
    a registered server, and both are gone before the Persister is copied.
  * `TesterDisagreementCaught` from `LogInv`: as long as no applier has found an error, all
    records of an index agree, no index is without the one before, and every message ever
    applied is still recorded, but for one an applier has just taken. A record is then
    only ever overwritten by itself, which is why comparing with the last one suffices.
  * `TesterNoFalseAlarm`, `TesterOrderCaught` from `AlarmInv`, which adds that, unless an
    applier was stray, `lastApplied` is the number of messages the current incarnation has
    applied, but for the one in hand, and that an error has a cause in what was applied.
  * `TesterOneAgreed` from `AskInv`: as long as there is no error, at least `count` of the
    servers that `nCommitted` has passed have its command (`Lasting`: errors and records stay).
  * `TesterChecksSound` from `LookInv`: one answer per server, a leader's is in `led`, and
    that of a server that has not changed is true still.
  * `TesterTypeCorrect` from these together.

* **Porcupine** (`PorcupineProofs`), for any set of finite histories, any keys, any
  order of the goroutines' steps and any moment of the timeout.
  * `PorcupineSearches` is the inductive invariant of the searches. The stack is cut at
    every depth j: `Left(s, c, j)` is what the list held when j operations were taken,
    `Val` the value then, `Cur` the call that was taken next. `Chain`: the operations
    taken fit their values. `Links`: the links run through what is left, and those of an
    operation that was lifted still point to its neighbours at its own depth; this is
    what `unlift` relies on. `Explored`: at every depth the search has passed over calls
    only, and each one that would fit is `Dead`, that is, no linearization of the whole
    history takes these operations of the key first and leaves it with this value.
    `Cached`: what is in the cache is `Dead` or on the stack.
  * `PorcupineListIntact`: `[]ListIntact`, from `Links` and `Standing`. `lift` and
    `unlift` are each split into the removal or return of one node.
  * `PorcupinePartialsLegal`: `[]PartialsLegal`. What is noted is a stack, the stack is
    legal by `Chain`, and it respects real time because no return was passed over.
  * `PorcupineVerdictCorrect`: `[]VerdictCorrect`, in both directions. *Illegal*: at a
    return, take the last place at which a linearization has taken exactly the operations
    on the stack. The operation of the key that comes next in it was called before
    that return, so it is among the calls passed over, all `Dead` (`DeadEnd`). Hence
    backtracking preserves the invariant, and with an empty stack there is no
    linearization. *Ok*: every search has an order of its key's operations
    (`Solution`); they are merged by taking again and again the key whose remaining
    operations hold the least return time (`Merged`). That this respects real time over
    all keys is the locality of linearizability, on which checking partitions one by one
    rests. `Answers` says what the counted results, the kill flag and the timeout tell of
    the searches: a killed one's `false` is never looked at, or comes too late to count.
  * There is no induction over data in these proofs. `Greatest` and `Least` give
    extremal elements of sets of naturals by counting, and the recursive functions
    `Stores` and `MakeEntries` are shown to solve their equations up to every index.

Only model-checked: all liveness (`StartedCommits`, `CommitSpreads`, `CallReturns`,
`HandlerEnds`, `Terminates`), because fairness and ENABLED are beyond the proof system.

## 7. Not modelled

* `Snapshot`, `applySnapshot`, `maxraftstate`: stubs in the code. `ingestSnap` of the Raft
  tester cannot be reached for that reason: no snapshot is saved or delivered.
* The logging, statistics, and `Kill` flags: a killed peer is one that takes no step
  (in `Tester` it is one that still may).
* The other testers beyond what `Labrpc` has of them: their `partition` and `ConnectAll`
  are sequences of `Enable` in one critical section.
* `shardctrler` and `shardkv`: the servers are stubs. A shardctrler's Clerk takes their
  zero replies for success, so that nothing is ever joined and `Query` returns an empty
  configuration; a shardkv Clerk finds no group in it and asks again for ever. What a
  configuration or `ErrWrongGroup` means is nowhere in the code.
* `labgob`, `mr`, `mrapps`, `main`, `porcupine/visualization.go`: no protocol state, or
  course skeletons.
* `porcupine.checkEvents`: nothing calls it.
