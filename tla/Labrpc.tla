------------------------------- MODULE Labrpc -------------------------------
(***************************************************************************)
(* The simulated network of src/src/labrpc/labrpc.go, with the part of the *)
(* testers that makes and deletes clients (src/src/kvsrv/config.go), kills *)
(* and starts servers (src/src/kvraft/config.go) and cleans up.  One       *)
(* goroutine takes the requests; each is served by another, that runs      *)
(* processReq and starts one more for the RPC handler.  The steps below    *)
(* are what happens between their looks at the Network under rn.mu.        *)
(*                                                                         *)
(* A server is started over and over under one name: its incarnations are  *)
(* numbered, 0 is the code's nil.  What a handler does is reduced to one   *)
(* write to the Persister its incarnation was given.                       *)
(***************************************************************************)
EXTENDS Naturals

CONSTANTS
    Call,        \* the RPCs that are made
    End,         \* the ClientEnds
    Name,        \* the names servers are registered under
    connections, \* the server each ClientEnd is connected to when it is made
    Nil,         \* no value
    MaxBoot,     \* bound: incarnations of each server
    MaxCuts      \* bound: calls of Enable, Reliable, DeleteEnd, Cleanup by the tester

ASSUME LabrpcAssumption ==
    /\ connections \in [End -> Name]
    /\ Nil \notin [end : End, name : Name, server : Nat, reliable : BOOLEAN]
    /\ MaxBoot \in Nat \ {0} /\ MaxCuts \in Nat

VARIABLES
    \* Network
    ends,        \* of each name an end may have: new, made, deleted
    enabled, servers, reliable,
    done,        \* the channel done is closed
    loop,        \* the goroutine that takes the requests runs
    \* one processReq goroutine per call
    pc,          \* idle, calling (Call waits to be taken), sent, refused, admitted, waiting, taken, cleared, ended
    req,         \* the request with what was read in readEndnameInfo, Nil before
    handler,     \* none, running, returned (blocked on ech), gone
    draining,    \* somebody reads ech after processReq gave up
    result,      \* what Call returned: ok or failed, none before
    \* tester
    boot,        \* the last incarnation of each server
    holder,      \* the incarnation that was given the Persister saved[i], or 0
    saved,       \* what that Persister holds: the calls whose handlers wrote
    cuts

netVars    == <<ends, enabled, servers, reliable, done, loop>>
testerVars == <<boot, holder, saved, cuts>>
vars == <<netVars, pc, req, handler, draining, result, testerVars>>

\* MakeNetwork, and the servers have been started.
Init ==
    /\ ends = [e \in End |-> "new"]
    /\ enabled = [e \in End |-> FALSE]
    /\ done = FALSE /\ loop = TRUE
    /\ servers = [s \in Name |-> 1]
    /\ reliable = TRUE
    /\ pc = [c \in Call |-> "idle"]
    /\ req = [c \in Call |-> Nil]
    /\ handler = [c \in Call |-> "none"]
    /\ draining = [c \in Call |-> FALSE]
    /\ result = [c \in Call |-> "none"]
    /\ boot = [s \in Name |-> 1]
    /\ holder = [s \in Name |-> 1]
    /\ saved = [s \in Name |-> {}]
    /\ cuts = 0

-----------------------------------------------------------------------------
(* processReq *)

\* Call returns.
Finish(c, ok) ==
    /\ pc' = [pc EXCEPT ![c] = "ended"]
    /\ result' = [result EXCEPT ![c] = ok]

\* Call makes a request of an end, which may have been deleted since.
Invoke(c, e) ==
    /\ pc[c] = "idle" /\ ends[e] # "new"
    /\ pc' = [pc EXCEPT ![c] = "calling"]
    /\ req' = [req EXCEPT ![c] = [end |-> e, name |-> connections[e],
                                  server |-> 0, reliable |-> FALSE]]
    /\ UNCHANGED <<netVars, handler, draining, result, testerVars>>

\* The network takes the request and starts processReq ...
Send(c) ==
    /\ pc[c] = "calling" /\ loop
    /\ pc' = [pc EXCEPT ![c] = "sent"]
    /\ UNCHANGED <<netVars, req, handler, draining, result, testerVars>>

\* ... or Call finds it destroyed.
Destroyed(c) ==
    /\ pc[c] = "calling" /\ done
    /\ Finish(c, "failed")
    /\ UNCHANGED <<netVars, req, handler, draining, testerVars>>

\* readEndnameInfo: everything is read at once and not looked at again.
Admit(c) ==
    LET r == req[c]
        server == IF ends[r.end] = "made" THEN servers[r.name] ELSE 0
    IN  /\ pc[c] = "sent"
        /\ req' = [req EXCEPT ![c] = [end |-> r.end, name |-> r.name,
                                      server |-> server, reliable |-> reliable]]
        /\ pc' = [pc EXCEPT ![c] = IF enabled[r.end] /\ server # 0
                                   THEN "admitted" ELSE "refused"]
        /\ UNCHANGED <<netVars, handler, draining, result, testerVars>>

\* No server behind the end: a timer ends the call.
Refuse(c) ==
    /\ pc[c] = "refused"
    /\ Finish(c, "failed")
    /\ UNCHANGED <<netVars, req, handler, draining, testerVars>>

\* An unreliable network drops the request.
DropRequest(c) ==
    /\ pc[c] = "admitted" /\ ~req[c].reliable
    /\ Finish(c, "failed")
    /\ UNCHANGED <<netVars, req, handler, draining, testerVars>>

\* go server.dispatch(req), on the incarnation that was read, dead by now or not.
Dispatch(c) ==
    /\ pc[c] = "admitted"
    /\ pc' = [pc EXCEPT ![c] = "waiting"]
    /\ handler' = [handler EXCEPT ![c] = "running"]
    /\ UNCHANGED <<netVars, req, draining, result, testerVars>>

\* The handler has saved its effect, in whatever Persister its incarnation
\* has, and wants to hand over the reply.
HandlerReturns(c) ==
    LET r == req[c]
    IN  /\ handler[c] = "running"
        /\ handler' = [handler EXCEPT ![c] = "returned"]
        /\ saved' = IF holder[r.name] = r.server
                    THEN [saved EXCEPT ![r.name] = @ \cup {c}]
                    ELSE saved
        /\ UNCHANGED <<netVars, pc, req, draining, result, boot, holder, cuts>>

IsServerDead(c) == ~enabled[req[c].end] \/ servers[req[c].name] # req[c].server

\* Fault: only the connection is looked at.
FaultyGiveUpCut(c) ==
    /\ pc[c] = "waiting"
    /\ ~enabled[req[c].end]
    /\ draining' = [draining EXCEPT ![c] = TRUE]
    /\ Finish(c, "failed")
    /\ UNCHANGED <<netVars, req, handler, testerVars>>

\* Fault: nobody is left to read the late reply.
FaultyGiveUp(c) ==
    /\ pc[c] = "waiting"
    /\ IsServerDead(c)
    /\ Finish(c, "failed")
    /\ UNCHANGED <<netVars, req, handler, draining, testerVars>>

\* The handler has not returned in 100 ms and the server is dead: the call
\* fails, and a goroutine is left behind to take the reply.
GiveUp(c) ==
    /\ pc[c] = "waiting"
    /\ IsServerDead(c)
    /\ draining' = [draining EXCEPT ![c] = TRUE]
    /\ Finish(c, "failed")
    /\ UNCHANGED <<netVars, req, handler, testerVars>>

Drain(c) ==
    /\ draining[c] /\ handler[c] = "returned"
    /\ handler' = [handler EXCEPT ![c] = "gone"]
    /\ UNCHANGED <<netVars, pc, req, draining, result, testerVars>>

TakeReply(c) ==
    /\ pc[c] = "waiting" /\ handler[c] = "returned"
    /\ pc' = [pc EXCEPT ![c] = "taken"]
    /\ handler' = [handler EXCEPT ![c] = "gone"]
    /\ UNCHANGED <<netVars, req, draining, result, testerVars>>

\* Fault: a server that was started again counts as the one that was called.
FaultyCheckServer(c) ==
    /\ pc[c] = "taken"
    /\ IF ~enabled[req[c].end] \/ servers[req[c].name] = 0
       THEN Finish(c, "failed")
       ELSE pc' = [pc EXCEPT ![c] = "cleared"] /\ UNCHANGED result
    /\ UNCHANGED <<netVars, req, handler, draining, testerVars>>

\* Fault: having answered that the call failed, processReq goes on.
FaultyCheckServerOnce(c) ==
    /\ pc[c] = "taken"
    /\ pc' = [pc EXCEPT ![c] = "cleared"]
    /\ result' = [result EXCEPT ![c] = IF IsServerDead(c) THEN "failed" ELSE @]
    /\ UNCHANGED <<netVars, req, handler, draining, testerVars>>

\* The second look at the server, after the handler has returned.
CheckServer(c) ==
    /\ pc[c] = "taken"
    /\ IF IsServerDead(c)
       THEN Finish(c, "failed")
       ELSE pc' = [pc EXCEPT ![c] = "cleared"] /\ UNCHANGED result
    /\ UNCHANGED <<netVars, req, handler, draining, testerVars>>

DropReply(c) ==
    /\ pc[c] = "cleared" /\ ~req[c].reliable
    /\ Finish(c, "failed")
    /\ UNCHANGED <<netVars, req, handler, draining, testerVars>>

\* The reply is passed on, at once or (longReordering) up to 2.2 s later, and
\* without another look at the server.
DeliverReply(c) ==
    /\ pc[c] = "cleared"
    /\ Finish(c, "ok")
    /\ UNCHANGED <<netVars, req, handler, draining, testerVars>>

-----------------------------------------------------------------------------
(* The tester.  cleanup is the last thing it does. *)

\* A name is used once; the end is not enabled at first.
MakeEnd(e) ==
    /\ ~done /\ ends[e] = "new"
    /\ ends' = [ends EXCEPT ![e] = "made"]

\* makeClient: an end for a new Clerk, connected and enabled before the Clerk
\* has it.
MakeClient(e) ==
    /\ MakeEnd(e)
    /\ enabled' = [enabled EXCEPT ![e] = TRUE]
    /\ UNCHANGED <<servers, reliable, done, loop, pc, req, handler, draining, result,
                   testerVars>>

\* The network forgets the end, calls through it or not.
DeleteEnd(e) ==
    /\ ends[e] = "made"
    /\ ends' = [ends EXCEPT ![e] = "deleted"]
    /\ enabled' = [enabled EXCEPT ![e] = FALSE]

DeleteClient(e) ==
    /\ ~done /\ cuts < MaxCuts /\ cuts' = cuts + 1
    /\ DeleteEnd(e)
    /\ UNCHANGED <<servers, reliable, done, loop, pc, req, handler, draining, result, boot,
                   holder, saved>>

\* Partitions and their ends.
Enable(e) ==
    /\ ~done /\ cuts < MaxCuts /\ cuts' = cuts + 1
    /\ ends[e] = "made"
    /\ enabled' = [enabled EXCEPT ![e] = ~@]
    /\ UNCHANGED <<ends, servers, reliable, done, loop, pc, req, handler, draining, result,
                   boot, holder, saved>>

Reliable ==
    /\ ~done /\ cuts < MaxCuts /\ cuts' = cuts + 1
    /\ reliable' = ~reliable
    /\ UNCHANGED <<ends, enabled, servers, done, loop, pc, req, handler, draining, result,
                   boot, holder, saved>>

\* cleanup closes done, and the goroutine that takes the requests ends: at the
\* next look at its channels or after a few more requests.
Cleanup ==
    /\ ~done /\ cuts < MaxCuts /\ cuts' = cuts + 1
    /\ done' = TRUE
    /\ UNCHANGED <<ends, enabled, servers, reliable, loop, pc, req, handler, draining, result,
                   boot, holder, saved>>

LoopEnds ==
    /\ done /\ loop /\ loop' = FALSE
    /\ UNCHANGED <<ends, enabled, servers, reliable, done, pc, req, handler, draining, result,
                   testerVars>>

\* ShutdownServer, first half: nobody is to get a reply of this server now.
DeleteServer(s) ==
    /\ ~done /\ servers[s] # 0
    /\ servers' = [servers EXCEPT ![s] = 0]
    /\ UNCHANGED <<ends, enabled, reliable, done, loop, pc, req, handler, draining, result,
                   testerVars>>

\* ShutdownServer, second half: saved[i] becomes a copy, and what the old
\* incarnation writes from now on is lost.
Supersede(s) ==
    /\ ~done /\ servers[s] = 0 /\ holder[s] # 0
    /\ holder' = [holder EXCEPT ![s] = 0]
    /\ UNCHANGED <<netVars, pc, req, handler, draining, result, boot, saved, cuts>>

\* StartServer: a new incarnation with the content of saved[i].
StartServer(s) ==
    /\ ~done /\ servers[s] = 0 /\ holder[s] = 0
    /\ boot[s] < MaxBoot
    /\ boot' = [boot EXCEPT ![s] = @ + 1]
    /\ holder' = [holder EXCEPT ![s] = boot[s] + 1]
    /\ servers' = [servers EXCEPT ![s] = boot[s] + 1]
    /\ UNCHANGED <<ends, enabled, reliable, done, loop, pc, req, handler, draining, result,
                   saved, cuts>>

-----------------------------------------------------------------------------
ProcessReq(c) ==
    \/ Send(c) \/ Destroyed(c)
    \/ Admit(c) \/ Refuse(c) \/ DropRequest(c) \/ Dispatch(c)
    \/ GiveUp(c) \/ TakeReply(c) \/ CheckServer(c)
    \/ DropReply(c) \/ DeliverReply(c)

Next ==
    \/ \E c \in Call :
          \/ \E e \in End : Invoke(c, e)
          \/ ProcessReq(c)
          \/ HandlerReturns(c)
          \/ Drain(c)
    \/ \E e \in End : MakeClient(e) \/ DeleteClient(e) \/ Enable(e)
    \/ Reliable \/ Cleanup \/ LoopEnds
    \/ \E s \in Name : DeleteServer(s) \/ Supersede(s) \/ StartServer(s)

Spec == Init /\ [][Next]_vars

(* Goroutines run, and the timer of 100 ms goes off.  A handler of a live    *)
(* server returns (those of this repository wait 500 ms at most); nothing is *)
(* assumed of one whose server was killed, nor of the tester.                *)
Fairness ==
    \A c \in Call :
        /\ WF_vars(ProcessReq(c))
        /\ WF_vars(Drain(c))
        /\ WF_vars(req[c] # Nil /\ servers[req[c].name] = req[c].server /\ HandlerReturns(c))

FairSpec == Spec /\ Fairness

-----------------------------------------------------------------------------
(* Properties *)

\* Types of the variables; and processReq sends one answer on replyCh, of which
\* Call reads no second, and has nothing more to do for the call then.
TypeOK ==
    /\ ends \in [End -> {"new", "made", "deleted"}]
    /\ enabled \in [End -> BOOLEAN]
    /\ done \in BOOLEAN /\ loop \in BOOLEAN
    /\ servers \in [Name -> Nat]
    /\ reliable \in BOOLEAN
    /\ pc \in [Call -> {"idle", "calling", "sent", "refused", "admitted", "waiting",
                        "taken", "cleared", "ended"}]
    /\ req \in [Call -> {Nil} \cup [end : End, name : Name, server : Nat, reliable : BOOLEAN]]
    /\ handler \in [Call -> {"none", "running", "returned", "gone"}]
    /\ draining \in [Call -> BOOLEAN]
    /\ result \in [Call -> {"none", "ok", "failed"}]
    /\ boot \in [Name -> Nat] /\ holder \in [Name -> Nat]
    /\ saved \in [Name -> SUBSET Call]
    /\ cuts \in Nat
    /\ \A c \in Call : result[c] # "none" <=> pc[c] = "ended"

\* A call that returned true is in the Persister the next incarnation starts
\* from: whatever the server and the tester do between the handler's write, the
\* two looks at the server and the delayed reply, no client gets a positive
\* reply to an update that went into a superseded Persister (what the comments
\* in processReq and ShutdownServer are about).
AckedSurvives ==
    \A c \in Call : result[c] = "ok" => c \in saved[req[c].name]

\* Every call returns, although a handler whose server was killed may never do,
\* and the network may be cleaned up while Call waits to be taken: a Clerk that
\* has called a dead or unreachable server comes to try the next.
CallReturns == \A c \in Call : pc[c] = "calling" ~> pc[c] = "ended"

\* A handler that has returned does not stay blocked on ech for ever, even when
\* processReq has given up on it.
HandlerEnds == \A c \in Call : handler[c] = "returned" ~> handler[c] = "gone"
=============================================================================
