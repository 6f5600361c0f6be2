---------------------------- MODULE LabrpcProofs ----------------------------
(* Labrpc keeps its types and its promise about positive replies for any     *)
(* calls, ends and servers, and any number of kills and partitions.          *)
EXTENDS Labrpc, TLAPS

Request == [end : End, name : Name, server : Nat, reliable : BOOLEAN]

\* A registered incarnation has the Persister that counts, and no incarnation
\* is newer than the last one started.
Registered ==
    \A s \in Name :
        /\ servers[s] # 0 => holder[s] = servers[s]
        /\ servers[s] <= boot[s] /\ holder[s] <= boot[s]

\* What processReq knows at each of its places.
Known ==
    \A c \in Call :
        /\ pc[c] # "idle" => req[c] \in Request
        /\ req[c] # Nil => req[c].server <= boot[req[c].name]
        /\ pc[c] \in {"admitted", "waiting", "taken", "cleared"} => req[c].server # 0
        /\ handler[c] # "none" => /\ pc[c] \in {"waiting", "taken", "cleared", "ended"}
                                  /\ req[c].server # 0
        /\ pc[c] \in {"taken", "cleared"} => handler[c] = "gone"

\* A handler that returned while its incarnation is still registered has written
\* to the Persister that counts.
Written ==
    \A c \in Call :
        handler[c] \in {"returned", "gone"} /\ servers[req[c].name] = req[c].server
            => c \in saved[req[c].name]

\* A reply that has passed the second look is for a write that survives.
Cleared ==
    \A c \in Call :
        /\ pc[c] = "cleared" => c \in saved[req[c].name]
        /\ result[c] = "ok" => pc[c] = "ended" /\ c \in saved[req[c].name]

LabrpcInv == TypeOK /\ Registered /\ Known /\ Written /\ Cleared

-----------------------------------------------------------------------------
\* Labrpc starts in its invariant: every server is its first incarnation and no
\* call has been made.
LEMMA LabrpcInit == Init => LabrpcInv
<1> SUFFICES ASSUME Init PROVE LabrpcInv
  OBVIOUS
<1>1. TypeOK
  BY DEF Init, TypeOK
<1>2. Registered /\ Known /\ Written /\ Cleared
  BY DEF Init, Registered, Known, Written, Cleared
<1> QED BY <1>1, <1>2 DEF LabrpcInv

\* Making a request touches only a call nobody has worked on.
LEMMA LabrpcInvoke ==
    ASSUME LabrpcInv, NEW c \in Call, NEW e \in End, Invoke(c, e)
    PROVE  LabrpcInv'
<1> USE LabrpcAssumption DEF LabrpcInv, Invoke, netVars, testerVars
<1>0. /\ connections[e] \in Name
      /\ req'[c] = [end |-> e, name |-> connections[e], server |-> 0, reliable |-> FALSE]
  BY DEF TypeOK
<1>1. connections[e] \in Name /\ req'[c] \in Request /\ req'[c].name = connections[e]
      /\ req'[c].server = 0 /\ req'[c] # Nil
  <2>1. [end |-> e, name |-> connections[e], server |-> 0, reliable |-> FALSE] \in Request
    BY <1>0 DEF Request
  <2>2. Nil \notin Request
    BY DEF Request
  <2>3. req'[c] # Nil
    BY <1>0, <2>1, <2>2, Zenon
  <2>4. req'[c].name = connections[e] /\ req'[c].server = 0
    BY <1>0
  <2> QED
    BY <1>0, <2>1, <2>3, <2>4, Zenon
<1>2. \A d \in Call \ {c} : req'[d] = req[d] /\ pc'[d] = pc[d]
  BY DEF TypeOK
<1>3. TypeOK'
  BY <1>1 DEF TypeOK, Request
<1>4. Registered'
  BY DEF Registered
<1>5. handler[c] = "none" /\ result[c] # "ok" /\ pc'[c] = "calling"
  BY DEF Known, Cleared, TypeOK
<1>6. Known'
  BY <1>1, <1>2, <1>5 DEF Known, TypeOK
<1>7. Written'
  BY <1>1, <1>2, <1>5 DEF Written
<1>8. Cleared'
  BY <1>1, <1>2, <1>5 DEF Cleared
<1> QED
  BY <1>3, <1>4, <1>6, <1>7, <1>8

\* readEndnameInfo picks up an incarnation that exists, or none.
LEMMA LabrpcAdmit ==
    ASSUME LabrpcInv, NEW c \in Call, Admit(c)
    PROVE  LabrpcInv'
<1> USE DEF LabrpcInv, Admit, netVars, testerVars
<1>1. req[c] \in Request
  BY DEF Known
<1>2. /\ req'[c] \in Request /\ req'[c] # Nil /\ req'[c].name = req[c].name
      /\ req'[c].server \in {0, servers[req[c].name]} /\ req[c].name \in Name
  BY <1>1, LabrpcAssumption DEF TypeOK, Request
<1>3. \A d \in Call \ {c} : req'[d] = req[d] /\ pc'[d] = pc[d]
  BY DEF TypeOK
<1>4. /\ handler[c] = "none" /\ result[c] # "ok"
      /\ pc'[c] = "refused" \/ (pc'[c] = "admitted" /\ req'[c].server # 0)
  <2>1. handler[c] = "none" /\ result[c] # "ok"
    BY DEF Known, Cleared, TypeOK
  <2> DEFINE server == IF ends[req[c].end] = "made" THEN servers[req[c].name] ELSE 0
  <2>2. /\ pc'[c] = IF enabled[req[c].end] /\ server # 0 THEN "admitted" ELSE "refused"
        /\ req'[c].server = server
    BY DEF TypeOK
  <2>3. CASE pc'[c] = "refused"
    BY <2>1, <2>3
  <2>4. CASE server # 0 /\ pc'[c] = "admitted"
    BY <2>1, <2>2, <2>4
  <2> QED
    BY <2>2, <2>3, <2>4
<1>5. TypeOK'
  BY <1>2, <1>4 DEF TypeOK, Request
<1>6. Registered'
  BY DEF Registered
<1>7. Known'
  BY <1>2, <1>3, <1>4 DEF Known, Registered, TypeOK
<1>8. Written'
  BY <1>2, <1>3, <1>4 DEF Written
<1>9. Cleared'
  BY <1>2, <1>3, <1>4 DEF Cleared
<1> QED
  BY <1>5, <1>6, <1>7, <1>8, <1>9

\* The steps of processReq after that: only a call whose write survives is
\* cleared, and only a cleared call is answered.
LEMMA LabrpcProcess ==
    ASSUME LabrpcInv, NEW c \in Call,
           \/ Send(c) \/ Destroyed(c)
           \/ Refuse(c) \/ DropRequest(c) \/ Dispatch(c) \/ GiveUp(c) \/ TakeReply(c)
           \/ CheckServer(c) \/ DropReply(c) \/ DeliverReply(c) \/ Drain(c)
    PROVE  LabrpcInv'
<1> USE DEF LabrpcInv, netVars, testerVars, Finish
<1>0. /\ UNCHANGED <<netVars, testerVars, req>>
      /\ \A d \in Call \ {c} : pc'[d] = pc[d] /\ handler'[d] = handler[d]
                               /\ result'[d] = result[d]
  BY DEF TypeOK, Send, Destroyed, Refuse, DropRequest, Dispatch, GiveUp, TakeReply, CheckServer, DropReply,
         DeliverReply, Drain
<1>1. TypeOK'
  <2>1. /\ pc' \in [Call -> {"idle", "calling", "sent", "refused", "admitted", "waiting",
                            "taken", "cleared", "ended"}]
        /\ handler' \in [Call -> {"none", "running", "returned", "gone"}]
        /\ result' \in [Call -> {"none", "ok", "failed"}]
    BY DEF TypeOK, Send, Destroyed, Refuse, DropRequest, Dispatch, GiveUp, TakeReply, CheckServer, DropReply,
           DeliverReply, Drain
  <2>2. draining' = draining \/ draining' = [draining EXCEPT ![c] = TRUE]
    BY DEF Send, Destroyed, Refuse, DropRequest, Dispatch, GiveUp, TakeReply, CheckServer, DropReply,
           DeliverReply, Drain
  <2>3. draining' \in [Call -> BOOLEAN]
    BY <2>2 DEF TypeOK
  <2>4. result'[c] # "none" <=> pc'[c] = "ended"
    BY DEF TypeOK, Send, Destroyed, Refuse, DropRequest, Dispatch, GiveUp, TakeReply, CheckServer, DropReply,
           DeliverReply, Drain
  <2> QED
    BY <1>0, <2>1, <2>3, <2>4 DEF TypeOK
<1>2. Registered'
  BY <1>0 DEF Registered
<1>3. Known'
  BY <1>0 DEF Known, TypeOK, Send, Destroyed, Refuse, DropRequest, Dispatch, GiveUp, TakeReply, CheckServer,
              DropReply, DeliverReply, Drain
<1>4. Written'
  BY <1>0 DEF Written, Known, TypeOK, Send, Destroyed, Refuse, DropRequest, Dispatch, GiveUp, TakeReply,
              CheckServer, DropReply, DeliverReply, Drain
<1>5. Cleared'
  <2>1. CASE CheckServer(c)
    BY <1>0, <2>1 DEF Cleared, Written, Known, TypeOK, CheckServer, IsServerDead
  <2>2. CASE ~CheckServer(c)
    BY <1>0, <2>2 DEF Cleared, Known, TypeOK, Send, Destroyed, Refuse, DropRequest, Dispatch, GiveUp, TakeReply,
                      DropReply, DeliverReply, Drain
  <2> QED
    BY <2>1, <2>2
<1> QED
  BY <1>1, <1>2, <1>3, <1>4, <1>5

\* A handler writes to the Persister that counts if its incarnation is registered.
LEMMA LabrpcHandler ==
    ASSUME LabrpcInv, NEW c \in Call, HandlerReturns(c)
    PROVE  LabrpcInv'
<1> USE DEF LabrpcInv, HandlerReturns, netVars, testerVars
<1>1. req[c] \in Request /\ req[c].server # 0 /\ req[c].name \in Name
      /\ pc[c] \in {"waiting", "ended"}
  BY DEF Known, TypeOK, Request
<1>2. \A s \in Name : saved[s] \subseteq saved'[s]
  BY DEF TypeOK
<1>3. \A d \in Call \ {c} : handler'[d] = handler[d]
  BY DEF TypeOK
<1>4. TypeOK'
  BY <1>1 DEF TypeOK
<1>5. Registered'
  BY DEF Registered
<1>6. Known'
  BY <1>1, <1>3 DEF Known, TypeOK
<1>7. servers[req[c].name] = req[c].server => c \in saved'[req[c].name]
  BY <1>1 DEF Registered, TypeOK
<1>8. \A d \in Call : pc[d] # "idle" => req[d].name \in Name
  BY DEF Known, Request
<1>9. Written'
  BY <1>2, <1>3, <1>7, <1>8 DEF Written, Known
<1>10. Cleared'
  BY <1>2, <1>8 DEF Cleared
<1> QED
  BY <1>4, <1>5, <1>6, <1>9, <1>10

\* The tester's steps: a Persister is superseded only when no incarnation is
\* registered, and a new incarnation has a number no call has seen.
LEMMA LabrpcTester ==
    ASSUME LabrpcInv,
           \/ \E e \in End : MakeClient(e) \/ DeleteClient(e) \/ Enable(e)
           \/ Reliable \/ Cleanup \/ LoopEnds
           \/ \E s \in Name : DeleteServer(s) \/ Supersede(s) \/ StartServer(s)
    PROVE  LabrpcInv'
<1> USE DEF LabrpcInv, netVars, testerVars
<1>1. UNCHANGED <<pc, req, handler, result, saved>>
  BY DEF MakeClient, MakeEnd, DeleteClient, DeleteEnd, Enable, Reliable, Cleanup, LoopEnds,
         DeleteServer, Supersede, StartServer
<1>2. \A s \in Name : /\ servers'[s] = servers[s] \/ servers'[s] = 0 \/ servers'[s] > boot[s]
                      /\ boot[s] <= boot'[s]
  BY DEF TypeOK, MakeClient, MakeEnd, DeleteClient, DeleteEnd, Enable, Reliable, Cleanup, LoopEnds,
         DeleteServer, Supersede, StartServer
<1>3. TypeOK'
  <2>1. /\ enabled' \in [End -> BOOLEAN] /\ reliable' \in BOOLEAN
        /\ done' \in BOOLEAN /\ loop' \in BOOLEAN
        /\ ends' \in [End -> {"new", "made", "deleted"}]
    BY DEF TypeOK, MakeClient, MakeEnd, DeleteClient, DeleteEnd, Enable, Reliable, Cleanup, LoopEnds,
         DeleteServer, Supersede, StartServer
  <2>2. /\ servers' \in [Name -> Nat] /\ boot' \in [Name -> Nat] /\ holder' \in [Name -> Nat]
        /\ cuts' \in Nat
    BY DEF TypeOK, MakeClient, MakeEnd, DeleteClient, DeleteEnd, Enable, Reliable, Cleanup, LoopEnds,
         DeleteServer, Supersede, StartServer
  <2>3. draining' = draining
    BY DEF MakeClient, MakeEnd, DeleteClient, DeleteEnd, Enable, Reliable, Cleanup, LoopEnds,
         DeleteServer, Supersede, StartServer
  <2> QED
    BY <1>1, <2>1, <2>2, <2>3 DEF TypeOK
<1>4. Registered'
  BY DEF Registered, TypeOK, MakeClient, MakeEnd, DeleteClient, DeleteEnd, Enable, Reliable, Cleanup, LoopEnds,
         DeleteServer, Supersede, StartServer
<1>5. \A c \in Call : req[c] # Nil =>
          req[c].name \in Name /\ req[c].server \in Nat /\ boot[req[c].name] \in Nat
          /\ boot'[req[c].name] \in Nat
  BY <1>3 DEF TypeOK
<1>6. Known'
  BY <1>1, <1>2, <1>5 DEF Known
<1>7. Written'
  <2> SUFFICES ASSUME NEW c \in Call, handler[c] \in {"returned", "gone"},
                      servers'[req[c].name] = req[c].server
               PROVE  c \in saved[req[c].name]
    BY <1>1 DEF Written
  <2>1. req[c] \in Request /\ req[c].server # 0 /\ req[c].server <= boot[req[c].name]
    BY LabrpcAssumption DEF Known, Request
  <2>2. servers[req[c].name] = req[c].server
    BY <1>2, <2>1 DEF Request, TypeOK
  <2> QED
    BY <2>2 DEF Written
<1>8. Cleared'
  BY <1>1 DEF Cleared
<1> QED
  BY <1>3, <1>4, <1>6, <1>7, <1>8

\* The invariant holds throughout.
THEOREM LabrpcInvariant == Spec => []LabrpcInv
<1>1. LabrpcInv /\ [Next]_vars => LabrpcInv'
  <2> SUFFICES ASSUME LabrpcInv, [Next]_vars PROVE LabrpcInv'
    OBVIOUS
  <2>1. CASE UNCHANGED vars
    BY <2>1 DEF vars, netVars, testerVars, LabrpcInv, TypeOK, Registered, Known, Written, Cleared
  <2>2. CASE Next
    BY <2>2, LabrpcInvoke, LabrpcAdmit, LabrpcProcess, LabrpcHandler, LabrpcTester
       DEF Next, ProcessReq
  <2> QED
    BY <2>1, <2>2
<1> QED
  BY LabrpcInit, <1>1, PTL DEF Spec

\* Every variable of the network and the testers keeps its type.
THEOREM LabrpcTypeCorrect == Spec => []TypeOK
<1>1. LabrpcInv => TypeOK
  BY DEF LabrpcInv
<1> QED
  BY <1>1, LabrpcInvariant, PTL

\* No client gets a positive reply to an update that went into a superseded
\* Persister, for any number of clients, servers, kills and partitions: the
\* second isServerDead of processReq and the order of ShutdownServer suffice.
THEOREM LabrpcAckedSurvives == Spec => []AckedSurvives
<1>1. LabrpcInv => AckedSurvives
  BY DEF LabrpcInv, Cleared, AckedSurvives
<1> QED
  BY <1>1, LabrpcInvariant, PTL
=============================================================================
