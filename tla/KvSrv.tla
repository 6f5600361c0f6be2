------------------------------- MODULE KvSrv --------------------------------
(***************************************************************************)
(* The single key/value server of src/src/kvsrv and its Clerks.  A handler *)
(* is one critical section under kv.mu.  The network loses requests and    *)
(* replies, upon which the Clerk sends the same request again; it does not *)
(* duplicate, and ends a call only after its handler has returned.         *)
(***************************************************************************)
EXTENDS Naturals, Sequences

CONSTANTS
    Thread,    \* goroutines that make calls
    Clerk,
    ck,        \* the Clerk each of them uses
    Key,
    Value,     \* the strings handed to Put and Append
    Nil,
    MaxReq     \* bound: calls made through one Clerk

ASSUME ClerkAssumption == ck \in [Thread -> Clerk]
ASSUME NilAssumption ==
    /\ Nil \notin Seq(Value)
    /\ Nil \notin [op : {"Get", "Put", "Append"}, key : Key, value : Value]
    /\ Nil \notin [op : {"Get", "Put", "Append"}, key : Key, value : Value, id : Nat]
ASSUME MaxReqAssumption == MaxReq \in Nat

VARIABLES
    data,         \* key -> the pieces its value was put together from; a key
                  \* that is not in the map reads as the empty string
    lastRequest,  \* Clerk -> RequestId (0: none yet) and Response
    requestId,    \* Clerk.requestId
    call,         \* the arguments of the call a thread is in, or Nil
    reply,        \* the reply on its way to the thread, or Nil
    answer        \* what the thread's last call returned

vars == <<data, lastRequest, requestId, call, reply, answer>>

Args == [op : {"Get", "Put", "Append"}, key : Key, value : Value, id : Nat]

Init ==
    /\ data = [k \in Key |-> <<>>]
    /\ lastRequest = [c \in Clerk |-> [id |-> 0, response |-> <<>>]]
    /\ requestId = [c \in Clerk |-> 0]
    /\ call = [t \in Thread |-> Nil]
    /\ reply = [t \in Thread |-> Nil]
    /\ answer = [t \in Thread |-> Nil]

\* Clerk.Get, Put or Append: atomic.AddInt64 gives the call its id.
Invoke(t, op, k, v) ==
    /\ call[t] = Nil
    /\ requestId[ck[t]] < MaxReq
    /\ requestId' = [requestId EXCEPT ![ck[t]] = @ + 1]
    /\ call' = [call EXCEPT ![t] =
                   [op |-> op, key |-> k, value |-> v, id |-> requestId[ck[t]] + 1]]
    /\ UNCHANGED <<data, lastRequest, reply, answer>>

\* The request of thread t reaches the server (again).
Arrives(t, op) == call[t] # Nil /\ reply[t] = Nil /\ call[t].op = op

\* KVServer.Get
Get(t) ==
    /\ Arrives(t, "Get")
    /\ reply' = [reply EXCEPT ![t] = data[call[t].key]]
    /\ UNCHANGED <<data, lastRequest, requestId, call, answer>>

\* Fault: requests are not recognised when they come again.
FaultyDuplicate(t) == FALSE

Duplicate(t) == lastRequest[ck[t]].id = call[t].id

Cached(t) == lastRequest[ck[t]].response

\* A repeated request is answered from lastRequest, in Put and in Append.
Repeat(t) ==
    /\ Duplicate(t)
    /\ reply' = [reply EXCEPT ![t] = Cached(t)]
    /\ UNCHANGED <<data, lastRequest>>

\* A new one changes the key and is remembered.
Execute(t, new, response) ==
    /\ ~Duplicate(t)
    /\ data' = [data EXCEPT ![call[t].key] = new]
    /\ lastRequest' = [lastRequest EXCEPT ![ck[t]] =
                          [id |-> call[t].id, response |-> response]]
    /\ reply' = [reply EXCEPT ![t] = response]

\* Fault: the key is stored in place of the value.
FaultyPut(t) ==
    /\ Arrives(t, "Put")
    /\ Repeat(t) \/ Execute(t, <<call[t].key>>, <<>>)
    /\ UNCHANGED <<requestId, call, answer>>

\* KVServer.Put
Put(t) ==
    /\ Arrives(t, "Put")
    /\ Repeat(t) \/ Execute(t, <<call[t].value>>, <<>>)
    /\ UNCHANGED <<requestId, call, answer>>

\* KVServer.Append
AppendTo(t) ==
    LET oldValue == data[call[t].key]
    IN  /\ Arrives(t, "Append")
        /\ Repeat(t) \/ Execute(t, Append(oldValue, call[t].value), oldValue)
        /\ UNCHANGED <<requestId, call, answer>>

\* Call() returns true: the Clerk's method returns.
Return(t) ==
    /\ reply[t] # Nil
    /\ answer' = [answer EXCEPT ![t] = reply[t]]
    /\ call' = [call EXCEPT ![t] = Nil]
    /\ reply' = [reply EXCEPT ![t] = Nil]
    /\ UNCHANGED <<data, lastRequest, requestId>>

\* Call() returns false after the handler ran, and the loop goes round.  (A
\* request that is lost changes nothing.)
LoseReply(t) ==
    /\ reply[t] # Nil
    /\ reply' = [reply EXCEPT ![t] = Nil]
    /\ UNCHANGED <<data, lastRequest, requestId, call, answer>>

Next ==
    \E t \in Thread :
        \/ \E op \in {"Get", "Put", "Append"}, k \in Key, v \in Value : Invoke(t, op, k, v)
        \/ Get(t)
        \/ Put(t)
        \/ AppendTo(t)
        \/ Return(t)
        \/ LoseReply(t)

Spec == Init /\ [][Next]_vars

-----------------------------------------------------------------------------
(* Properties *)

\* Every variable has its type.
TypeOK ==
    /\ data \in [Key -> Seq(Value)]
    /\ lastRequest \in [Clerk -> [id : Nat, response : Seq(Value)]]
    /\ requestId \in [Clerk -> Nat]
    /\ call \in [Thread -> Args \cup {Nil}]
    /\ reply \in [Thread -> Seq(Value) \cup {Nil}]
    /\ answer \in [Thread -> Seq(Value) \cup {Nil}]

\* Every goroutine has a Clerk of its own.
OneClerkEach == \A s, t \in Thread : ck[s] = ck[t] => s = t

\* The ids a Clerk gives out: its thread's call has the newest, lastRequest
\* none that is newer, and a reply to a write that is under way is the one
\* lastRequest remembers.
IdsInStep ==
    /\ \A t \in Thread : call[t] # Nil => call[t].id = requestId[ck[t]]
    /\ \A c \in Clerk : lastRequest[c].id <= requestId[c]
    /\ \A t \in Thread :
          reply[t] # Nil =>
              /\ call[t] # Nil
              /\ call[t].op # "Get" => /\ lastRequest[ck[t]].id = call[t].id
                                       /\ lastRequest[ck[t]].response = reply[t]

\* The call without the id, which the promise does not mention.
Wanted(t) ==
    IF call[t] = Nil THEN Nil
    ELSE [op |-> call[t].op, key |-> call[t].key, value |-> call[t].value]

\* A write has taken effect when lastRequest remembers it; a read, when its
\* reply is under way.
Effect(t) ==
    IF call[t] = Nil THEN Nil
    ELSE IF call[t].op = "Get" THEN reply[t]
    ELSE IF lastRequest[ck[t]].id = call[t].id THEN lastRequest[ck[t]].response ELSE Nil

Promise == INSTANCE AtomicKV WITH
    store <- data,
    call <- [t \in Thread |-> Wanted(t)],
    res <- [t \in Thread |-> Effect(t)]

\* The server and its Clerks keep the promise of AtomicKV: however often a
\* request is repeated it takes effect once, and its answer is the one it had
\* the first time.
Linearizable == Promise!Spec
=============================================================================
