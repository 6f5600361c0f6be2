------------------------------ MODULE AtomicKV ------------------------------
(***************************************************************************)
(* What kvsrv promises: a call takes effect once, at one moment between    *)
(* its invocation and its return.  Get returns what its key held at such a *)
(* moment, Append what its key held just before.                           *)
(***************************************************************************)
EXTENDS Naturals, Sequences

CONSTANTS
    Thread,    \* goroutines that make calls
    Key,
    Value,     \* the strings handed to Put and Append
    Nil

VARIABLES
    store,     \* key -> the pieces its value was put together from
    call,      \* the call a thread is in, or Nil
    res,       \* what the call will return once it has taken effect, or Nil
    answer     \* what the thread's last call returned

vars == <<store, call, res, answer>>

Call == [op : {"Get", "Put", "Append"}, key : Key, value : Value]

Init ==
    /\ store = [k \in Key |-> <<>>]
    /\ call = [t \in Thread |-> Nil]
    /\ res = [t \in Thread |-> Nil]
    /\ answer = [t \in Thread |-> Nil]

Invoke(t, c) ==
    /\ call[t] = Nil
    /\ call' = [call EXCEPT ![t] = c]
    /\ UNCHANGED <<store, res, answer>>

\* A read may be repeated until the call returns.
Read(t) ==
    /\ call[t] # Nil
    /\ call[t].op = "Get"
    /\ \/ res' = [res EXCEPT ![t] = store[call[t].key]]
       \/ res' = [res EXCEPT ![t] = Nil]
    /\ UNCHANGED <<store, call, answer>>

\* A write takes effect once.
Write(t) ==
    LET c == call[t]
    IN  /\ c # Nil
        /\ res[t] = Nil
        /\ \/ /\ c.op = "Put"
              /\ store' = [store EXCEPT ![c.key] = <<c.value>>]
              /\ res' = [res EXCEPT ![t] = <<>>]
           \/ /\ c.op = "Append"
              /\ store' = [store EXCEPT ![c.key] = Append(@, c.value)]
              /\ res' = [res EXCEPT ![t] = store[c.key]]
        /\ UNCHANGED <<call, answer>>

Return(t) ==
    /\ call[t] # Nil
    /\ res[t] # Nil
    /\ answer' = [answer EXCEPT ![t] = res[t]]
    /\ call' = [call EXCEPT ![t] = Nil]
    /\ res' = [res EXCEPT ![t] = Nil]
    /\ UNCHANGED store

Next ==
    \E t \in Thread :
        \/ \E c \in Call : Invoke(t, c)
        \/ Read(t)
        \/ Write(t)
        \/ Return(t)

Spec == Init /\ [][Next]_vars
=============================================================================
