---------------------------- MODULE KvSrvProofs -----------------------------
(* KvSrv implements AtomicKV for any number of goroutines, keys and values, *)
(* provided that no two goroutines share a Clerk.                           *)
EXTENDS KvSrv, TLAPS

\* Every variable of the kvsrv server and Clerks keeps its type.
THEOREM KvSrvTypeCorrect == Spec => []TypeOK
<1> USE ClerkAssumption, NilAssumption, MaxReqAssumption
<1>1. Init => TypeOK
  BY DEF Init, TypeOK
<1>2. TypeOK /\ [Next]_vars => TypeOK'
  <2> SUFFICES ASSUME TypeOK, [Next]_vars PROVE TypeOK'
    OBVIOUS
  <2>1. CASE UNCHANGED vars
    BY <2>1 DEF TypeOK, vars
  <2>2. ASSUME NEW t \in Thread, NEW op \in {"Get", "Put", "Append"}, NEW k \in Key,
               NEW v \in Value, Invoke(t, op, k, v)
        PROVE  TypeOK'
    BY <2>2 DEF Invoke, TypeOK, Args
  <2>3. ASSUME NEW t \in Thread, Get(t) PROVE TypeOK'
    BY <2>3 DEF Get, Arrives, TypeOK, Args
  <2>4. ASSUME NEW t \in Thread, Put(t) PROVE TypeOK'
    <3>1. call[t] \in Args
      BY <2>4 DEF Put, Arrives, TypeOK
    <3>2. <<call[t].value>> \in Seq(Value) /\ <<>> \in Seq(Value)
      BY <3>1 DEF Args
    <3>3. CASE Repeat(t)
      BY <2>4, <3>1, <3>3 DEF Put, Repeat, Cached, Arrives, TypeOK, Args
    <3>4. CASE Execute(t, <<call[t].value>>, <<>>)
      BY <2>4, <3>1, <3>2, <3>4 DEF Put, Execute, Arrives, TypeOK, Args
    <3> QED
      BY <2>4, <3>3, <3>4 DEF Put
  <2>5. ASSUME NEW t \in Thread, AppendTo(t) PROVE TypeOK'
    <3>1. call[t] \in Args /\ data[call[t].key] \in Seq(Value)
      BY <2>5 DEF AppendTo, Arrives, TypeOK, Args
    <3>2. Append(data[call[t].key], call[t].value) \in Seq(Value)
      BY <3>1 DEF Args
    <3>3. CASE Repeat(t)
      BY <2>5, <3>1, <3>3 DEF AppendTo, Repeat, Cached, Arrives, TypeOK, Args
    <3>4. CASE Execute(t, Append(data[call[t].key], call[t].value), data[call[t].key])
      BY <2>5, <3>1, <3>2, <3>4 DEF AppendTo, Execute, Arrives, TypeOK, Args
    <3> QED
      BY <2>5, <3>3, <3>4 DEF AppendTo
  <2>6. ASSUME NEW t \in Thread, Return(t) PROVE TypeOK'
    BY <2>6 DEF Return, TypeOK
  <2>7. ASSUME NEW t \in Thread, LoseReply(t) PROVE TypeOK'
    BY <2>7 DEF LoseReply, TypeOK
  <2> QED
    BY <2>1, <2>2, <2>3, <2>4, <2>5, <2>6, <2>7 DEF Next
<1> QED
  BY <1>1, <1>2, PTL DEF Spec

\* The ids of requests, lastRequest and the replies under way stay in step:
\* the server never takes a repeated request for a new one, nor a new one for
\* a repetition.
THEOREM KvSrvIdsInStep ==
    ASSUME OneClerkEach
    PROVE  Spec => [](TypeOK /\ IdsInStep)
<1> USE ClerkAssumption, NilAssumption, MaxReqAssumption
<1>1. Init => IdsInStep
  BY DEF Init, IdsInStep
<1>2. TypeOK /\ TypeOK' /\ IdsInStep /\ [Next]_vars => IdsInStep'
  <2> SUFFICES ASSUME TypeOK, TypeOK', IdsInStep, [Next]_vars PROVE IdsInStep'
    OBVIOUS
  <2> USE OneClerkEach DEF OneClerkEach
  <2>1. CASE UNCHANGED vars
    BY <2>1 DEF IdsInStep, vars
  <2>2. ASSUME NEW t \in Thread, NEW op \in {"Get", "Put", "Append"}, NEW k \in Key,
               NEW v \in Value, Invoke(t, op, k, v)
        PROVE  IdsInStep'
    <3>1. reply[t] = Nil /\ reply'[t] = Nil
      BY <2>2 DEF Invoke, IdsInStep
    <3> QED
      BY <2>2, <3>1 DEF Invoke, TypeOK, Args, IdsInStep
  <2>3. ASSUME NEW t \in Thread, Get(t) PROVE IdsInStep'
    BY <2>3 DEF Get, Arrives, TypeOK, Args, IdsInStep
  <2>4. ASSUME NEW t \in Thread, NEW new, NEW response,
               call[t] # Nil, UNCHANGED <<requestId, call>>,
               Repeat(t) \/ Execute(t, new, response)
        PROVE  IdsInStep'
    <3>1. CASE Repeat(t)
      BY <2>4, <3>1 DEF Repeat, Duplicate, Cached, TypeOK, Args, IdsInStep
    <3>2. CASE Execute(t, new, response)
      BY <2>4, <3>2 DEF Execute, TypeOK, Args, IdsInStep
    <3> QED
      BY <2>4, <3>1, <3>2
  <2>5. ASSUME NEW t \in Thread, Put(t) PROVE IdsInStep'
    BY <2>4, <2>5 DEF Put, Arrives
  <2>6. ASSUME NEW t \in Thread, AppendTo(t) PROVE IdsInStep'
    BY <2>4, <2>6 DEF AppendTo, Arrives
  <2>7. ASSUME NEW t \in Thread, Return(t) PROVE IdsInStep'
    BY <2>7 DEF Return, TypeOK, IdsInStep
  <2>8. ASSUME NEW t \in Thread, LoseReply(t) PROVE IdsInStep'
    BY <2>8 DEF LoseReply, TypeOK, IdsInStep
  <2> QED
    BY <2>1, <2>2, <2>3, <2>5, <2>6, <2>7, <2>8 DEF Next
<1> QED
  BY <1>1, <1>2, KvSrvTypeCorrect, PTL DEF Spec

\* kvsrv keeps the promise of AtomicKV: every call takes effect once and returns
\* what it found, whatever requests and replies are lost and repeated.
THEOREM KvSrvLinearizable ==
    ASSUME OneClerkEach
    PROVE  Spec => Linearizable
<1> USE ClerkAssumption, NilAssumption, MaxReqAssumption
<1>1. Init => Promise!Init
  BY DEF Init, Promise!Init, Wanted, Effect
<1>2. TypeOK /\ TypeOK' /\ IdsInStep /\ IdsInStep' /\ [Next]_vars
        => [Promise!Next]_(Promise!vars)
  <2> SUFFICES ASSUME TypeOK, TypeOK', IdsInStep, IdsInStep', [Next]_vars
               PROVE  Promise!Next \/ UNCHANGED Promise!vars
    OBVIOUS
  <2> USE OneClerkEach DEF OneClerkEach
  <2>1. CASE UNCHANGED vars
    BY <2>1 DEF vars, Promise!vars, Wanted, Effect
  <2>2. ASSUME NEW t \in Thread, NEW op \in {"Get", "Put", "Append"}, NEW k \in Key,
               NEW v \in Value, Invoke(t, op, k, v)
        PROVE  Promise!Next
    <3> DEFINE c == [op |-> op, key |-> k, value |-> v]
    <3>1. c \in Promise!Call
      BY DEF Promise!Call
    <3>2. reply[t] = Nil /\ reply' = reply
      BY <2>2 DEF Invoke, IdsInStep
    <3>3. Wanted(t) = Nil /\ Wanted(t)' = c
      BY <2>2 DEF Invoke, Wanted, TypeOK, Args
    <3>4. \A s \in Thread \ {t} : Wanted(s)' = Wanted(s)
      BY <2>2 DEF Invoke, Wanted, TypeOK
    <3>5. \A s \in Thread : Effect(s)' = Effect(s)
      BY <2>2, <3>2 DEF Invoke, Effect, TypeOK, Args, IdsInStep
    <3>6. Promise!Invoke(t, c)
      BY <2>2, <3>3, <3>4, <3>5 DEF Invoke, Promise!Invoke
    <3> QED
      BY <3>1, <3>6 DEF Promise!Next
  <2>3. ASSUME NEW t \in Thread, Get(t) PROVE Promise!Next
    <3>1. Wanted(t) # Nil /\ Wanted(t).op = "Get" /\ Wanted(t).key = call[t].key
      BY <2>3 DEF Get, Arrives, Wanted, TypeOK, Args
    <3>2. \A s \in Thread : Wanted(s)' = Wanted(s)
      BY <2>3 DEF Get, Wanted
    <3>3. \A s \in Thread : Effect(s)' = IF s = t THEN data[call[t].key] ELSE Effect(s)
      BY <2>3 DEF Get, Arrives, Effect, TypeOK
    <3>4. Promise!Read(t)
      BY <2>3, <3>1, <3>2, <3>3 DEF Get, Promise!Read
    <3> QED
      BY <3>4 DEF Promise!Next
  <2>4. ASSUME NEW t \in Thread, Repeat(t), call[t] # Nil, call[t].op # "Get",
               call' = call, answer' = answer
        PROVE  UNCHANGED Promise!vars
    BY <2>4 DEF Repeat, Promise!vars, Wanted, Effect, TypeOK
  <2>5. ASSUME NEW t \in Thread, NEW new, NEW response \in Seq(Value),
               call[t] # Nil, call[t].op # "Get", Execute(t, new, response), call' = call
        PROVE  \A s \in Thread : Effect(s)' = IF s = t THEN response ELSE Effect(s)
    BY <2>5 DEF Execute, Effect, TypeOK, Args
  <2>6. ASSUME NEW t \in Thread, Put(t) PROVE Promise!Next \/ UNCHANGED Promise!vars
    <3>1. call[t] # Nil /\ call[t].op = "Put" /\ call' = call /\ answer' = answer
      BY <2>6 DEF Put, Arrives
    <3>2. CASE Repeat(t)
      BY <2>4, <3>1, <3>2
    <3>3. CASE Execute(t, <<call[t].value>>, <<>>)
      <4>1. <<>> \in Seq(Value)
        OBVIOUS
      <4>2. \A s \in Thread : Effect(s)' = IF s = t THEN <<>> ELSE Effect(s)
        BY <2>5, <3>1, <3>3, <4>1
      <4>3. Effect(t) = Nil /\ \A s \in Thread : Wanted(s)' = Wanted(s)
        BY <3>1, <3>3 DEF Execute, Duplicate, Effect, Wanted
      <4>4. /\ Wanted(t) # Nil
            /\ Wanted(t).op = "Put"
            /\ Wanted(t).key = call[t].key /\ Wanted(t).value = call[t].value
        BY <3>1 DEF Wanted, TypeOK, Args
      <4>5. data' = [data EXCEPT ![call[t].key] = <<call[t].value>>]
        BY <3>3 DEF Execute
      <4>6. Promise!Write(t)
        BY <3>1, <4>2, <4>3, <4>4, <4>5 DEF Promise!Write
      <4> QED
        BY <4>6 DEF Promise!Next
    <3> QED
      BY <2>6, <3>2, <3>3 DEF Put
  <2>7. ASSUME NEW t \in Thread, AppendTo(t) PROVE Promise!Next \/ UNCHANGED Promise!vars
    <3> DEFINE old == data[call[t].key]
    <3>1. call[t] # Nil /\ call[t].op = "Append" /\ call' = call /\ answer' = answer
      BY <2>7 DEF AppendTo, Arrives
    <3>2. CASE Repeat(t)
      BY <2>4, <3>1, <3>2
    <3>3. CASE Execute(t, Append(old, call[t].value), old)
      <4>1. old \in Seq(Value)
        BY <3>1 DEF TypeOK, Args
      <4>2. \A s \in Thread : Effect(s)' = IF s = t THEN old ELSE Effect(s)
        BY <2>5, <3>1, <3>3, <4>1
      <4>3. Effect(t) = Nil /\ \A s \in Thread : Wanted(s)' = Wanted(s)
        BY <3>1, <3>3 DEF Execute, Duplicate, Effect, Wanted
      <4>4. /\ Wanted(t) # Nil
            /\ Wanted(t).op = "Append"
            /\ Wanted(t).key = call[t].key /\ Wanted(t).value = call[t].value
        BY <3>1 DEF Wanted, TypeOK, Args
      <4>5. data' = [data EXCEPT ![call[t].key] = Append(old, call[t].value)]
        BY <3>3 DEF Execute
      <4>6. Promise!Write(t)
        BY <3>1, <4>2, <4>3, <4>4, <4>5 DEF Promise!Write
      <4> QED
        BY <4>6 DEF Promise!Next
    <3> QED
      BY <2>7, <3>2, <3>3 DEF AppendTo
  <2>8. ASSUME NEW t \in Thread, Return(t) PROVE Promise!Next
    <3>1. Wanted(t) # Nil /\ Effect(t) = reply[t]
      BY <2>8 DEF Return, Wanted, Effect, TypeOK, Args, IdsInStep
    <3>2. \A s \in Thread : /\ Wanted(s)' = IF s = t THEN Nil ELSE Wanted(s)
                           /\ Effect(s)' = IF s = t THEN Nil ELSE Effect(s)
      BY <2>8 DEF Return, Wanted, Effect, TypeOK
    <3>3. Promise!Return(t)
      BY <2>8, <3>1, <3>2 DEF Return, Promise!Return
    <3> QED
      BY <3>3 DEF Promise!Next
  <2>9. ASSUME NEW t \in Thread, LoseReply(t) PROVE Promise!Next \/ UNCHANGED Promise!vars
    <3>1. call[t] # Nil
      BY <2>9 DEF LoseReply, IdsInStep
    <3>2. CASE call[t].op = "Get"
      <4>1. Wanted(t) # Nil /\ Wanted(t).op = "Get"
        BY <3>1, <3>2 DEF Wanted, TypeOK, Args
      <4>2. \A s \in Thread : Wanted(s)' = Wanted(s)
        BY <2>9 DEF LoseReply, Wanted
      <4>3. \A s \in Thread : Effect(s)' = IF s = t THEN Nil ELSE Effect(s)
        BY <2>9, <3>1, <3>2 DEF LoseReply, Effect, TypeOK
      <4>4. Promise!Read(t)
        BY <2>9, <4>1, <4>2, <4>3 DEF LoseReply, Promise!Read
      <4> QED
        BY <4>4 DEF Promise!Next
    <3>3. CASE call[t].op # "Get"
      BY <2>9, <3>1, <3>3 DEF LoseReply, Promise!vars, Wanted, Effect, TypeOK
    <3> QED
      BY <3>2, <3>3
  <2> QED
    BY <2>1, <2>2, <2>3, <2>6, <2>7, <2>8, <2>9 DEF Next
<1> QED
  BY <1>1, <1>2, KvSrvTypeCorrect, KvSrvIdsInStep, PTL
  DEF Spec, Linearizable, Promise!Spec
=============================================================================
