------------------------------ MODULE Porcupine ------------------------------
(***************************************************************************)
(* The linearizability checker of src/src/porcupine with the key/value     *)
(* model of src/src/models/kv.go: one call of CheckOperations,             *)
(* CheckOperationsTimeout or CheckOperationsVerbose.  checkParallel starts *)
(* a checkSingle goroutine for each partition and waits for their answers, *)
(* the first bad one, or the timer.                                        *)
(*                                                                         *)
(* A string is the sequence of the letters put together in it.  The bitset *)
(* of linearized operations is a set of operations, and the cache, a map   *)
(* from hashes to lists, is the set of what is in those lists.  The linked *)
(* list keeps its pointers.                                                *)
(***************************************************************************)
EXTENDS Integers, Sequences, FiniteSets

CONSTANTS
    Op,         \* names of operations
    Key,        \* keys of the store
    Histories,  \* the histories that may be checked
    Nil         \* no node, no value

\* An Operation with its KvInput and KvOutput; "appendRet" is any other Op code.
Kinds == {"get", "put", "append", "appendRet"}

ASSUME PorcupineAssumption ==
    \A h \in Histories :
        /\ DOMAIN h \subseteq Op /\ IsFiniteSet(DOMAIN h)
        /\ \A o \in DOMAIN h :
              /\ h[o].key \in Key /\ h[o].kind \in Kinds /\ h[o].value \in Seq(STRING)
              /\ h[o].call \in Nat /\ h[o].ret \in Nat /\ h[o].call <= h[o].ret
ASSUME NilAssumption ==
    /\ Nil \notin [kind : {"call", "return", "head"}, id : Op \cup Key]
    /\ Nil \notin {"Ok", "Illegal", "Unknown"}

VARIABLES
    \* arguments
    hist,       \* the history
    verbose,    \* computeInfo
    timer,      \* a timeout was given
    \* checkSingle, one per partition
    order,      \* its argument, the entries of the partition by time
    next, prev, \* links of the nodes that makeLinkedEntries makes of them
    entry,      \* where the search is
    state,      \* value of the key after the operations in calls
    calls,      \* stack of operations taken, each with the state before it
    cache,      \* combinations that were tried
    longest,    \* the longest sequence each operation was part of
    pc,         \* search, ended
    \* checkParallel
    results,    \* the channel
    kill, count, ok, timedOut,
    waiting,    \* select (the loop), drain (after it), returned
    verdict     \* what is returned

args   == <<hist, verbose, timer, order>>
search == <<next, prev, entry, state, calls, cache, longest>>
main   == <<kill, count, ok, timedOut, waiting, verdict>>
vars   == <<args, search, pc, results, main>>

-----------------------------------------------------------------------------
(* Entries, nodes and the linked list *)

Call(o)   == [kind |-> "call", id |-> o]
Return(o) == [kind |-> "return", id |-> o]
Front(k)  == [kind |-> "head", id |-> k]

\* Partition: the operations of one key, a partition for each key that occurs.
Ops(k) == {o \in DOMAIN hist : hist[o].key = k}
Partition == {hist[o].key : o \in DOMAIN hist}
Nodes(k) == {Call(o) : o \in Ops(k)} \cup {Return(o) : o \in Ops(k)}
AllNodes == {Front(k) : k \in Partition} \cup UNION {Nodes(k) : k \in Partition}

Time(n) == IF n.kind = "call" THEN hist[n.id].call ELSE hist[n.id].ret

\* byTime: a call comes before a return of the same time.
Less(m, n) ==
    \/ Time(m) < Time(n)
    \/ Time(m) = Time(n) /\ m.kind = "call" /\ n.kind = "return"

\* makeEntries: sort.Sort is not stable, so every order that byTime allows, put
\* together entry by entry.
MakeEntries(k) ==
    LET Rest(s) == Nodes(k) \ {s[i] : i \in DOMAIN s}
        Longer(s) == {Append(s, n) : n \in {n \in Rest(s) : \A m \in Rest(s) : ~Less(m, n)}}
        sorted[i \in 0..Cardinality(Nodes(k))] ==
            IF i = 0 THEN {<<>>} ELSE UNION {Longer(s) : s \in sorted[i - 1]}
    IN  sorted[Cardinality(Nodes(k))]

\* The list of a partition with its head node.
Linked(k) == <<Front(k)>> \o order[k]

Place(s, n) == CHOOSE i \in DOMAIN s : s[i] = n

\* makeLinkedEntries and the insertion of headEntry.
Link(n, d) ==
    LET s == Linked(IF n.kind = "head" THEN n.id ELSE hist[n.id].key)
        i == Place(s, n) + d
    IN  IF i \in DOMAIN s THEN s[i] ELSE Nil

\* Fault: the return node is linked out first, with the links of before.
FaultyLift(e, nx, pv) ==
    LET m == Return(e.id)
    IN  [next |-> [nx EXCEPT ![pv[m]] = nx[m], ![pv[e]] = nx[e]],
         prev |-> [n \in DOMAIN pv |-> IF n = nx[e] THEN pv[e]
                                       ELSE IF n = nx[m] THEN pv[m] ELSE pv[n]]]

\* lift: take a call and its return out of the list.
Lift(e, nx, pv) ==
    LET m  == Return(e.id)
        n1 == [nx EXCEPT ![pv[e]] = nx[e]]
        p1 == [pv EXCEPT ![nx[e]] = pv[e]]
    IN  [next |-> [n1 EXCEPT ![p1[m]] = n1[m]],
         prev |-> IF n1[m] = Nil THEN p1 ELSE [p1 EXCEPT ![n1[m]] = p1[m]]]

\* unlift: put them back, where their own links still point.
Unlift(e, nx, pv) ==
    LET m  == Return(e.id)
        n1 == [nx EXCEPT ![pv[m]] = m]
        p1 == IF nx[m] = Nil THEN pv ELSE [pv EXCEPT ![nx[m]] = m]
    IN  [next |-> [n1 EXCEPT ![p1[e]] = e],
         prev |-> [p1 EXCEPT ![n1[e]] = e]]

-----------------------------------------------------------------------------
(* KvModel *)

\* Step's first result: may the operation answer what it did answer?
StepOk(s, o) == hist[o].kind \in {"get", "appendRet"} => hist[o].out = s

\* Step's second result.
StepState(s, o) ==
    CASE hist[o].kind = "get" -> s
      [] hist[o].kind = "put" -> hist[o].value
      [] OTHER                -> s \o hist[o].value

-----------------------------------------------------------------------------
Init ==
    /\ hist \in Histories
    /\ verbose \in BOOLEAN /\ timer \in BOOLEAN
    /\ order \in [Partition -> UNION {MakeEntries(k) : k \in Partition}]
    /\ \A k \in Partition : order[k] \in MakeEntries(k)
    /\ next = [n \in AllNodes |-> Link(n, 1)]
    /\ prev = [n \in AllNodes |-> Link(n, -1)]
    /\ entry = [k \in Partition |-> order[k][1]]
    /\ state = [k \in Partition |-> <<>>]
    /\ calls = [k \in Partition |-> <<>>]
    /\ cache = [k \in Partition |-> {}]
    /\ longest = [o \in DOMAIN hist |-> Nil]
    /\ pc = [k \in Partition |-> "search"]
    /\ results = <<>>
    /\ kill = FALSE /\ count = 0 /\ ok = TRUE /\ timedOut = FALSE
    /\ waiting = "select" /\ verdict = Nil

(* checkSingle: an action is one turn of its loop *)

Ids(k) == [i \in DOMAIN calls[k] |-> calls[k][i].id]
Linearized(k) == {calls[k][i].id : i \in DOMAIN calls[k]}

Searching(k) == pc[k] = "search" /\ ~kill /\ next[Front(k)] # Nil

\* The combination that taking the operation at entry leads to.
Combination(k) ==
    LET o == entry[k].id IN <<Linearized(k) \cup {o}, StepState(state[k], o)>>

\* Fault: what was tried is remembered without the state it led to.
FaultyTakes(k) ==
    /\ StepOk(state[k], entry[k].id)
    /\ ~\E c \in cache[k] : c[1] = Combination(k)[1]

\* The operation can come next, and that has not been tried yet (cacheContains).
Takes(k) ==
    /\ StepOk(state[k], entry[k].id)
    /\ Combination(k) \notin cache[k]

\* Take the operation and start again at the front of the list.
Take(k) ==
    LET e == entry[k]
        l == Lift(e, next, prev)
    IN  /\ Searching(k) /\ e.kind = "call" /\ Takes(k)
        /\ cache' = [cache EXCEPT ![k] = @ \cup {Combination(k)}]
        /\ calls' = [calls EXCEPT ![k] = Append(@, [id |-> e.id, state |-> state[k]])]
        /\ state' = [state EXCEPT ![k] = StepState(@, e.id)]
        /\ next' = l.next /\ prev' = l.prev
        /\ entry' = [entry EXCEPT ![k] = l.next[Front(k)]]
        /\ UNCHANGED <<args, longest, pc, results, main>>

\* An answer that does not fit, or a combination that was tried.
Skip(k) ==
    /\ Searching(k) /\ entry[k].kind = "call" /\ ~Takes(k)
    /\ entry' = [entry EXCEPT ![k] = next[entry[k]]]
    /\ UNCHANGED <<args, next, prev, state, calls, cache, longest, pc, results, main>>

\* Fault: every sequence is noted, also a shorter one.
FaultyNoteLongest(k) ==
    [o \in DOMAIN longest |-> IF o \in Ops(k) THEN Ids(k) ELSE longest[o]]

\* Note the sequence for the operations that were in no longer one.
NoteLongest(k) ==
    [o \in DOMAIN longest |->
        IF /\ o \in Linearized(k)
           /\ longest[o] = Nil \/ Len(calls[k]) > Len(longest[o])
        THEN Ids(k) ELSE longest[o]]

\* A return that no operation taken explains: undo the last one and go on
\* behind it.
Backtrack(k) ==
    LET c == calls[k]
        t == c[Len(c)]
        l == Unlift(Call(t.id), next, prev)
    IN  /\ Searching(k) /\ entry[k].kind = "return" /\ c # <<>>
        /\ longest' = IF verbose THEN NoteLongest(k) ELSE longest
        /\ state' = [state EXCEPT ![k] = t.state]
        /\ calls' = [calls EXCEPT ![k] = SubSeq(c, 1, Len(c) - 1)]
        /\ next' = l.next /\ prev' = l.prev
        /\ entry' = [entry EXCEPT ![k] = l.next[Call(t.id)]]
        /\ UNCHANGED <<args, cache, pc, results, main>>

\* return, and results <- ok
Answer(k, b) ==
    /\ pc' = [pc EXCEPT ![k] = "ended"]
    /\ results' = Append(results, b)

\* Nothing is left to undo.
GiveUp(k) ==
    /\ Searching(k) /\ entry[k].kind = "return" /\ calls[k] = <<>>
    /\ Answer(k, FALSE)
    /\ UNCHANGED <<args, search, main>>

Killed(k) ==
    /\ pc[k] = "search" /\ next[Front(k)] # Nil /\ kill
    /\ Answer(k, FALSE)
    /\ UNCHANGED <<args, search, main>>

\* The list is empty: every operation has its place.
Succeed(k) ==
    /\ pc[k] = "search" /\ next[Front(k)] = Nil
    /\ longest' = [o \in DOMAIN longest |-> IF o \in Ops(k) THEN Ids(k) ELSE longest[o]]
    /\ Answer(k, TRUE)
    /\ UNCHANGED <<args, next, prev, entry, state, calls, cache, main>>

CheckSingle(k) ==
    Take(k) \/ Skip(k) \/ Backtrack(k) \/ GiveUp(k) \/ Killed(k) \/ Succeed(k)

-----------------------------------------------------------------------------
(* checkParallel *)

\* Fault: it waits for one answer more than there are partitions.
FaultyAllIn(n) == n > Cardinality(Partition)

AllIn(n) == n >= Cardinality(Partition)

\* case result := <-results
Receive ==
    /\ waiting = "select" /\ results # <<>>
    /\ results' = Tail(results)
    /\ count' = count + 1
    /\ ok' = (ok /\ Head(results))
    /\ kill' = (~ok' /\ ~verbose)
    /\ waiting' = IF kill' \/ AllIn(count') THEN "drain" ELSE "select"
    /\ UNCHANGED <<args, search, pc, timedOut, verdict>>

\* case <-timeoutChan
Timeout ==
    /\ waiting = "select" /\ timer
    /\ timedOut' = TRUE /\ kill' = TRUE
    /\ waiting' = "drain"
    /\ UNCHANGED <<args, search, pc, results, count, ok, verdict>>

\* With computeInfo the answers that are still out are waited for, and not
\* looked at: they may be those of killed goroutines.
Drain ==
    /\ waiting = "drain" /\ verbose /\ ~AllIn(count) /\ results # <<>>
    /\ results' = Tail(results)
    /\ count' = count + 1
    /\ UNCHANGED <<args, search, pc, kill, ok, timedOut, waiting, verdict>>

Conclude ==
    /\ waiting = "drain" /\ (verbose => AllIn(count))
    /\ waiting' = "returned"
    /\ verdict' = IF ~ok THEN "Illegal" ELSE IF timedOut THEN "Unknown" ELSE "Ok"
    /\ UNCHANGED <<args, search, pc, results, kill, count, ok, timedOut>>

CheckParallel == Receive \/ Timeout \/ Drain \/ Conclude

Next == CheckParallel \/ \E k \in Partition : CheckSingle(k)

(* Every goroutine goes on running, and the timer goes off if there is one. *)
Fairness ==
    /\ WF_vars(CheckParallel)
    /\ \A k \in Key : WF_vars(k \in Partition /\ CheckSingle(k))

Spec == Init /\ [][Next]_vars /\ Fairness

-----------------------------------------------------------------------------
(* Properties *)

\* The places in the list s of the head and of the entries whose operations are
\* not in taken.
Remaining(s, taken) == {i \in DOMAIN s : s[i].kind = "head" \/ s[i].id \notin taken}

\* What stands next to place i when only the entries at the places R are there.
After(s, R, i) ==
    IF \E j \in R : i < j
    THEN s[CHOOSE j \in R : i < j /\ \A x \in R : i < x => j <= x] ELSE Nil
Before(s, R, i) ==
    IF \E j \in R : j < i
    THEN s[CHOOSE j \in R : j < i /\ \A x \in R : x < i => x <= j] ELSE Nil

\* After any sequence of lift and unlift the links run through exactly the
\* entries of the operations not taken, in their order and both ways, and the
\* search stands on one of them: no iteration meets a nil pointer.
ListIntact ==
    \A k \in Partition :
        LET s == Linked(k)
            R == Remaining(s, Linearized(k))
        IN  /\ \A i \in R : next[s[i]] = After(s, R, i) /\ prev[s[i]] = Before(s, R, i)
            /\ R # {1} => \E i \in R \ {1} : entry[k] = s[i]

\* The contents of a store with all the keys after each operation of the order
\* seq of operations of the history h.
Stores(h, seq) ==
    LET store[n \in 0..Len(seq)] ==
            IF n = 0 THEN [k \in Key |-> <<>>]
            ELSE LET o == h[seq[n]]
                 IN  [store[n - 1] EXCEPT ![o.key] =
                        IF o.kind = "get" THEN @
                        ELSE IF o.kind = "put" THEN o.value ELSE @ \o o.value]
    IN  store

\* Such a store could have executed that order: every Get and every Append that
\* returns answers the value before.
Legal(h, seq) ==
    LET store == Stores(h, seq)
    IN  \A n \in DOMAIN seq :
            LET o == h[seq[n]]
            IN  o.kind \in {"get", "appendRet"} => o.out = store[n - 1][o.key]

\* The order puts nothing before an operation that had returned when it began,
\* and leaves out no operation that had returned when one of it began.
RealTime(h, seq, all) ==
    \A n \in DOMAIN seq : \A o \in all :
        h[o].ret < h[seq[n]].call => \E m \in 1..(n - 1) : seq[m] = o

Linearization(h, seq) ==
    /\ \A m, n \in DOMAIN seq : m # n => seq[m] # seq[n]
    /\ RealTime(h, seq, DOMAIN h)
    /\ Legal(h, seq)

Linearizable(h) ==
    \E seq \in [1..Cardinality(DOMAIN h) -> DOMAIN h] : Linearization(h, seq)

\* Ok is returned only for a history that is linearizable as a whole, whatever
\* its partitions, and Illegal only for one that is not: neither the cache, nor
\* the order of the answers, nor a goroutine killed by a timeout or by another
\* one's failure makes a verdict wrong (the comments of CheckOperations and
\* CheckOperationsTimeout).
VerdictCorrect ==
    /\ verdict = "Ok" => Linearizable(hist)
    /\ verdict = "Illegal" => ~Linearizable(hist)

\* Every sequence handed to the visualizer is a linearization of the operations
\* in it, and contains the operation it is noted for.
PartialsLegal ==
    waiting = "returned" =>
        \A o \in DOMAIN longest : longest[o] # Nil =>
            /\ \E n \in DOMAIN longest[o] : longest[o][n] = o
            /\ RealTime(hist, longest[o], Ops(hist[o].key))
            /\ Legal(hist, longest[o])

\* A check returns and leaves no goroutine behind, with a timer or with at least
\* one operation in the history.  (Without both, KvModel's Partition yields no
\* partition, and checkParallel waits for an answer that nobody will send.)
Terminates ==
    (timer \/ Partition # {})
        ~> (waiting = "returned" /\ \A k \in Partition : pc[k] = "ended")
=============================================================================
