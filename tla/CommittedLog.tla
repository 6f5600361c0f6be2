---------------------------- MODULE CommittedLog ----------------------------
(***************************************************************************)
(* What Raft promises to the service above it: there is one log that only  *)
(* grows, and every peer hands a beginning of it to its service, never     *)
(* less than before.  A peer that was restarted begins again at the front  *)
(* of the same log, even if everyone who knew of its end was restarted.    *)
(***************************************************************************)
EXTENDS Naturals, Sequences

CONSTANT Server

VARIABLES
    clog,      \* everything that was ever committed, in its order
    seen       \* what each peer takes for committed

\* The sequence l begins with the sequence k.
Begins(l, k) == Len(k) <= Len(l) /\ SubSeq(l, 1, Len(k)) = k

Init == clog = <<>> /\ seen = [p \in Server |-> <<>>]

\* The peer finds that more is committed than anyone knew of.
Commit(p) ==
    /\ clog' # clog /\ Begins(clog', clog)
    /\ seen' = [seen EXCEPT ![p] = clog']
    /\ Begins(clog', seen[p])

\* The peer is told of more that was committed before.
Learn(p) ==
    /\ \E n \in Len(seen[p])..Len(clog) : seen' = [seen EXCEPT ![p] = SubSeq(clog, 1, n)]
    /\ UNCHANGED clog

Restart(p) ==
    /\ seen' = [seen EXCEPT ![p] = <<>>]
    /\ UNCHANGED clog

Next == \E p \in Server : Commit(p) \/ Learn(p) \/ Restart(p)

Spec == Init /\ [][Next]_<<clog, seen>>
=============================================================================
