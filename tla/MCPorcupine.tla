---------------------------- MODULE MCPorcupine ----------------------------
(* Histories for TLC.  Times 1..MaxTime are few enough that many of them are *)
(* equal, so that most operations overlap and byTime has ties to break.      *)
EXTENDS Porcupine, TLC

CONSTANTS o1, o2, o3, x, y, MaxTime

Timed(inputs) ==
    {[key |-> i.key, kind |-> i.kind, value |-> i.value, out |-> i.out,
      call |-> c, ret |-> r] : i \in inputs, c \in 1..MaxTime, r \in 1..MaxTime}

Input(key, kind, value, outs) ==
    {[key |-> key, kind |-> kind, value |-> value, out |-> out] : out \in outs}

Puts(key)        == Input(key, "put", <<"a">>, {<<>>})
RetAppends(key)  == Input(key, "appendRet", <<"b">>, {<<>>, <<"a">>})
Appends(key)     == Input(key, "append", <<"b">>, {<<>>}) \cup RetAppends(key)
Reads(key, outs) == Input(key, "get", <<>>, outs)

(* What a Get can answer when everything is about one key, and when the Append *)
(* is about another.                                                           *)
All  == {<<>>, <<"a">>, <<"b">>, <<"a", "b">>}
Some == {<<>>, <<"a">>}

Three(as, bs, cs) ==
    {(o1 :> a @@ o2 :> b @@ o3 :> c) : a \in Timed(as), b \in Timed(bs), c \in Timed(cs)}

MCHistories ==
    {h \in Three(Puts(x), Appends(x), Reads(x, All))
             \cup Three(Puts(x), RetAppends(y), Reads(x, Some))
             \cup Three(Puts(x), RetAppends(x), Reads(y, Some))
             \cup {(o1 :> a) : a \in Timed(Puts(x))} \cup {<<>>} :
        \A o \in DOMAIN h : h[o].call <= h[o].ret}
=============================================================================
