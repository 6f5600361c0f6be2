--------------------------- MODULE PorcupineProofs ---------------------------
(***************************************************************************)
(* The linearizability checker is right, for every history.               *)
(*                                                                         *)
(* The search of a partition is described at every depth of its stack: the *)
(* list as it was, the value reached, the call taken next.  Whatever was   *)
(* passed over at a depth, and whatever is in the cache and not on the     *)
(* stack, is Dead: no linearization of the whole history goes through it.  *)
(* A return that is met is then a dead end, and a search that ends there   *)
(* with an empty stack has shown that there is no linearization.  A search *)
(* that empties its list has an order of its key's operations, and the     *)
(* orders of all keys are merged into one of the history.                  *)
(***************************************************************************)
EXTENDS Porcupine, TLAPS, FiniteSetTheorems, SequenceTheorems

-----------------------------------------------------------------------------
(* Numbers *)

\* A bounded set of numbers that is not empty has a greatest one: otherwise the
\* numbers up to one of them would be finitely many and closed under successor.
LEMMA Greatest ==
    ASSUME NEW T, T \subseteq Nat, T # {}, NEW b \in Nat, \A x \in T : x <= b
    PROVE  \E x \in T : \A y \in T : y <= x
<1> SUFFICES ASSUME \A x \in T : \E y \in T : x < y
             PROVE  FALSE
  OBVIOUS
<1> DEFINE Down == {y \in Nat : \E x \in T : y <= x}
           Rest == Down \ {0}
           succ == [y \in Down |-> y + 1]
<1>1. IsFiniteSet(Down)
  <2>1. Down \in SUBSET Nat /\ \A y \in Down : y <= b
    OBVIOUS
  <2> HIDE DEF Down
  <2> QED
    BY <2>1, FS_BoundedSetOfNaturals
<1>2. 0 \in Down
  <2>1. PICK x \in T : x \in Nat
    OBVIOUS
  <2> QED
    BY <2>1
<1>3. ASSUME NEW y \in Down PROVE y + 1 \in Rest
  <2>1. PICK x \in T : y <= x
    OBVIOUS
  <2>2. PICK z \in T : x < z
    OBVIOUS
  <2>3. x \in Nat /\ y \in Nat /\ z \in Nat
    OBVIOUS
  <2> QED
    BY <2>1, <2>2, <2>3
<1> HIDE DEF Down
<1>4. succ \in [Down -> Rest]
  BY <1>3
<1>5. IsFiniteSet(Rest) /\ Cardinality(Rest) = Cardinality(Down) - 1 /\ Cardinality(Down) \in Nat
  BY <1>1, <1>2, FS_RemoveElement, FS_CardinalityType
<1> HIDE DEF Rest, succ
<1>6. \E x, y \in Down : x # y /\ succ[x] = succ[y]
  BY <1>1, <1>4, <1>5, FS_PigeonHole
<1> QED
  BY <1>6 DEF succ, Down

\* And every set of numbers has a least one: the greatest of its lower bounds.
LEMMA Least ==
    ASSUME NEW T, T \subseteq Nat, T # {}
    PROVE  \E x \in T : \A y \in T : x <= y
<1> DEFINE U == {y \in Nat : \A x \in T : y <= x}
<1>1. PICK t \in T : t \in Nat
  OBVIOUS
<1>2. U \subseteq Nat /\ 0 \in U /\ \A y \in U : y <= t
  BY <1>1
<1>3. PICK g \in U : \A y \in U : y <= g
  <2> HIDE DEF U
  <2> QED
    BY <1>1, <1>2, Greatest
<1>4. CASE g \in T
  BY <1>3, <1>4
<1>5. CASE g \notin T
  <2>1. g + 1 \in U
    BY <1>5
  <2> QED
    BY <1>3, <2>1
<1> QED
  BY <1>4, <1>5

\* What holds of 0, and of n + 1 whenever it holds of n < b, holds up to b.
LEMMA UpTo ==
    ASSUME NEW b \in Nat, NEW T, 0 \in T, \A n \in 0..(b - 1) : n \in T => n + 1 \in T
    PROVE  \A n \in 0..b : n \in T
<1> SUFFICES ASSUME NEW n \in 0..b, n \notin T PROVE FALSE
  OBVIOUS
<1> DEFINE U == {y \in 0..b : y \notin T}
<1>1. U \subseteq Nat /\ U # {}
  OBVIOUS
<1>2. PICK g \in U : \A y \in U : g <= y
  <2> HIDE DEF U
  <2> QED
    BY <1>1, Least
<1>3. g \in 0..b /\ g \notin T /\ g # 0
  OBVIOUS
<1>4. g - 1 \in 0..(b - 1) /\ g - 1 \notin U
  BY <1>2, <1>3
<1>5. g - 1 \in T
  BY <1>4
<1> QED
  BY <1>3, <1>4, <1>5

-----------------------------------------------------------------------------
(* Neighbours *)

LEMMA AfterIs ==
    ASSUME NEW s, NEW R, R \subseteq Nat, NEW i \in Nat, NEW j \in R, i < j,
           \A x \in R : i < x => j <= x
    PROVE  After(s, R, i) = s[j]
<1> DEFINE c == CHOOSE y \in R : i < y /\ \A x \in R : i < x => y <= x
<1>1. c \in R /\ i < c /\ \A x \in R : i < x => c <= x
  OBVIOUS
<1> HIDE DEF c
<1>2. c = j
  BY <1>1
<1> QED
  BY <1>2 DEF After, c

LEMMA BeforeIs ==
    ASSUME NEW s, NEW R, R \subseteq Nat, NEW i \in Nat, NEW j \in R, j < i,
           \A x \in R : x < i => x <= j
    PROVE  Before(s, R, i) = s[j]
<1> DEFINE c == CHOOSE y \in R : y < i /\ \A x \in R : x < i => x <= y
<1>1. c \in R /\ c < i /\ \A x \in R : x < i => x <= c
  OBVIOUS
<1> HIDE DEF c
<1>2. c = j
  BY <1>1
<1> QED
  BY <1>2 DEF Before, c

\* There is a next place in R, or none.
LEMMA AfterCases ==
    ASSUME NEW s, NEW R, R \subseteq Nat, NEW i \in Nat
    PROVE  \/ \E j \in R : /\ i < j /\ \A x \in R : i < x => j <= x
                           /\ After(s, R, i) = s[j]
           \/ (\A x \in R : x <= i) /\ After(s, R, i) = Nil
<1>1. CASE \E x \in R : i < x
  <2> DEFINE T == {x \in R : i < x}
  <2>1. T \subseteq Nat /\ T # {}
    BY <1>1
  <2>2. PICK j \in T : \A y \in T : j <= y
    <3> HIDE DEF T
    <3> QED
      BY <2>1, Least
  <2>3. j \in R /\ i < j /\ \A x \in R : i < x => j <= x
    BY <2>2
  <2> QED
    BY <2>3, AfterIs
<1>2. CASE ~\E x \in R : i < x
  <2>1. \A x \in R : x <= i
    BY <1>2
  <2> QED
    BY <1>2, <2>1 DEF After
<1> QED
  BY <1>1, <1>2

LEMMA BeforeCases ==
    ASSUME NEW s, NEW R, R \subseteq Nat, NEW i \in Nat
    PROVE  \/ \E j \in R : /\ j < i /\ \A x \in R : x < i => x <= j
                           /\ Before(s, R, i) = s[j]
           \/ (\A x \in R : i <= x) /\ Before(s, R, i) = Nil
<1>1. CASE \E x \in R : x < i
  <2> DEFINE T == {x \in R : x < i}
  <2>1. T \subseteq Nat /\ T # {}
    BY <1>1
  <2>4. \A x \in T : x <= i
    OBVIOUS
  <2>2. PICK j \in T : \A y \in T : y <= j
    <3> HIDE DEF T
    <3> QED
      BY <2>1, <2>4, Greatest
  <2>3. j \in R /\ j < i /\ \A x \in R : x < i => x <= j
    BY <2>2
  <2> QED
    BY <2>3, BeforeIs
<1>2. CASE ~\E x \in R : x < i
  <2>1. \A x \in R : i <= x
    BY <1>2
  <2> QED
    BY <1>2, <2>1 DEF Before
<1> QED
  BY <1>1, <1>2

\* The links nx and pv of the entries at the places D lead along the places R.
Follow(nx, pv, s, D, R) ==
    \A i \in D : nx[s[i]] = After(s, R, i) /\ pv[s[i]] = Before(s, R, i)

\* One entry is linked out, with its own links left as they are.
DropNext(nx, pv, x) == [nx EXCEPT ![pv[x]] = nx[x]]
DropPrev(nx, pv, x) == IF nx[x] = Nil THEN pv ELSE [pv EXCEPT ![nx[x]] = pv[x]]

\* It is linked in again where its own links point.
PutNext(nx, pv, x) == [nx EXCEPT ![pv[x]] = x]
PutPrev(nx, pv, x) == IF nx[x] = Nil THEN pv ELSE [pv EXCEPT ![nx[x]] = x]

\* Different places in D hold different entries, and all have links.
Apart(s, D, nx, pv) ==
    /\ \A i, j \in D : s[i] = s[j] => i = j
    /\ \A i \in D : s[i] \in DOMAIN nx /\ s[i] \in DOMAIN pv /\ s[i] # Nil

\* The links of what is at no place of D are left alone.
Untouched(nx, pv, n1, p1, s, D) ==
    /\ DOMAIN n1 = DOMAIN nx /\ DOMAIN p1 = DOMAIN pv
    /\ \A m : (\A i \in D : s[i] # m) => n1[m] = nx[m] /\ p1[m] = pv[m]

LEMMA AfterDropped ==
    ASSUME NEW s, NEW R, R \subseteq Nat, NEW x \in R, NEW i \in Nat,
           i < x => \E y \in R : i < y /\ y < x
    PROVE  After(s, R \ {x}, i) = After(s, R, i)
<1>1. CASE \E j \in R : /\ i < j /\ \A y \in R : i < y => j <= y
                        /\ After(s, R, i) = s[j]
  <2>1. PICK j \in R : /\ i < j /\ \A y \in R : i < y => j <= y
                       /\ After(s, R, i) = s[j]
    BY <1>1
  <2>2. j # x
    BY <2>1
  <2>3. j \in R \ {x} /\ R \ {x} \subseteq Nat /\ \A y \in R \ {x} : i < y => j <= y
    BY <2>1, <2>2
  <2> DEFINE Q == R \ {x}
  <2>4. j \in Q /\ Q \subseteq Nat
    BY <2>3
  <2>5. \A y \in Q : i < y => j <= y
    BY <2>3
  <2> HIDE DEF Q
  <2>7. i < j
    BY <2>1
  <2>6. After(s, Q, i) = s[j]
    BY <2>4, <2>5, <2>7, AfterIs
  <2> QED
    BY <2>1, <2>6 DEF Q
<1>2. CASE (\A y \in R : y <= i) /\ After(s, R, i) = Nil
  <2>1. ~\E y \in R \ {x} : i < y
    BY <1>2
  <2> QED
    BY <1>2, <2>1 DEF After
<1> QED
  BY <1>1, <1>2, AfterCases

LEMMA BeforeDropped ==
    ASSUME NEW s, NEW R, R \subseteq Nat, NEW x \in R, NEW i \in Nat,
           x < i => \E y \in R : x < y /\ y < i
    PROVE  Before(s, R \ {x}, i) = Before(s, R, i)
<1>1. CASE \E j \in R : /\ j < i /\ \A y \in R : y < i => y <= j
                        /\ Before(s, R, i) = s[j]
  <2>1. PICK j \in R : /\ j < i /\ \A y \in R : y < i => y <= j
                       /\ Before(s, R, i) = s[j]
    BY <1>1
  <2>2. j # x
    BY <2>1
  <2>3. j \in R \ {x} /\ R \ {x} \subseteq Nat /\ \A y \in R \ {x} : y < i => y <= j
    BY <2>1, <2>2
  <2> DEFINE Q == R \ {x}
  <2>4. j \in Q /\ Q \subseteq Nat
    BY <2>3
  <2>5. \A y \in Q : y < i => y <= j
    BY <2>3
  <2> HIDE DEF Q
  <2>7. j < i
    BY <2>1
  <2>6. Before(s, Q, i) = s[j]
    BY <2>4, <2>5, <2>7, BeforeIs
  <2> QED
    BY <2>1, <2>6 DEF Q
<1>2. CASE (\A y \in R : i <= y) /\ Before(s, R, i) = Nil
  <2>1. ~\E y \in R \ {x} : y < i
    BY <1>2
  <2> QED
    BY <1>2, <2>1 DEF Before
<1> QED
  BY <1>1, <1>2, BeforeCases

\* The neighbours of a place that is dropped become neighbours.
LEMMA BridgeAfter ==
    ASSUME NEW s, NEW R, R \subseteq Nat, NEW x \in R, NEW b \in R,
           b < x, \A y \in R : y < x => y <= b
    PROVE  After(s, R \ {x}, b) = After(s, R, x)
<1>1. CASE \E j \in R : /\ x < j /\ \A y \in R : x < y => j <= y
                        /\ After(s, R, x) = s[j]
  <2>1. PICK j \in R : /\ x < j /\ \A y \in R : x < y => j <= y
                       /\ After(s, R, x) = s[j]
    BY <1>1
  <2>2. j \in R \ {x} /\ R \ {x} \subseteq Nat /\ b < j /\ \A y \in R \ {x} : b < y => j <= y
    BY <2>1
  <2> DEFINE Q == R \ {x}
  <2>3. j \in Q /\ Q \subseteq Nat /\ b \in Nat
    BY <2>2
  <2>4. \A y \in Q : b < y => j <= y
    BY <2>2
  <2> HIDE DEF Q
  <2>5. After(s, Q, b) = s[j]
    BY <2>2, <2>3, <2>4, AfterIs
  <2> QED
    BY <2>1, <2>5 DEF Q
<1>2. CASE (\A y \in R : y <= x) /\ After(s, R, x) = Nil
  <2>1. ~\E y \in R \ {x} : b < y
    BY <1>2
  <2> QED
    BY <1>2, <2>1 DEF After
<1> QED
  BY <1>1, <1>2, AfterCases

LEMMA BridgeBefore ==
    ASSUME NEW s, NEW R, R \subseteq Nat, NEW x \in R, NEW a \in R,
           x < a, \A y \in R : x < y => a <= y
    PROVE  Before(s, R \ {x}, a) = Before(s, R, x)
<1>1. CASE \E j \in R : /\ j < x /\ \A y \in R : y < x => y <= j
                        /\ Before(s, R, x) = s[j]
  <2>1. PICK j \in R : /\ j < x /\ \A y \in R : y < x => y <= j
                       /\ Before(s, R, x) = s[j]
    BY <1>1
  <2>2. j \in R \ {x} /\ R \ {x} \subseteq Nat /\ j < a /\ \A y \in R \ {x} : y < a => y <= j
    BY <2>1
  <2> DEFINE Q == R \ {x}
  <2>3. j \in Q /\ Q \subseteq Nat /\ a \in Nat
    BY <2>2
  <2>4. \A y \in Q : y < a => y <= j
    BY <2>2
  <2> HIDE DEF Q
  <2>5. Before(s, Q, a) = s[j]
    BY <2>2, <2>3, <2>4, BeforeIs
  <2> QED
    BY <2>1, <2>5 DEF Q
<1>2. CASE (\A y \in R : x <= y) /\ Before(s, R, x) = Nil
  <2>1. ~\E y \in R \ {x} : y < a
    BY <1>2
  <2> QED
    BY <1>2, <2>1 DEF Before
<1> QED
  BY <1>1, <1>2, BeforeCases

\* An entry with one before it is linked out: what is left follows the rest of
\* the places, and it keeps its own links.
LEMMA DropFollows ==
    ASSUME NEW s, NEW R, R \subseteq Nat, NEW nx, NEW pv, NEW x \in R, NEW z \in R, z < x,
           Apart(s, R, nx, pv), Follow(nx, pv, s, R, R)
    PROVE  LET n1 == DropNext(nx, pv, s[x])
               p1 == DropPrev(nx, pv, s[x])
           IN  /\ Follow(n1, p1, s, R, R \ {x})
               /\ Untouched(nx, pv, n1, p1, s, R \ {x})
<1> DEFINE n1 == DropNext(nx, pv, s[x])
           p1 == DropPrev(nx, pv, s[x])
<1>0. /\ \A i \in R : nx[s[i]] = After(s, R, i) /\ pv[s[i]] = Before(s, R, i)
      /\ \A i, j \in R : s[i] = s[j] => i = j
      /\ \A i \in R : s[i] \in DOMAIN nx /\ s[i] \in DOMAIN pv /\ s[i] # Nil
  BY DEF Apart, Follow
<1>1. PICK b \in R : /\ b < x /\ \A y \in R : y < x => y <= b
                     /\ Before(s, R, x) = s[b]
  <2>1. x \in Nat /\ ~(\A y \in R : x <= y)
    OBVIOUS
  <2> QED
    BY <2>1, BeforeCases
<1>2. n1 = [nx EXCEPT ![s[b]] = After(s, R, x)]
  BY <1>0, <1>1 DEF DropNext
<1>3. ASSUME NEW i \in R PROVE n1[s[i]] = After(s, R \ {x}, i)
  <2>1. CASE i = b
    BY <1>0, <1>1, <1>2, <2>1, BridgeAfter
  <2>2. CASE i # b
    <3>1. s[i] # s[b] /\ n1[s[i]] = nx[s[i]]
      BY <1>0, <1>2, <2>2
    <3>2. i < x => i < b /\ b < x
      BY <1>1, <2>2
    <3>3. After(s, R \ {x}, i) = After(s, R, i)
      BY <3>2, AfterDropped
    <3> QED
      BY <1>0, <3>1, <3>3
  <2> QED
    BY <2>1, <2>2
<1>4. ASSUME NEW i \in R PROVE p1[s[i]] = Before(s, R \ {x}, i)
  <2>1. CASE \E a \in R : /\ x < a /\ \A y \in R : x < y => a <= y
                          /\ After(s, R, x) = s[a]
    <3>1. PICK a \in R : /\ x < a /\ \A y \in R : x < y => a <= y
                         /\ After(s, R, x) = s[a]
      BY <2>1
    <3>2. p1 = [pv EXCEPT ![s[a]] = Before(s, R, x)]
      BY <1>0, <3>1 DEF DropPrev
    <3>3. CASE i = a
      <4>3. x < a
        BY <3>1
      <4>4. \A y \in R : x < y => a <= y
        BY <3>1
      <4>1. Before(s, R \ {x}, a) = Before(s, R, x)
        BY <4>3, <4>4, BridgeBefore
      <4>2. p1[s[a]] = Before(s, R, x)
        BY <1>0, <3>2
      <4> QED
        BY <3>3, <4>1, <4>2
    <3>4. CASE i # a
      <4>1. s[i] # s[a] /\ p1[s[i]] = pv[s[i]]
        BY <1>0, <3>2, <3>4
      <4>2. x < i => x < a /\ a < i
        BY <3>1, <3>4
      <4>3. Before(s, R \ {x}, i) = Before(s, R, i)
        BY <4>2, BeforeDropped
      <4> QED
        BY <1>0, <4>1, <4>3
    <3> QED
      BY <3>3, <3>4
  <2>2. CASE (\A y \in R : y <= x) /\ After(s, R, x) = Nil
    <3>1. p1 = pv
      BY <1>0, <2>2 DEF DropPrev
    <3>2. ~(x < i)
      BY <2>2
    <3>3. Before(s, R \ {x}, i) = Before(s, R, i)
      BY <3>2, BeforeDropped
    <3> QED
      BY <1>0, <3>1, <3>3
  <2> QED
    BY <2>1, <2>2, AfterCases
<1>5. Untouched(nx, pv, n1, p1, s, R \ {x})
  <2>1. /\ DOMAIN n1 = DOMAIN nx
        /\ \A m : (\A i \in R \ {x} : s[i] # m) => n1[m] = nx[m]
    BY <1>1, <1>2
  <2>2. CASE \E a \in R : /\ x < a /\ \A y \in R : x < y => a <= y
                          /\ After(s, R, x) = s[a]
    <3>1. PICK a \in R : /\ x < a /\ \A y \in R : x < y => a <= y
                         /\ After(s, R, x) = s[a]
      BY <2>2
    <3>2. p1 = [pv EXCEPT ![s[a]] = Before(s, R, x)]
      BY <1>0, <3>1 DEF DropPrev
    <3>3. a \in R \ {x}
      BY <3>1
    <3> QED
      BY <2>1, <3>2, <3>3 DEF Untouched
  <2>3. CASE (\A y \in R : y <= x) /\ After(s, R, x) = Nil
    <3>1. p1 = pv
      BY <1>0, <2>3 DEF DropPrev
    <3> QED
      BY <2>1, <3>1 DEF Untouched
  <2> QED
    BY <2>2, <2>3, AfterCases
<1> QED
  BY <1>3, <1>4, <1>5 DEF Follow

\* It is linked in again: all follow the places with it.
LEMMA PutFollows ==
    ASSUME NEW s, NEW R, R \subseteq Nat, NEW nx, NEW pv, NEW x \in R, NEW z \in R, z < x,
           Apart(s, R, nx, pv), Follow(nx, pv, s, R, R \ {x})
    PROVE  LET n1 == PutNext(nx, pv, s[x])
               p1 == PutPrev(nx, pv, s[x])
           IN  /\ Follow(n1, p1, s, R, R)
               /\ Untouched(nx, pv, n1, p1, s, R \ {x})
<1> DEFINE n1 == PutNext(nx, pv, s[x])
           p1 == PutPrev(nx, pv, s[x])
<1>0. /\ \A i \in R : nx[s[i]] = After(s, R \ {x}, i) /\ pv[s[i]] = Before(s, R \ {x}, i)
      /\ \A i, j \in R : s[i] = s[j] => i = j
      /\ \A i \in R : s[i] \in DOMAIN nx /\ s[i] \in DOMAIN pv /\ s[i] # Nil
  BY DEF Apart, Follow
<1>1. PICK b \in R : /\ b < x /\ \A y \in R : y < x => y <= b
                     /\ Before(s, R, x) = s[b]
  <2>1. x \in Nat /\ ~(\A y \in R : x <= y)
    OBVIOUS
  <2> QED
    BY <2>1, BeforeCases
<1>2. n1 = [nx EXCEPT ![s[b]] = s[x]]
  <2>1. Before(s, R \ {x}, x) = Before(s, R, x)
    BY BeforeDropped
  <2> QED
    BY <1>0, <1>1, <2>1 DEF PutNext
<1>3. ASSUME NEW i \in R PROVE n1[s[i]] = After(s, R, i)
  <2>1. CASE i = b
    <3>1. \A y \in R : b < y => x <= y
      BY <1>1
    <3>2. After(s, R, b) = s[x]
      BY <1>1, <3>1, AfterIs
    <3> QED
      BY <1>0, <1>2, <2>1, <3>2
  <2>2. CASE i # b
    <3>1. s[i] # s[b] /\ n1[s[i]] = nx[s[i]]
      BY <1>0, <1>2, <2>2
    <3>2. i < x => i < b /\ b < x
      BY <1>1, <2>2
    <3>3. After(s, R \ {x}, i) = After(s, R, i)
      BY <3>2, AfterDropped
    <3> QED
      BY <1>0, <3>1, <3>3
  <2> QED
    BY <2>1, <2>2
<1>6. After(s, R \ {x}, x) = After(s, R, x)
  BY AfterDropped
<1>4. ASSUME NEW i \in R PROVE p1[s[i]] = Before(s, R, i)
  <2>1. CASE \E a \in R : /\ x < a /\ \A y \in R : x < y => a <= y
                          /\ After(s, R, x) = s[a]
    <3>1. PICK a \in R : /\ x < a /\ \A y \in R : x < y => a <= y
                         /\ After(s, R, x) = s[a]
      BY <2>1
    <3>2. p1 = [pv EXCEPT ![s[a]] = s[x]]
      BY <1>0, <1>6, <3>1 DEF PutPrev
    <3>3. CASE i = a
      <4>1. \A y \in R : y < a => y <= x
        BY <3>1
      <4>2. Before(s, R, a) = s[x]
        BY <3>1, <4>1, BeforeIs
      <4> QED
        BY <1>0, <3>2, <3>3, <4>2
    <3>4. CASE i # a
      <4>1. s[i] # s[a] /\ p1[s[i]] = pv[s[i]]
        BY <1>0, <3>2, <3>4
      <4>2. x < i => x < a /\ a < i
        BY <3>1, <3>4
      <4>3. Before(s, R \ {x}, i) = Before(s, R, i)
        BY <4>2, BeforeDropped
      <4> QED
        BY <1>0, <4>1, <4>3
    <3> QED
      BY <3>3, <3>4
  <2>2. CASE (\A y \in R : y <= x) /\ After(s, R, x) = Nil
    <3>1. p1 = pv
      BY <1>0, <1>6, <2>2 DEF PutPrev
    <3>2. ~(x < i)
      BY <2>2
    <3>3. Before(s, R \ {x}, i) = Before(s, R, i)
      BY <3>2, BeforeDropped
    <3> QED
      BY <1>0, <3>1, <3>3
  <2> QED
    BY <2>1, <2>2, AfterCases
<1>5. Untouched(nx, pv, n1, p1, s, R \ {x})
  <2>1. /\ DOMAIN n1 = DOMAIN nx
        /\ \A m : (\A i \in R \ {x} : s[i] # m) => n1[m] = nx[m]
    BY <1>1, <1>2
  <2>2. CASE \E a \in R : /\ x < a /\ \A y \in R : x < y => a <= y
                          /\ After(s, R, x) = s[a]
    <3>1. PICK a \in R : /\ x < a /\ \A y \in R : x < y => a <= y
                         /\ After(s, R, x) = s[a]
      BY <2>2
    <3>2. p1 = [pv EXCEPT ![s[a]] = s[x]]
      BY <1>0, <1>6, <3>1 DEF PutPrev
    <3>3. a \in R \ {x}
      BY <3>1
    <3> QED
      BY <2>1, <3>2, <3>3 DEF Untouched
  <2>3. CASE (\A y \in R : y <= x) /\ After(s, R, x) = Nil
    <3>1. p1 = pv
      BY <1>0, <1>6, <2>3 DEF PutPrev
    <3> QED
      BY <2>1, <3>1 DEF Untouched
  <2> QED
    BY <2>2, <2>3, AfterCases
<1> QED
  BY <1>3, <1>4, <1>5 DEF Follow

\* lift takes the call at place x and its return at place y out of the list.
LEMMA LiftFollows ==
    ASSUME NEW s, NEW R, R \subseteq Nat, NEW nx, NEW pv,
           NEW x \in R, NEW y \in R, NEW z \in R, z < x, x < y,
           NEW e, e = s[x], Return(e.id) = s[y],
           Apart(s, R, nx, pv), Follow(nx, pv, s, R, R)
    PROVE  LET l == Lift(e, nx, pv)
           IN  /\ Follow(l.next, l.prev, s, R \ {x}, R \ {x, y})
               /\ Follow(l.next, l.prev, s, {x}, R)
               /\ Untouched(nx, pv, l.next, l.prev, s, R \ {x})
<1> DEFINE Q == R \ {x}
           n1 == DropNext(nx, pv, s[x])
           p1 == DropPrev(nx, pv, s[x])
           n2 == DropNext(n1, p1, s[y])
           p2 == DropPrev(n1, p1, s[y])
           l == Lift(e, nx, pv)
<1>1. Follow(n1, p1, s, R, Q) /\ Untouched(nx, pv, n1, p1, s, Q)
  BY DropFollows
<1>2. nx[s[x]] # Nil
  <2>1. x \in Nat /\ ~(\A j \in R : j <= x)
    OBVIOUS
  <2>2. \E j \in R : After(s, R, x) = s[j]
    BY <2>1, AfterCases
  <2> QED
    BY <2>2 DEF Apart, Follow
<1>3. l.next = n2 /\ l.prev = p2
  BY <1>2 DEF Lift, DropNext, DropPrev
<1> HIDE DEF n1, p1
<1>4. Q \subseteq Nat /\ y \in Q /\ z \in Q /\ z < y /\ Q \ {y} = R \ {x, y}
  OBVIOUS
<1>5. Apart(s, Q, n1, p1) /\ Follow(n1, p1, s, Q, Q)
  BY <1>1 DEF Apart, Untouched, Follow
<1> HIDE DEF Q
<1>6. Follow(n2, p2, s, Q, Q \ {y}) /\ Untouched(n1, p1, n2, p2, s, Q \ {y})
  BY <1>4, <1>5, DropFollows
<1> HIDE DEF n2, p2, l
<1>7. Untouched(nx, pv, n2, p2, s, Q)
  BY <1>1, <1>6 DEF Untouched
<1>8. nx[s[x]] = After(s, R, x) /\ pv[s[x]] = Before(s, R, x)
  BY DEF Follow
<1>9. \A i \in Q : s[i] # s[x]
  BY DEF Q, Apart
<1>10. n2[s[x]] = After(s, R, x) /\ p2[s[x]] = Before(s, R, x)
  BY <1>7, <1>8, <1>9 DEF Untouched
<1> QED
  BY <1>3, <1>4, <1>6, <1>7, <1>10 DEF Q, l, Follow

\* unlift puts them back, if the call's links are those it had before it was
\* taken out, and the return's those it had then.
LEMMA UnliftFollows ==
    ASSUME NEW s, NEW R, R \subseteq Nat, NEW nx, NEW pv,
           NEW x \in R, NEW y \in R, NEW z \in R, z < x, x < y,
           NEW e, e = s[x], Return(e.id) = s[y],
           Apart(s, R, nx, pv), Follow(nx, pv, s, R \ {x}, R \ {x, y}),
           Follow(nx, pv, s, {x}, R)
    PROVE  LET l == Unlift(e, nx, pv)
           IN  /\ Follow(l.next, l.prev, s, R, R)
               /\ Untouched(nx, pv, l.next, l.prev, s, R \ {x})
<1> DEFINE Q == R \ {x}
           n1 == PutNext(nx, pv, s[y])
           p1 == PutPrev(nx, pv, s[y])
           n2 == PutNext(n1, p1, s[x])
           p2 == PutPrev(n1, p1, s[x])
           l == Unlift(e, nx, pv)
<1>1. Q \subseteq Nat /\ y \in Q /\ z \in Q /\ z < y /\ Q \ {y} = R \ {x, y}
  OBVIOUS
<1>2. Apart(s, Q, nx, pv) /\ Follow(nx, pv, s, Q, Q \ {y})
  BY <1>1 DEF Apart
<1>0. \A i \in Q : s[i] # s[x]
  BY DEF Apart
<1> HIDE DEF Q
<1>3. Follow(n1, p1, s, Q, Q) /\ Untouched(nx, pv, n1, p1, s, Q \ {y})
  BY <1>1, <1>2, PutFollows
<1> HIDE DEF n1, p1
<1>4. n1[s[x]] = After(s, R, x) /\ p1[s[x]] = Before(s, R, x)
  <2>1. \A i \in Q \ {y} : s[i] # s[x]
    BY <1>0
  <2> QED
    BY <1>3, <2>1 DEF Untouched, Follow
<1>5. Follow(n1, p1, s, R, Q)
  <2>1. After(s, Q, x) = After(s, R, x) /\ Before(s, Q, x) = Before(s, R, x)
    BY AfterDropped, BeforeDropped DEF Q
  <2>2. \A i \in R : i = x \/ i \in Q
    BY DEF Q
  <2> QED
    BY <1>3, <1>4, <2>1, <2>2 DEF Follow
<1>6. Apart(s, R, n1, p1)
  BY <1>3 DEF Apart, Untouched
<1>7. Follow(n2, p2, s, R, R) /\ Untouched(n1, p1, n2, p2, s, Q)
  BY <1>5, <1>6, PutFollows DEF Q
<1>8. n1[s[x]] # Nil
  <2>1. x \in Nat /\ ~(\A j \in R : j <= x)
    OBVIOUS
  <2>2. \E j \in R : After(s, R, x) = s[j]
    BY <2>1, AfterCases
  <2> QED
    BY <1>4, <2>2 DEF Apart
<1>9. l.next = n2 /\ l.prev = p2
  BY <1>8 DEF Unlift, PutNext, PutPrev, n1, p1
<1> HIDE DEF n2, p2, l
<1>10. Untouched(nx, pv, n2, p2, s, Q)
  BY <1>3, <1>7 DEF Untouched
<1> QED
  BY <1>7, <1>9, <1>10 DEF Q, l

-----------------------------------------------------------------------------
(* The search of one partition.  s is its list, c the stack, e where the      *)
(* search is, v the value reached, nx and pv the links and ch the cache.  At  *)
(* depth j the first j operations of the stack are taken.                     *)

Taken(c, j) == {c[x].id : x \in 1..j}
Left(s, c, j) == Remaining(s, Taken(c, j))

\* The value at depth j, and where the search at depth j stands.
Val(c, v, j) == IF j < Len(c) THEN c[j + 1].state ELSE v
Cur(c, e, j) == IF j < Len(c) THEN Call(c[j + 1].id) ELSE e

\* The entries of a partition in their order.
Sorted(k, s) ==
    /\ s \in Seq(Nodes(k) \cup {Front(k)}) /\ Len(s) >= 1 /\ s[1] = Front(k)
    /\ \A i, j \in 1..Len(s) : s[i] = s[j] => i = j
    /\ \A n \in Nodes(k) : \E i \in 2..Len(s) : s[i] = n
    /\ \A i, j \in 2..Len(s) : i < j => ~Less(s[j], s[i])

Frame(k) == [id : Ops(k), state : Seq(STRING)]

Stack(k, c, v) ==
    /\ c \in Seq(Frame(k)) /\ v \in Seq(STRING)
    /\ \A x, y \in 1..Len(c) : c[x].id = c[y].id => x = y

\* The operations taken fit: the stack holds the values before them.
Chain(c, v) ==
    /\ Val(c, v, 0) = <<>>
    /\ \A j \in 1..Len(c) : /\ StepOk(Val(c, v, j - 1), c[j].id)
                            /\ Val(c, v, j) = StepState(Val(c, v, j - 1), c[j].id)

\* The links run through what is left, and an operation's own entries are linked
\* to what was there when they were taken out.
Links(s, c, nx, pv) ==
    /\ Follow(nx, pv, s, Left(s, c, Len(c)), Left(s, c, Len(c)))
    /\ \A j \in 1..Len(c) :
          /\ Follow(nx, pv, s, {Place(s, Call(c[j].id))}, Left(s, c, j - 1))
          /\ Follow(nx, pv, s, {Place(s, Return(c[j].id))}, Left(s, c, j))

\* The search stands on an entry as long as there is one.
Standing(s, c, e) ==
    Left(s, c, Len(c)) # {1} => \E i \in Left(s, c, Len(c)) \ {1} : e = s[i]

\* The order seq takes the operations S of k first, and gives k the value v.
Passes(h, seq, k, S, v) ==
    \E n \in 0..Len(seq) :
        /\ S = {o \in DOMAIN h : h[o].key = k /\ \E i \in 1..n : seq[i] = o}
        /\ v = Stores(h, seq)[n][k]

\* No linearization passes through S and v.
Dead(h, k, S, v) ==
    \A seq \in [1..Cardinality(DOMAIN h) -> DOMAIN h] :
        Linearization(h, seq) => ~Passes(h, seq, k, S, v)

\* The search at depth j has passed over calls only, and over none that leads
\* on to a linearization.
PassedOver(k, s, c, e, v, j) ==
    \A p \in Left(s, c, j) : p < Place(s, Cur(c, e, j)) =>
        /\ s[p].kind # "return"
        /\ s[p].kind = "call" /\ StepOk(Val(c, v, j), s[p].id) =>
              Dead(hist, k, Taken(c, j) \cup {s[p].id}, StepState(Val(c, v, j), s[p].id))

Explored(k, s, c, e, v) ==
    \A j \in 0..Len(c) : Left(s, c, j) # {1} => PassedOver(k, s, c, e, v, j)

\* What is in the cache leads nowhere or is where the search is now.
Cached(k, c, v, ch) ==
    \A x \in ch : \/ Dead(hist, k, x[1], x[2])
                  \/ \E j \in 1..Len(c) : x = <<Taken(c, j), Val(c, v, j)>>

Search(k, s, c, e, v, nx, pv, ch) ==
    /\ Stack(k, c, v) /\ Chain(c, v)
    /\ Links(s, c, nx, pv) /\ Standing(s, c, e)
    /\ Explored(k, s, c, e, v) /\ Cached(k, c, v, ch)

\* A noted sequence is one that a search has been through.
Noted(o, q) ==
    /\ \E n \in DOMAIN q : q[n] = o
    /\ RealTime(hist, q, Ops(hist[o].key)) /\ Legal(hist, q)

\* A search that has nothing left, and one that found no linearization.
Found(k) == Left(Linked(k), calls[k], Len(calls[k])) = {1}
Failed(k) == calls[k] = <<>> /\ ~Found(k) /\ entry[k].kind = "return"

Ended == {k \in Partition : pc[k] = "ended"}

\* The answers: a bad one that is looked at is that of a search that failed, and
\* all are good only if all searches have found something.
Answers ==
    /\ count \in Nat /\ results \in Seq(BOOLEAN) /\ ok \in BOOLEAN
    /\ pc \in [Partition -> {"search", "ended"}]
    /\ count + Len(results) = Cardinality(Ended)
    /\ ~ok => \E k \in Partition : Failed(k)
    /\ waiting = "select" =>
          /\ ~kill /\ ~timedOut
          /\ (\E k \in Ended : ~Found(k)) => ~ok \/ \E i \in 1..Len(results) : ~results[i]
          /\ (\E i \in 1..Len(results) : ~results[i]) => \E k \in Partition : Failed(k)
    /\ waiting # "select" /\ ok /\ ~timedOut => \A k \in Partition : Found(k)

\* The verdict follows from the answers.
Concluded ==
    /\ verdict = "Ok" => waiting # "select" /\ ok /\ ~timedOut
    /\ verdict = "Illegal" => ~ok

-----------------------------------------------------------------------------
(* Entries and their places *)

LEMMA OpFacts ==
    ASSUME hist \in Histories, NEW k, NEW o \in Ops(k)
    PROVE  /\ o \in DOMAIN hist /\ hist[o].key = k /\ k \in Key /\ k \in Partition
           /\ hist[o].kind \in Kinds /\ hist[o].value \in Seq(STRING)
           /\ hist[o].call \in Nat /\ hist[o].ret \in Nat /\ hist[o].call <= hist[o].ret
BY PorcupineAssumption DEF Ops, Partition

LEMMA PartitionFacts ==
    ASSUME hist \in Histories
    PROVE  /\ Partition \subseteq Key /\ IsFiniteSet(Partition) /\ IsFiniteSet(DOMAIN hist)
           /\ \A k \in Partition : Ops(k) # {}
<1>1. IsFiniteSet(DOMAIN hist) /\ \A o \in DOMAIN hist : hist[o].key \in Key
  BY PorcupineAssumption
<1>2. IsFiniteSet(Partition)
  <2> DEFINE f == [o \in DOMAIN hist |-> hist[o].key]
  <2>1. f \in Surjection(DOMAIN hist, Partition)
    BY DEF Surjection, Partition
  <2> HIDE DEF f
  <2> QED
    BY <1>1, <2>1, FS_Surjection
<1> QED
  BY <1>1, <1>2 DEF Partition, Ops

LEMMA NodeFacts ==
    ASSUME hist \in Histories, NEW k, NEW n \in Nodes(k)
    PROVE  /\ n.id \in Ops(k) /\ n.kind \in {"call", "return"}
           /\ n.kind = "call" => n = Call(n.id)
           /\ n.kind = "return" => n = Return(n.id)
           /\ n # Nil /\ \A j : n # Front(j)
<1>1. CASE \E o \in Ops(k) : n = Call(o)
  <2>1. PICK o \in Ops(k) : n = Call(o)
    BY <1>1
  <2>2. o \in Op
    BY PorcupineAssumption DEF Ops
  <2> QED
    BY <2>1, <2>2, NilAssumption DEF Call, Front
<1>2. CASE \E o \in Ops(k) : n = Return(o)
  <2>1. PICK o \in Ops(k) : n = Return(o)
    BY <1>2
  <2>2. o \in Op
    BY PorcupineAssumption DEF Ops
  <2> QED
    BY <2>1, <2>2, NilAssumption DEF Return, Front
<1> QED
  BY <1>1, <1>2 DEF Nodes

LEMMA NodesOf ==
    ASSUME NEW k, NEW o \in Ops(k)
    PROVE  /\ Call(o) \in Nodes(k) /\ Return(o) \in Nodes(k) /\ Call(o) # Return(o)
           /\ Call(o).id = o /\ Return(o).id = o
           /\ Call(o).kind = "call" /\ Return(o).kind = "return"
BY DEF Nodes, Call, Return

LEMMA FrontFacts ==
    ASSUME NEW k \in Key
    PROVE  Front(k).kind = "head" /\ Front(k) # Nil
BY NilAssumption DEF Front

LEMMA PlaceIs ==
    ASSUME NEW k, NEW s, Sorted(k, s), NEW i \in 1..Len(s)
    PROVE  Place(s, s[i]) = i
<1>1. DOMAIN s = 1..Len(s) /\ \A x, y \in 1..Len(s) : s[x] = s[y] => x = y
  BY LenProperties DEF Sorted
<1> DEFINE p == CHOOSE x \in DOMAIN s : s[x] = s[i]
<1>2. p \in DOMAIN s /\ s[p] = s[i]
  BY <1>1
<1> HIDE DEF p
<1>3. p = i
  BY <1>1, <1>2
<1> QED
  BY <1>3 DEF Place, p

LEMMA ListFacts ==
    ASSUME hist \in Histories, NEW k \in Partition, NEW s, Sorted(k, s)
    PROVE  /\ Len(s) \in Nat /\ Len(s) >= 1 /\ DOMAIN s = 1..Len(s)
           /\ s[1] = Front(k) /\ s[1].kind = "head"
           /\ \A i \in 2..Len(s) : s[i] \in Nodes(k)
           /\ \A i, j \in 1..Len(s) : s[i] = s[j] => i = j
<1>1. k \in Key
  BY PartitionFacts
<1>2. Len(s) \in Nat /\ DOMAIN s = 1..Len(s) /\ Len(s) >= 1 /\ s[1] = Front(k)
  BY LenProperties DEF Sorted
<1>3. ASSUME NEW i \in 2..Len(s) PROVE s[i] \in Nodes(k)
  <2>1. s[i] \in Nodes(k) \cup {Front(k)}
    BY <1>2, ElementOfSeq DEF Sorted
  <2>2. s[i] # s[1]
    BY <1>2 DEF Sorted
  <2> QED
    BY <1>2, <2>1, <2>2
<1> QED
  BY <1>1, <1>2, <1>3, FrontFacts DEF Sorted

LEMMA PlaceFacts ==
    ASSUME hist \in Histories, NEW k \in Partition, NEW s, Sorted(k, s), NEW n \in Nodes(k)
    PROVE  /\ Place(s, n) \in 2..Len(s) /\ Place(s, n) \in Nat /\ Place(s, n) > 1
           /\ s[Place(s, n)] = n
<1>1. PICK i \in 2..Len(s) : s[i] = n
  BY DEF Sorted
<1>2. Len(s) \in Nat /\ i \in 1..Len(s)
  BY ListFacts
<1>3. Place(s, n) = i
  BY <1>1, <1>2, PlaceIs
<1> QED
  BY <1>1, <1>2, <1>3

\* The list is in the order of time: a call comes before its return, and an
\* operation's return before another's call exactly if it was before it.
LEMMA TimeOrder ==
    ASSUME hist \in Histories, NEW k \in Partition, NEW s, Sorted(k, s),
           NEW o \in Ops(k), NEW r \in Ops(k)
    PROVE  /\ Place(s, Call(o)) < Place(s, Return(o))
           /\ hist[r].ret < hist[o].call <=> Place(s, Return(r)) < Place(s, Call(o))
<1> DEFINE co == Place(s, Call(o))
           ro == Place(s, Return(o))
           rr == Place(s, Return(r))
<1>1. /\ Call(o) \in Nodes(k) /\ Return(o) \in Nodes(k) /\ Return(r) \in Nodes(k)
      /\ Call(o) # Return(o) /\ Call(o) # Return(r)
  BY DEF Nodes, Call, Return
<1>2. /\ co \in 2..Len(s) /\ ro \in 2..Len(s) /\ rr \in 2..Len(s)
      /\ s[co] = Call(o) /\ s[ro] = Return(o) /\ s[rr] = Return(r)
  BY <1>1, PlaceFacts
<1>3. /\ hist[o].call \in Nat /\ hist[o].ret \in Nat /\ hist[o].call <= hist[o].ret
      /\ hist[r].ret \in Nat
  BY OpFacts
<1>4. Len(s) \in Nat /\ \A i, j \in 2..Len(s) : i < j => ~Less(s[j], s[i])
  BY ListFacts DEF Sorted
<1> HIDE DEF co, ro, rr
<1>5. co # ro /\ co # rr /\ co \in Nat /\ ro \in Nat /\ rr \in Nat
  BY <1>1, <1>2, <1>4
<1>6. Less(Call(o), Return(o))
  BY <1>3 DEF Less, Time, Call, Return
<1>7. co < ro
  BY <1>2, <1>4, <1>5, <1>6
<1>8. Less(Call(o), Return(r)) <=> hist[o].call <= hist[r].ret
  BY <1>3 DEF Less, Time, Call, Return
<1>9. Less(Return(r), Call(o)) <=> hist[r].ret < hist[o].call
  BY <1>3 DEF Less, Time, Call, Return
<1>10. hist[r].ret < hist[o].call => rr < co
  BY <1>2, <1>4, <1>5, <1>9
<1>11. rr < co => hist[r].ret < hist[o].call
  BY <1>2, <1>3, <1>4, <1>5, <1>8
<1> QED
  BY <1>7, <1>10, <1>11 DEF co, ro, rr

\* What is left when operations are taken.
LEMMA RemainingFacts ==
    ASSUME hist \in Histories, NEW k \in Partition, NEW s, Sorted(k, s), NEW T
    PROVE  /\ Remaining(s, T) \subseteq 1..Len(s) /\ Remaining(s, T) \subseteq Nat
           /\ 1 \in Remaining(s, T)
           /\ \A i \in 2..Len(s) : i \in Remaining(s, T) <=> s[i].id \notin T
           /\ \A n \in Nodes(k) : Place(s, n) \in Remaining(s, T) <=> n.id \notin T
<1>1. /\ Len(s) \in Nat /\ Len(s) >= 1 /\ DOMAIN s = 1..Len(s) /\ s[1].kind = "head"
      /\ \A i \in 2..Len(s) : s[i] \in Nodes(k)
  BY ListFacts
<1>2. ASSUME NEW i \in 2..Len(s) PROVE i \in Remaining(s, T) <=> s[i].id \notin T
  <2>1. s[i].kind # "head"
    BY <1>1, NodeFacts
  <2> QED
    BY <1>1, <2>1 DEF Remaining
<1>3. \A n \in Nodes(k) : Place(s, n) \in 2..Len(s) /\ s[Place(s, n)] = n
  BY PlaceFacts
<1> QED
  BY <1>1, <1>2, <1>3 DEF Remaining

LEMMA RemainingTaken ==
    ASSUME hist \in Histories, NEW k \in Partition, NEW s, Sorted(k, s), NEW T,
           NEW o \in Ops(k)
    PROVE  Remaining(s, T \cup {o}) = Remaining(s, T) \ {Place(s, Call(o)), Place(s, Return(o))}
<1>1. /\ Len(s) \in Nat /\ Len(s) >= 1
      /\ \A i \in 2..Len(s) : s[i] \in Nodes(k)
  BY ListFacts
<1>2. /\ Place(s, Call(o)) \in 2..Len(s) /\ s[Place(s, Call(o))] = Call(o)
      /\ Place(s, Return(o)) \in 2..Len(s) /\ s[Place(s, Return(o))] = Return(o)
  BY NodesOf, PlaceFacts
<1> DEFINE co == Place(s, Call(o))
           ro == Place(s, Return(o))
           A == Remaining(s, T \cup {o})
           B == Remaining(s, T)
<1>3. /\ A \subseteq 1..Len(s) /\ B \subseteq 1..Len(s) /\ 1 \in A /\ 1 \in B
      /\ \A i \in 2..Len(s) : i \in A <=> s[i].id \notin T \cup {o}
      /\ \A i \in 2..Len(s) : i \in B <=> s[i].id \notin T
  BY RemainingFacts
<1>4. ASSUME NEW i \in 2..Len(s) PROVE s[i].id = o <=> i = co \/ i = ro
  <2>1. i \in 1..Len(s) /\ Place(s, s[i]) = i
    BY <1>1, PlaceIs
  <2>2. s[i] = Call(s[i].id) \/ s[i] = Return(s[i].id)
    BY <1>1, NodeFacts
  <2>3. Call(o).id = o /\ Return(o).id = o
    BY DEF Call, Return
  <2> QED
    BY <1>2, <2>1, <2>2, <2>3
<1> HIDE DEF A, B, co, ro
<1>5. ASSUME NEW i PROVE i \in A <=> i \in B \ {co, ro}
  <2>1. i \in 1..Len(s) => i = 1 \/ i \in 2..Len(s)
    BY <1>1
  <2>3. i \in A \/ i \in B => i \in 1..Len(s)
    BY <1>3
  <2>2. co # 1 /\ ro # 1
    BY <1>1, <1>2 DEF co, ro
  <2> QED
    BY <1>3, <1>4, <2>1, <2>2, <2>3
<1> QED
  BY <1>5 DEF A, B, co, ro

-----------------------------------------------------------------------------
(* Depths *)

\* The stack c2 has one operation more than c, taken at the value v.
Pushed(c, v, c2, o) ==
    /\ Len(c2) = Len(c) + 1
    /\ \A x \in 1..Len(c) : c2[x] = c[x]
    /\ c2[Len(c) + 1].id = o /\ c2[Len(c) + 1].state = v

LEMMA TakenFacts ==
    ASSUME NEW k, NEW c, NEW v, Stack(k, c, v), NEW j \in 0..Len(c)
    PROVE  /\ Taken(c, j) \subseteq Ops(k) /\ Taken(c, 0) = {}
           /\ Taken(c, j) \subseteq Taken(c, Len(c))
           /\ j > 0 => /\ c[j].id \in Ops(k) /\ c[j].state \in Seq(STRING)
                       /\ Taken(c, j) = Taken(c, j - 1) \cup {c[j].id}
                       /\ c[j].id \notin Taken(c, j - 1)
<1>1. Len(c) \in Nat
  BY LenProperties DEF Stack
<1>2. \A x \in 1..Len(c) : c[x] \in Frame(k)
  BY ElementOfSeq DEF Stack
<1>3. \A x \in 1..Len(c) : c[x].id \in Ops(k) /\ c[x].state \in Seq(STRING)
  BY <1>2 DEF Frame
<1>4. Taken(c, j) \subseteq Ops(k) /\ Taken(c, 0) = {}
  BY <1>1, <1>3 DEF Taken
<1>5. Taken(c, j) \subseteq Taken(c, Len(c))
  BY <1>1 DEF Taken
<1>6. ASSUME j > 0
      PROVE  Taken(c, j) = Taken(c, j - 1) \cup {c[j].id} /\ c[j].id \notin Taken(c, j - 1)
  <2>1. j \in 1..Len(c) /\ j - 1 \in 0..Len(c)
    BY <1>1, <1>6
  <2>2. \A x : x \in 1..j <=> x \in 1..(j - 1) \/ x = j
    BY <1>1, <2>1
  <2>3. Taken(c, j) = Taken(c, j - 1) \cup {c[j].id}
    BY <2>2 DEF Taken
  <2>4. ASSUME c[j].id \in Taken(c, j - 1) PROVE FALSE
    <3>1. PICK x \in 1..(j - 1) : c[x].id = c[j].id
      BY <2>4 DEF Taken
    <3>2. x \in 1..Len(c) /\ x # j
      BY <1>1, <2>1
    <3> QED
      BY <2>1, <3>1, <3>2 DEF Stack
  <2> QED
    BY <2>3, <2>4
<1> QED
  BY <1>1, <1>3, <1>4, <1>5, <1>6

LEMMA PushTaken ==
    ASSUME NEW c, NEW v, NEW c2, NEW o, Len(c) \in Nat, Pushed(c, v, c2, o), NEW j \in 0..Len(c)
    PROVE  Taken(c2, j) = Taken(c, j)
<1>1. \A x \in 1..j : c2[x] = c[x]
  BY DEF Pushed
<1> QED
  BY <1>1 DEF Taken

LEMMA PushLeft ==
    ASSUME NEW c, NEW v, NEW c2, NEW o, Len(c) \in Nat, Pushed(c, v, c2, o), NEW j \in 0..Len(c),
           NEW s
    PROVE  Left(s, c2, j) = Left(s, c, j)
BY PushTaken DEF Left

LEMMA PushTop ==
    ASSUME NEW c, NEW v, NEW c2, NEW o, Len(c) \in Nat, Pushed(c, v, c2, o)
    PROVE  Taken(c2, Len(c) + 1) = Taken(c, Len(c)) \cup {o}
<1>1. \A x : x \in 1..(Len(c) + 1) <=> x \in 1..Len(c) \/ x = Len(c) + 1
  OBVIOUS
<1> QED
  BY <1>1 DEF Taken, Pushed

LEMMA PushVal ==
    ASSUME NEW c, NEW v, NEW c2, NEW o, Len(c) \in Nat, Pushed(c, v, c2, o), NEW j \in 0..Len(c),
           NEW v2
    PROVE  Val(c2, v2, j) = Val(c, v, j)
<1>1. CASE j = Len(c)
  BY <1>1 DEF Val, Pushed
<1>2. CASE j < Len(c)
  <2>1. j + 1 \in 1..Len(c)
    BY <1>2
  <2> QED
    BY <1>2, <2>1 DEF Val, Pushed
<1> QED
  BY <1>1, <1>2

LEMMA PushValTop ==
    ASSUME NEW c, NEW v, NEW c2, NEW o, Len(c) \in Nat, Pushed(c, v, c2, o), NEW v2
    PROVE  Val(c2, v2, Len(c) + 1) = v2
BY DEF Val, Pushed

LEMMA PushCur ==
    ASSUME NEW c, NEW v, NEW c2, NEW o, Len(c) \in Nat, Pushed(c, v, c2, o),
           NEW j \in 0..(Len(c) - 1), NEW e, NEW e2
    PROVE  Cur(c2, e2, j) = Cur(c, e, j)
<1>1. j + 1 \in 1..Len(c) /\ j < Len(c) /\ j < Len(c) + 1
  OBVIOUS
<1> QED
  BY <1>1 DEF Cur, Pushed

LEMMA PushCurTop ==
    ASSUME NEW c, NEW v, NEW c2, NEW o, Len(c) \in Nat, Pushed(c, v, c2, o), NEW e2
    PROVE  Cur(c2, e2, Len(c)) = Call(o)
BY DEF Cur, Pushed

LEMMA ApartAll ==
    ASSUME hist \in Histories, NEW k \in Partition, NEW s, Sorted(k, s), NEW nx, NEW pv,
           DOMAIN nx = AllNodes, DOMAIN pv = AllNodes, NEW R, R \subseteq 1..Len(s)
    PROVE  Apart(s, R, nx, pv)
<1>1. /\ Len(s) \in Nat /\ s[1] = Front(k)
      /\ \A i \in 2..Len(s) : s[i] \in Nodes(k)
      /\ \A i, j \in 1..Len(s) : s[i] = s[j] => i = j
  BY ListFacts
<1>2. Front(k) \in AllNodes /\ Nodes(k) \subseteq AllNodes
  BY DEF AllNodes
<1>3. Front(k) # Nil
  BY PartitionFacts, FrontFacts
<1>4. ASSUME NEW i \in R PROVE s[i] \in AllNodes /\ s[i] # Nil
  <2>1. i = 1 \/ i \in 2..Len(s)
    BY <1>1
  <2> QED
    BY <1>1, <1>2, <1>3, <2>1, NodeFacts
<1> QED
  BY <1>1, <1>4 DEF Apart

\* The search ends when nothing is left.
LEMMA FrontNil ==
    ASSUME hist \in Histories, NEW k \in Partition, NEW s, Sorted(k, s), NEW c, NEW nx, NEW pv,
           DOMAIN nx = AllNodes, DOMAIN pv = AllNodes, Links(s, c, nx, pv)
    PROVE  /\ nx[Front(k)] = Nil <=> Left(s, c, Len(c)) = {1}
           /\ nx[Front(k)] # Nil =>
                 \E j \in Left(s, c, Len(c)) \ {1} :
                     /\ nx[Front(k)] = s[j]
                     /\ \A i \in Left(s, c, Len(c)) \ {1} : j <= i
<1> DEFINE R == Left(s, c, Len(c))
<1>1. /\ R \subseteq 1..Len(s) /\ R \subseteq Nat /\ 1 \in R
  BY RemainingFacts DEF Left
<1>2. s[1] = Front(k) /\ Len(s) \in Nat
  BY ListFacts
<1>3. nx[s[1]] = After(s, R, 1)
  BY <1>1 DEF Links, Follow
<1>4. \A i \in R : s[i] # Nil
  BY <1>1, ApartAll DEF Apart
<1>5. CASE \E j \in R : /\ 1 < j /\ \A x \in R : 1 < x => j <= x
                        /\ After(s, R, 1) = s[j]
  <2>1. PICK j \in R : /\ 1 < j /\ \A x \in R : 1 < x => j <= x
                       /\ After(s, R, 1) = s[j]
    BY <1>5
  <2> HIDE DEF R
  <2>2. \A i \in R \ {1} : 1 < i
    BY <1>1
  <2>3. j \in R \ {1} /\ \A i \in R \ {1} : j <= i
    BY <2>1, <2>2
  <2> QED
    BY <1>2, <1>3, <1>4, <2>1, <2>3 DEF R
<1>6. CASE (\A x \in R : x <= 1) /\ After(s, R, 1) = Nil
  <2> HIDE DEF R
  <2>1. R = {1}
    BY <1>1, <1>6
  <2> QED
    BY <1>2, <1>3, <1>6, <2>1 DEF R
<1> QED
  BY <1>1, <1>5, <1>6, AfterCases

\* The links of what was taken out earlier stay when only those of what is left
\* change.
LEMMA FrozenStay ==
    ASSUME hist \in Histories, NEW k \in Partition, NEW s, Sorted(k, s),
           NEW nx, NEW pv, NEW n1, NEW p1, NEW T, NEW D, D \subseteq Remaining(s, T),
           Untouched(nx, pv, n1, p1, s, D), NEW n \in Nodes(k), n.id \in T,
           NEW Q, Follow(nx, pv, s, {Place(s, n)}, Q)
    PROVE  Follow(n1, p1, s, {Place(s, n)}, Q)
<1>1. s[Place(s, n)] = n /\ Place(s, n) \in 2..Len(s)
  BY PlaceFacts
<1>2. Remaining(s, T) \subseteq 1..Len(s) /\ Place(s, n) \notin Remaining(s, T)
  BY RemainingFacts
<1>3. \A i, j \in 1..Len(s) : s[i] = s[j] => i = j
  BY ListFacts
<1>4. \A i \in D : s[i] # n
  BY <1>1, <1>2, <1>3, ListFacts
<1>5. n1[n] = nx[n] /\ p1[n] = pv[n]
  BY <1>4 DEF Untouched
<1> QED
  BY <1>1, <1>5 DEF Follow

LEMMA LinksTake ==
    ASSUME hist \in Histories, NEW k \in Partition, NEW s, Sorted(k, s),
           NEW c, NEW v, NEW nx, NEW pv, Stack(k, c, v),
           DOMAIN nx = AllNodes, DOMAIN pv = AllNodes, Links(s, c, nx, pv),
           NEW o \in Ops(k), o \notin Taken(c, Len(c)), NEW c2, Pushed(c, v, c2, o)
    PROVE  LET l == Lift(Call(o), nx, pv)
           IN  /\ Links(s, c2, l.next, l.prev)
               /\ Untouched(nx, pv, l.next, l.prev, s, Left(s, c, Len(c)))
<1> DEFINE d == Len(c)
           R == Left(s, c, d)
           x == Place(s, Call(o))
           y == Place(s, Return(o))
           l == Lift(Call(o), nx, pv)
<1>1. /\ R \subseteq 1..Len(s) /\ R \subseteq Nat /\ 1 \in R
      /\ \A n \in Nodes(k) : Place(s, n) \in R <=> n.id \notin Taken(c, d)
  BY RemainingFacts DEF Left
<1>2. /\ Call(o) \in Nodes(k) /\ Return(o) \in Nodes(k) /\ Call(o).id = o /\ Return(o).id = o
  BY NodesOf
<1>3. x \in R /\ y \in R
  BY <1>1, <1>2
<1>4. /\ 1 < x /\ s[x] = Call(o) /\ s[y] = Return(o) /\ x < y
  BY <1>2, PlaceFacts, TimeOrder
<1>5. Apart(s, R, nx, pv) /\ Follow(nx, pv, s, R, R)
  BY <1>1, ApartAll DEF Links
<1>6. Left(s, c2, d + 1) = R \ {x, y} /\ Left(s, c2, d) = R
  <2>1. Len(c) \in Nat /\ Len(c) \in 0..Len(c)
    BY LenProperties DEF Stack
  <2>2. Left(s, c2, d) = R
    BY <2>1, PushLeft
  <2>3. Taken(c2, d + 1) = Taken(c, d) \cup {o}
    BY <2>1, PushTop
  <2> DEFINE T == Taken(c, d)
  <2> HIDE DEF T
  <2>4. Remaining(s, T \cup {o}) = Remaining(s, T) \ {Place(s, Call(o)), Place(s, Return(o))}
    BY ONLY hist \in Histories, k \in Partition, Sorted(k, s), o \in Ops(k), RemainingTaken
  <2> QED
    BY <2>2, <2>3, <2>4 DEF Left, T
<1> HIDE DEF d, R, x, y, l
<1>7. /\ Follow(l.next, l.prev, s, R \ {x}, R \ {x, y})
      /\ Follow(l.next, l.prev, s, {x}, R)
      /\ Untouched(nx, pv, l.next, l.prev, s, R \ {x})
  BY <1>1, <1>2, <1>3, <1>4, <1>5, LiftFollows DEF l
<1>8. d \in Nat /\ Len(c2) = d + 1 /\ c2[d + 1].id = o /\ \A j \in 1..d : c2[j] = c[j]
  BY LenProperties DEF Stack, Pushed, d
<1>9. Follow(l.next, l.prev, s, Left(s, c2, d + 1), Left(s, c2, d + 1))
  BY <1>6, <1>7 DEF Follow
<1>10. ASSUME NEW j \in 1..Len(c2)
       PROVE  /\ Follow(l.next, l.prev, s, {Place(s, Call(c2[j].id))}, Left(s, c2, j - 1))
              /\ Follow(l.next, l.prev, s, {Place(s, Return(c2[j].id))}, Left(s, c2, j))
  <2>1. CASE j = d + 1
    <3>1. y \in R \ {x}
      BY <1>1, <1>3, <1>4
    <3>2. Follow(l.next, l.prev, s, {y}, R \ {x, y})
      BY <1>7, <3>1 DEF Follow
    <3>3. c2[j].id = o /\ j - 1 = d
      BY <1>8, <2>1
    <3>4. Follow(l.next, l.prev, s, {Place(s, Call(c2[j].id))}, Left(s, c2, j - 1))
      BY <1>6, <1>7, <3>3 DEF x
    <3>5. Follow(l.next, l.prev, s, {Place(s, Return(c2[j].id))}, Left(s, c2, j))
      BY <1>6, <2>1, <3>2, <3>3 DEF y
    <3> QED
      BY <3>4, <3>5
  <2>2. CASE j \in 1..d
    <3>1. c2[j] = c[j] /\ j - 1 \in 0..d /\ j \in 0..d /\ j > 0
      BY <1>8, <2>2
    <3>2. Left(s, c2, j - 1) = Left(s, c, j - 1) /\ Left(s, c2, j) = Left(s, c, j)
      BY <1>8, <3>1, PushLeft DEF d
    <3>3. c[j].id \in Ops(k) /\ c[j].id \in Taken(c, d)
      BY <1>8, <3>1, TakenFacts DEF d
    <3>4. /\ Follow(nx, pv, s, {Place(s, Call(c[j].id))}, Left(s, c, j - 1))
          /\ Follow(nx, pv, s, {Place(s, Return(c[j].id))}, Left(s, c, j))
      BY <2>2 DEF Links, d
    <3>5. /\ Call(c[j].id) \in Nodes(k) /\ Call(c[j].id).id \in Taken(c, d)
          /\ Return(c[j].id) \in Nodes(k) /\ Return(c[j].id).id \in Taken(c, d)
      BY <3>3, NodesOf
    <3>6. R \ {x} \subseteq Remaining(s, Taken(c, d))
      BY DEF R, Left
    <3> DEFINE m == Call(c[j].id)
               n == Return(c[j].id)
               P == Left(s, c, j - 1)
               Q == Left(s, c, j)
               T == Taken(c, d)
               D == R \ {x}
    <3>9. Follow(nx, pv, s, {Place(s, m)}, P) /\ m \in Nodes(k) /\ m.id \in T
      BY <3>4, <3>5
    <3>10. Follow(nx, pv, s, {Place(s, n)}, Q) /\ n \in Nodes(k) /\ n.id \in T
      BY <3>4, <3>5
    <3>11. D \subseteq Remaining(s, T) /\ Untouched(nx, pv, l.next, l.prev, s, D)
      BY <1>7, <3>6
    <3> HIDE DEF m, n, P, Q, T, D
    <3>7. Follow(l.next, l.prev, s, {Place(s, m)}, P)
      BY <3>9, <3>11, FrozenStay
    <3>8. Follow(l.next, l.prev, s, {Place(s, n)}, Q)
      BY <3>10, <3>11, FrozenStay
    <3> QED
      BY <3>1, <3>2, <3>7, <3>8 DEF m, n, P, Q
  <2> QED
    BY <1>8, <2>1, <2>2
<1>11. Untouched(nx, pv, l.next, l.prev, s, R)
  BY <1>7 DEF Untouched
<1> QED
  BY <1>8, <1>9, <1>10, <1>11 DEF Links, l, R, d

\* unlift of the operation on top of the stack c2 gives the links for c.
LEMMA LinksBacktrack ==
    ASSUME hist \in Histories, NEW k \in Partition, NEW s, Sorted(k, s),
           NEW c, NEW v, NEW nx, NEW pv, Stack(k, c, v),
           DOMAIN nx = AllNodes, DOMAIN pv = AllNodes,
           NEW o \in Ops(k), o \notin Taken(c, Len(c)), NEW c2, Pushed(c, v, c2, o),
           Links(s, c2, nx, pv)
    PROVE  LET l == Unlift(Call(o), nx, pv)
           IN  /\ Links(s, c, l.next, l.prev)
               /\ Untouched(nx, pv, l.next, l.prev, s, Left(s, c, Len(c)))
<1> DEFINE d == Len(c)
           R == Left(s, c, d)
           x == Place(s, Call(o))
           y == Place(s, Return(o))
           l == Unlift(Call(o), nx, pv)
<1>1. /\ R \subseteq 1..Len(s) /\ R \subseteq Nat /\ 1 \in R
      /\ \A n \in Nodes(k) : Place(s, n) \in R <=> n.id \notin Taken(c, d)
  BY RemainingFacts DEF Left
<1>2. /\ Call(o) \in Nodes(k) /\ Return(o) \in Nodes(k) /\ Call(o).id = o /\ Return(o).id = o
  BY NodesOf
<1>3. x \in R /\ y \in R
  BY <1>1, <1>2
<1>4. /\ 1 < x /\ s[x] = Call(o) /\ s[y] = Return(o) /\ x < y
  BY <1>2, PlaceFacts, TimeOrder
<1>6. Left(s, c2, d + 1) = R \ {x, y} /\ Left(s, c2, d) = R
  <2>1. Len(c) \in Nat /\ Len(c) \in 0..Len(c)
    BY LenProperties DEF Stack
  <2>2. Left(s, c2, d) = R
    BY <2>1, PushLeft
  <2>3. Taken(c2, d + 1) = Taken(c, d) \cup {o}
    BY <2>1, PushTop
  <2> DEFINE T == Taken(c, d)
  <2> HIDE DEF T
  <2>4. Remaining(s, T \cup {o}) = Remaining(s, T) \ {Place(s, Call(o)), Place(s, Return(o))}
    BY ONLY hist \in Histories, k \in Partition, Sorted(k, s), o \in Ops(k), RemainingTaken
  <2> QED
    BY <2>2, <2>3, <2>4 DEF Left, T
<1>8. d \in Nat /\ Len(c2) = d + 1 /\ c2[d + 1].id = o /\ \A j \in 1..d : c2[j] = c[j]
  BY LenProperties DEF Stack, Pushed
<1>5. /\ Apart(s, R, nx, pv)
  BY <1>1, ApartAll
<1>12. d + 1 \in 1..Len(c2) /\ d + 1 - 1 = d
  BY <1>8
<1>13. /\ Follow(nx, pv, s, R \ {x, y}, R \ {x, y})
       /\ Follow(nx, pv, s, {x}, R) /\ Follow(nx, pv, s, {y}, R \ {x, y})
  <2>1. Follow(nx, pv, s, Left(s, c2, d + 1), Left(s, c2, d + 1))
    BY <1>8 DEF Links
  <2>2. /\ Follow(nx, pv, s, {Place(s, Call(c2[d + 1].id))}, Left(s, c2, d + 1 - 1))
        /\ Follow(nx, pv, s, {Place(s, Return(c2[d + 1].id))}, Left(s, c2, d + 1))
    <3> DEFINE f == d + 1
    <3>1. f \in 1..Len(c2)
      BY <1>12
    <3> HIDE DEF f
    <3>2. /\ Follow(nx, pv, s, {Place(s, Call(c2[f].id))}, Left(s, c2, f - 1))
          /\ Follow(nx, pv, s, {Place(s, Return(c2[f].id))}, Left(s, c2, f))
      BY <3>1 DEF Links
    <3> QED
      BY <3>2 DEF f
  <2> HIDE DEF d, x, y, R
  <2>3. Follow(nx, pv, s, {x}, R)
    BY <1>6, <1>8, <1>12, <2>2 DEF x
  <2>4. Follow(nx, pv, s, {y}, R \ {x, y})
    BY <1>6, <1>8, <2>2 DEF y
  <2> QED
    BY <1>6, <2>1, <2>3, <2>4
<1> HIDE DEF d, R, x, y, l
<1>14. Follow(nx, pv, s, R \ {x}, R \ {x, y})
  <2>1. \A i \in R \ {x} : i \in R \ {x, y} \/ i \in {y}
    OBVIOUS
  <2> QED
    BY <1>13, <2>1 DEF Follow
<1>7. /\ Follow(l.next, l.prev, s, R, R)
      /\ Untouched(nx, pv, l.next, l.prev, s, R \ {x})
  BY <1>1, <1>2, <1>3, <1>4, <1>5, <1>13, <1>14, UnliftFollows DEF l
<1>10. ASSUME NEW j \in 1..d
       PROVE  /\ Follow(l.next, l.prev, s, {Place(s, Call(c[j].id))}, Left(s, c, j - 1))
              /\ Follow(l.next, l.prev, s, {Place(s, Return(c[j].id))}, Left(s, c, j))
  <2>1. c2[j] = c[j] /\ j - 1 \in 0..d /\ j \in 0..d /\ j > 0 /\ j \in 1..Len(c2)
    BY <1>8
  <2>2. Left(s, c2, j - 1) = Left(s, c, j - 1) /\ Left(s, c2, j) = Left(s, c, j)
    BY <1>8, <2>1, PushLeft DEF d
  <2>3. c[j].id \in Ops(k) /\ c[j].id \in Taken(c, d)
    BY <1>8, <2>1, TakenFacts DEF d
  <2>4. /\ Follow(nx, pv, s, {Place(s, Call(c[j].id))}, Left(s, c, j - 1))
        /\ Follow(nx, pv, s, {Place(s, Return(c[j].id))}, Left(s, c, j))
    BY <2>1, <2>2 DEF Links
  <2>5. /\ Call(c[j].id) \in Nodes(k) /\ Call(c[j].id).id \in Taken(c, d)
        /\ Return(c[j].id) \in Nodes(k) /\ Return(c[j].id).id \in Taken(c, d)
    BY <2>3, NodesOf
  <2>6. R \ {x} \subseteq Remaining(s, Taken(c, d))
    BY DEF R, Left
  <2> DEFINE m == Call(c[j].id)
             n == Return(c[j].id)
             P == Left(s, c, j - 1)
             Q == Left(s, c, j)
             T == Taken(c, d)
             D == R \ {x}
  <2>9. Follow(nx, pv, s, {Place(s, m)}, P) /\ m \in Nodes(k) /\ m.id \in T
    BY <2>4, <2>5
  <2>10. Follow(nx, pv, s, {Place(s, n)}, Q) /\ n \in Nodes(k) /\ n.id \in T
    BY <2>4, <2>5
  <2>11. D \subseteq Remaining(s, T) /\ Untouched(nx, pv, l.next, l.prev, s, D)
    BY <1>7, <2>6
  <2> HIDE DEF m, n, P, Q, T, D
  <2>7. Follow(l.next, l.prev, s, {Place(s, m)}, P)
    BY <2>9, <2>11, FrozenStay
  <2>8. Follow(l.next, l.prev, s, {Place(s, n)}, Q)
    BY <2>10, <2>11, FrozenStay
  <2> QED
    BY <2>7, <2>8 DEF m, n, P, Q
<1>11. Untouched(nx, pv, l.next, l.prev, s, R)
  BY <1>7 DEF Untouched
<1> QED
  BY <1>7, <1>10, <1>11 DEF Links, l, R, d

-----------------------------------------------------------------------------
(* The turns of the loop *)

LEMMA StepType ==
    ASSUME hist \in Histories, NEW k, NEW o \in Ops(k), NEW v \in Seq(STRING)
    PROVE  StepState(v, o) \in Seq(STRING)
<1>1. hist[o].value \in Seq(STRING)
  BY OpFacts
<1> DEFINE w == hist[o].value
<1>2. v \o w \in Seq(STRING)
  <2> HIDE DEF w
  <2>1. w \in Seq(STRING)
    BY <1>1 DEF w
  <2> QED
    BY <2>1, ConcatProperties
<1> QED
  BY <1>1, <1>2 DEF StepState

\* Where the search stands as long as something is left.
LEMMA AtEntry ==
    ASSUME hist \in Histories, NEW k \in Partition, NEW s, Sorted(k, s), NEW c, NEW e,
           Standing(s, c, e), Left(s, c, Len(c)) # {1}
    PROVE  /\ e \in Nodes(k) /\ Place(s, e) \in Left(s, c, Len(c)) /\ s[Place(s, e)] = e
           /\ Place(s, e) \in 2..Len(s)
           /\ e.id \in Ops(k) /\ e.id \notin Taken(c, Len(c))
           /\ e.kind \in {"call", "return"}
           /\ e.kind = "call" => e = Call(e.id)
           /\ e.kind = "return" => e = Return(e.id)
<1>1. PICK i \in Left(s, c, Len(c)) \ {1} : e = s[i]
  BY DEF Standing
<1>2. /\ Left(s, c, Len(c)) \subseteq 1..Len(s)
      /\ \A n \in Nodes(k) : Place(s, n) \in Left(s, c, Len(c)) <=> n.id \notin Taken(c, Len(c))
  BY RemainingFacts DEF Left
<1>3. Len(s) \in Nat /\ \A x \in 2..Len(s) : s[x] \in Nodes(k)
  BY ListFacts
<1>4. i \in 2..Len(s) /\ i \in 1..Len(s)
  BY <1>2, <1>3
<1>5. e \in Nodes(k) /\ Place(s, e) = i
  BY <1>1, <1>3, <1>4, PlaceIs
<1> QED
  BY <1>1, <1>2, <1>4, <1>5, NodeFacts

LEMMA StackTake ==
    ASSUME hist \in Histories, NEW k, NEW c, NEW v, Stack(k, c, v), Chain(c, v),
           NEW o \in Ops(k), o \notin Taken(c, Len(c)), StepOk(v, o)
    PROVE  LET c2 == Append(c, [id |-> o, state |-> v])
               v2 == StepState(v, o)
           IN  Stack(k, c2, v2) /\ Chain(c2, v2) /\ Pushed(c, v, c2, o)
<1> DEFINE d == Len(c)
           f == [id |-> o, state |-> v]
           c2 == Append(c, f)
           v2 == StepState(v, o)
<1>1. c \in Seq(Frame(k)) /\ v \in Seq(STRING) /\ f \in Frame(k)
  BY DEF Stack, Frame
<1> HIDE DEF f
<1>2. /\ c2 \in Seq(Frame(k)) /\ Len(c2) = d + 1 /\ d \in Nat
      /\ \A x \in 1..d : c2[x] = c[x]
      /\ c2[d + 1] = f
  BY <1>1, AppendProperties, LenProperties
<1>3. v2 \in Seq(STRING)
  BY <1>1, StepType
<1> HIDE DEF c2, d, v2
<1>4. Pushed(c, v, c2, o)
  BY <1>2 DEF Pushed, f, d
<1>5. ASSUME NEW x \in 1..Len(c2), NEW y \in 1..Len(c2), c2[x].id = c2[y].id PROVE x = y
  <2>1. \A z \in 1..d : c2[z].id # o
    BY <1>2 DEF Taken, d
  <2>2. c2[d + 1].id = o
    BY <1>2 DEF f
  <2>3. CASE x \in 1..d /\ y \in 1..d
    BY <1>2, <1>5, <2>3 DEF Stack, d
  <2> QED
    BY <1>2, <1>5, <2>1, <2>2, <2>3
<1>6. Stack(k, c2, v2)
  BY <1>2, <1>3, <1>5 DEF Stack
<1>7. Chain(c2, v2)
  <2>1. Len(c) \in Nat /\ 0 \in 0..Len(c)
    BY <1>2 DEF d
  <2>2. Val(c2, v2, 0) = <<>>
    <3>1. Val(c2, v2, 0) = Val(c, v, 0)
      BY <1>4, <2>1, PushVal
    <3> QED
      BY <3>1 DEF Chain
  <2>3. ASSUME NEW j \in 1..Len(c2)
        PROVE  /\ StepOk(Val(c2, v2, j - 1), c2[j].id)
               /\ Val(c2, v2, j) = StepState(Val(c2, v2, j - 1), c2[j].id)
    <3>1. j - 1 \in 0..Len(c) /\ j \in Nat
      BY <1>2 DEF d
    <3>2. Val(c2, v2, j - 1) = Val(c, v, j - 1)
      BY <1>4, <2>1, <3>1, PushVal
    <3>3. CASE j = d + 1
      <4>1. Val(c2, v2, j - 1) = v
        BY <1>2, <3>2, <3>3 DEF Val, d
      <4>2. Val(c2, v2, j) = v2
        BY <1>4, <2>1, <3>3, PushValTop DEF d
      <4>3. c2[j].id = o
        BY <1>2, <3>3 DEF f
      <4> QED
        BY <4>1, <4>2, <4>3 DEF v2
    <3>4. CASE j \in 1..d
      <4>1. Val(c2, v2, j) = Val(c, v, j)
        BY <1>4, <2>1, <3>4, PushVal DEF d
      <4>2. c2[j] = c[j]
        BY <1>2, <3>4
      <4>3. /\ StepOk(Val(c, v, j - 1), c[j].id)
            /\ Val(c, v, j) = StepState(Val(c, v, j - 1), c[j].id)
        BY <3>4 DEF Chain, d
      <4> QED
        BY <3>2, <4>1, <4>2, <4>3
    <3> QED
      BY <1>2, <3>3, <3>4
  <2> QED
    BY <2>2, <2>3 DEF Chain
<1> QED
  BY <1>4, <1>6, <1>7 DEF c2, v2, f

LEMMA TakeSearch ==
    ASSUME hist \in Histories, NEW k \in Partition, NEW s, Sorted(k, s),
           NEW c, NEW e, NEW v, NEW nx, NEW pv, NEW ch,
           DOMAIN nx = AllNodes, DOMAIN pv = AllNodes,
           Search(k, s, c, e, v, nx, pv, ch),
           Left(s, c, Len(c)) # {1}, e.kind = "call", StepOk(v, e.id)
    PROVE  LET l  == Lift(e, nx, pv)
               c2 == Append(c, [id |-> e.id, state |-> v])
               v2 == StepState(v, e.id)
           IN  /\ Search(k, s, c2, l.next[Front(k)], v2, l.next, l.prev,
                         ch \cup {<<Taken(c, Len(c)) \cup {e.id}, v2>>})
               /\ Untouched(nx, pv, l.next, l.prev, s, Left(s, c, Len(c)))
<1> DEFINE d == Len(c)
           o == e.id
           l == Lift(e, nx, pv)
           c2 == Append(c, [id |-> o, state |-> v])
           v2 == StepState(v, o)
           e2 == l.next[Front(k)]
           x2 == <<Taken(c, d) \cup {o}, v2>>
<1>1. /\ Stack(k, c, v) /\ Chain(c, v) /\ Links(s, c, nx, pv) /\ Standing(s, c, e)
      /\ Explored(k, s, c, e, v) /\ Cached(k, c, v, ch)
  BY DEF Search
<1>2. /\ o \in Ops(k) /\ o \notin Taken(c, d) /\ e = Call(o)
  BY <1>1, AtEntry
<1>3. Stack(k, c2, v2) /\ Chain(c2, v2) /\ Pushed(c, v, c2, o)
  BY <1>1, <1>2, StackTake
<1>4. d \in Nat /\ Len(c2) = d + 1
  BY <1>1, <1>3, LenProperties DEF Stack, Pushed
<1> HIDE DEF d, o, c2, v2, e2, x2
<1>5. Links(s, c2, l.next, l.prev) /\ Untouched(nx, pv, l.next, l.prev, s, Left(s, c, d))
  BY <1>1, <1>2, <1>3, LinksTake DEF d
<1> HIDE DEF l
<1>6. DOMAIN l.next = AllNodes /\ DOMAIN l.prev = AllNodes
  BY <1>5 DEF Untouched
<1>7. ASSUME Left(s, c2, d + 1) # {1}
      PROVE  \E j \in Left(s, c2, d + 1) \ {1} :
                 e2 = s[j] /\ \A i \in Left(s, c2, d + 1) \ {1} : j <= i
  BY <1>4, <1>5, <1>6, <1>7, FrontNil DEF e2
<1>8. Standing(s, c2, e2)
  BY <1>4, <1>7 DEF Standing
<1>9. Explored(k, s, c2, e2, v2)
  <2> SUFFICES ASSUME NEW j \in 0..(d + 1), Left(s, c2, j) # {1}
               PROVE  PassedOver(k, s, c2, e2, v2, j)
    BY <1>4 DEF Explored
  <2>1. CASE j \in 0..d
    <3>0. Len(c) \in Nat /\ j \in 0..Len(c)
      BY <1>4, <2>1 DEF d
    <3>1. Taken(c2, j) = Taken(c, j)
      BY <1>3, <3>0, PushTaken
    <3>2. Left(s, c2, j) = Left(s, c, j)
      BY <1>3, <3>0, PushLeft
    <3>3. Val(c2, v2, j) = Val(c, v, j)
      BY <1>3, <3>0, PushVal
    <3>4. Cur(c2, e2, j) = Cur(c, e, j)
      <4>1. CASE j = Len(c)
        <5>1. Cur(c2, e2, j) = Call(o)
          BY <1>3, <3>0, <4>1, PushCurTop
        <5>2. Cur(c, e, j) = e
          BY <3>0, <4>1 DEF Cur
        <5> QED
          BY <1>2, <5>1, <5>2
      <4>2. CASE j \in 0..(Len(c) - 1)
        BY <1>3, <3>0, <4>2, PushCur
      <4> QED
        BY <3>0, <4>1, <4>2
    <3>5. PassedOver(k, s, c, e, v, j)
      BY <1>1, <3>0, <3>2 DEF Explored
    <3> QED
      BY <3>1, <3>2, <3>3, <3>4, <3>5 DEF PassedOver
  <2>2. CASE j = d + 1
    <3>1. PICK q \in Left(s, c2, j) \ {1} :
              e2 = s[q] /\ \A i \in Left(s, c2, j) \ {1} : q <= i
      BY <1>7, <2>2
    <3>2. Left(s, c2, j) \subseteq 1..Len(s) /\ Len(s) \in Nat /\ s[1].kind = "head"
      BY RemainingFacts, ListFacts DEF Left
    <3>3. q \in 1..Len(s)
      BY <3>1, <3>2
    <3>4. Place(s, e2) = q
      BY <3>1, <3>3, PlaceIs
    <3>5. Cur(c2, e2, j) = e2
      BY <1>4, <2>2 DEF Cur
    <3>6. ASSUME NEW p \in Left(s, c2, j), p < Place(s, Cur(c2, e2, j)) PROVE p = 1
      BY <3>1, <3>2, <3>4, <3>5, <3>6
    <3> QED
      BY <3>2, <3>6 DEF PassedOver
  <2> QED
    BY <1>4, <2>1, <2>2
<1>10. Cached(k, c2, v2, ch \cup {x2})
  <2> SUFFICES ASSUME NEW x \in ch \cup {x2}, ~Dead(hist, k, x[1], x[2])
               PROVE  \E j \in 1..(d + 1) : x = <<Taken(c2, j), Val(c2, v2, j)>>
    BY <1>4 DEF Cached
  <2>0. Len(c) \in Nat /\ d + 1 \in 1..(d + 1)
    BY <1>4 DEF d
  <2>1. CASE x = x2
    <3>1. Taken(c2, d + 1) = Taken(c, d) \cup {o}
      BY <1>3, <2>0, PushTop DEF d
    <3>2. Val(c2, v2, d + 1) = v2
      BY <1>3, <2>0, PushValTop DEF d
    <3> QED
      BY <2>0, <2>1, <3>1, <3>2 DEF x2
  <2>2. CASE x \in ch
    <3>1. PICK j \in 1..Len(c) : x = <<Taken(c, j), Val(c, v, j)>>
      BY <1>1, <2>2 DEF Cached
    <3>2. j \in 0..Len(c) /\ j \in 1..(d + 1)
      BY <2>0 DEF d
    <3>3. Taken(c2, j) = Taken(c, j)
      BY <1>3, <2>0, <3>2, PushTaken
    <3>4. Val(c2, v2, j) = Val(c, v, j)
      BY <1>3, <2>0, <3>2, PushVal
    <3> QED
      BY <3>1, <3>2, <3>3, <3>4
  <2> QED
    BY <2>1, <2>2
<1> QED
  BY <1>3, <1>5, <1>8, <1>9, <1>10 DEF Search, d, o, l, c2, v2, e2, x2

-----------------------------------------------------------------------------
(* What an order of operations does to a store *)

StoreStep(h, seq, s, n) ==
    IF n = 0 THEN [k \in Key |-> <<>>]
    ELSE LET o == h[seq[n]]
         IN  [s[n - 1] EXCEPT ![o.key] =
                IF o.kind = "get" THEN @
                ELSE IF o.kind = "put" THEN o.value ELSE @ \o o.value]

\* The recursive definition has a solution: whatever solves it up to a place can
\* be made to solve it a place further.
LEMMA StoresSolve ==
    ASSUME NEW h, NEW seq, Len(seq) \in Nat
    PROVE  Stores(h, seq) = [n \in 0..Len(seq) |-> StoreStep(h, seq, Stores(h, seq), n)]
<1> DEFINE Solved(m) == \E s : s = [n \in 0..m |-> StoreStep(h, seq, s, n)]
           G == {m \in 0..Len(seq) : Solved(m)}
<1>1. Solved(0)
  <2> DEFINE s == [n \in 0..0 |-> [k \in Key |-> <<>>]]
  <2>1. s = [n \in 0..0 |-> StoreStep(h, seq, s, n)]
    BY DEF StoreStep
  <2> QED
    BY <2>1
<1>2. ASSUME NEW m \in 0..(Len(seq) - 1), Solved(m) PROVE Solved(m + 1)
  <2>1. PICK s : s = [n \in 0..m |-> StoreStep(h, seq, s, n)]
    BY <1>2
  <2> DEFINE t == [n \in 0..(m + 1) |-> StoreStep(h, seq, s, n)]
  <2>2. ASSUME NEW n \in 0..m PROVE t[n] = s[n]
    BY <2>1
  <2>3. ASSUME NEW n \in 0..(m + 1) PROVE StoreStep(h, seq, s, n) = StoreStep(h, seq, t, n)
    <3>1. n = 0 \/ n - 1 \in 0..m
      OBVIOUS
    <3>2. n = 0 \/ t[n - 1] = s[n - 1]
      BY <2>2, <3>1
    <3> HIDE DEF t
    <3> QED
      BY <3>2 DEF StoreStep
  <2>4. t = [n \in 0..(m + 1) |-> StoreStep(h, seq, t, n)]
    <3>1. \A n \in 0..(m + 1) : t[n] = StoreStep(h, seq, t, n)
      BY <2>3
    <3> QED
      BY <3>1
  <2> QED
    BY <2>4
<1>3. Solved(Len(seq))
  <2>1. 0 \in G
    BY <1>1
  <2>2. \A n \in 0..(Len(seq) - 1) : n \in G => n + 1 \in G
    BY <1>2
  <2> HIDE DEF G
  <2>3. \A n \in 0..Len(seq) : n \in G
    BY <2>1, <2>2, UpTo
  <2> QED
    BY <2>3 DEF G
<1>4. PICK s : s = [n \in 0..Len(seq) |-> StoreStep(h, seq, s, n)]
  BY <1>3
<1> QED
  BY <1>4, Zenon DEF Stores, StoreStep

LEMMA StoresType ==
    ASSUME hist \in Histories, NEW seq \in Seq(DOMAIN hist)
    PROVE  \A n \in 0..Len(seq) : Stores(hist, seq)[n] \in [Key -> Seq(STRING)]
<1> DEFINE st == Stores(hist, seq)
           T == {n \in 0..Len(seq) : st[n] \in [Key -> Seq(STRING)]}
<1>1. Len(seq) \in Nat /\ \A n \in 1..Len(seq) : seq[n] \in DOMAIN hist
  BY LenProperties, ElementOfSeq
<1>2. \A n \in 0..Len(seq) : st[n] = StoreStep(hist, seq, st, n)
  BY <1>1, StoresSolve
<1>3. 0 \in T
  <2>3. 0 \in 0..Len(seq) /\ st[0] = StoreStep(hist, seq, st, 0)
    BY <1>1, <1>2
  <2>1. st[0] = [k \in Key |-> <<>>] /\ 0 \in 0..Len(seq)
    <3> HIDE DEF st
    <3> QED
      BY <2>3 DEF StoreStep
  <2>2. <<>> \in Seq(STRING)
    OBVIOUS
  <2> QED
    BY <2>1, <2>2
<1>4. ASSUME NEW n \in 0..(Len(seq) - 1), n \in T PROVE n + 1 \in T
  <2> DEFINE o == hist[seq[n + 1]]
             w == st[n][o.key]
  <2>1. n + 1 \in 0..Len(seq) /\ n + 1 \in 1..Len(seq) /\ n + 1 # 0 /\ n + 1 - 1 = n
    BY <1>1
  <2>2. o.key \in Key /\ o.value \in Seq(STRING)
    BY <1>1, <2>1, PorcupineAssumption
  <2>3. st[n] \in [Key -> Seq(STRING)]
    BY <1>4
  <2>4. w \in Seq(STRING)
    BY <2>2, <2>3
  <2>5. w \o o.value \in Seq(STRING)
    <3> DEFINE x == o.value
    <3>1. x \in Seq(STRING)
      BY <2>2
    <3> HIDE DEF x, w
    <3>2. w \o x \in Seq(STRING)
      BY <2>4, <3>1, ConcatProperties
    <3> QED
      BY <3>2 DEF x
  <2>6. st[n + 1] = [st[n] EXCEPT ![o.key] =
                       IF o.kind = "get" THEN @ ELSE IF o.kind = "put" THEN o.value ELSE @ \o o.value]
    BY <1>2, <2>1 DEF StoreStep
  <2>7. st[n + 1] \in [Key -> Seq(STRING)]
    <3> HIDE DEF st, o
    <3> QED
      BY <2>2, <2>3, <2>4, <2>5, <2>6
  <2> QED
    BY <2>1, <2>7
<1>5. \A n \in 0..Len(seq) : n \in T
  <2> HIDE DEF T
  <2> QED
    BY <1>1, <1>3, <1>4, UpTo
<1> QED
  BY <1>5

\* In the terms of Step.
LEMMA StoresStart ==
    ASSUME hist \in Histories, NEW seq \in Seq(DOMAIN hist), NEW k \in Key
    PROVE  Stores(hist, seq)[0][k] = <<>>
<1>1. Len(seq) \in Nat
  BY LenProperties
<1>2. Stores(hist, seq)[0] = StoreStep(hist, seq, Stores(hist, seq), 0)
  BY <1>1, StoresSolve
<1> QED
  BY <1>2 DEF StoreStep

LEMMA StoresMove ==
    ASSUME hist \in Histories, NEW seq \in Seq(DOMAIN hist), NEW k \in Key,
           NEW n \in 0..(Len(seq) - 1)
    PROVE  Stores(hist, seq)[n + 1][k] =
               IF hist[seq[n + 1]].key = k THEN StepState(Stores(hist, seq)[n][k], seq[n + 1])
               ELSE Stores(hist, seq)[n][k]
<1> DEFINE st == Stores(hist, seq)
           o == hist[seq[n + 1]]
<1>1. Len(seq) \in Nat /\ \A m \in 1..Len(seq) : seq[m] \in DOMAIN hist
  BY LenProperties, ElementOfSeq
<1>2. n + 1 \in 0..Len(seq) /\ n + 1 \in 1..Len(seq) /\ n + 1 # 0 /\ n + 1 - 1 = n /\ n \in 0..Len(seq)
  BY <1>1
<1>3. st[n + 1] = StoreStep(hist, seq, st, n + 1)
  BY <1>1, <1>2, StoresSolve
<1>4. st[n] \in [Key -> Seq(STRING)]
  BY <1>2, StoresType
<1>5. o.key \in Key
  BY <1>1, <1>2, PorcupineAssumption
<1>6. st[n + 1] = [st[n] EXCEPT ![o.key] =
                     IF o.kind = "get" THEN @ ELSE IF o.kind = "put" THEN o.value ELSE @ \o o.value]
  BY <1>2, <1>3 DEF StoreStep
<1>7. StepState(st[n][k], seq[n + 1]) =
        IF o.kind = "get" THEN st[n][k]
        ELSE IF o.kind = "put" THEN o.value ELSE st[n][k] \o o.value
  <2> HIDE DEF st
  <2> QED
    BY DEF StepState
<1> HIDE DEF st, o
<1> QED
  BY <1>4, <1>5, <1>6, <1>7 DEF st, o

LEMMA StoresHere ==
    ASSUME hist \in Histories, NEW seq \in Seq(DOMAIN hist), NEW k \in Key
    PROVE  \A n \in 0..(Len(seq) - 1) : hist[seq[n + 1]].key = k =>
               Stores(hist, seq)[n + 1][k] = StepState(Stores(hist, seq)[n][k], seq[n + 1])
BY StoresMove

LEMMA StoresElsewhere ==
    ASSUME hist \in Histories, NEW seq \in Seq(DOMAIN hist), NEW k \in Key
    PROVE  \A n \in 0..(Len(seq) - 1) : hist[seq[n + 1]].key # k =>
               Stores(hist, seq)[n + 1][k] = Stores(hist, seq)[n][k]
BY StoresMove

LEMMA LegalIs ==
    ASSUME hist \in Histories, NEW seq \in Seq(DOMAIN hist)
    PROVE  Legal(hist, seq) <=>
             \A n \in 1..Len(seq) : StepOk(Stores(hist, seq)[n - 1][hist[seq[n]].key], seq[n])
BY LenProperties DEF Legal, StepOk

-----------------------------------------------------------------------------
(* A return that nothing explains *)

\* A linearization has all the operations of the history.
LEMMA AllPlaced ==
    ASSUME hist \in Histories, NEW seq \in [1..Cardinality(DOMAIN hist) -> DOMAIN hist],
           Linearization(hist, seq)
    PROVE  /\ Cardinality(DOMAIN hist) \in Nat /\ seq \in Seq(DOMAIN hist)
           /\ Len(seq) = Cardinality(DOMAIN hist)
           /\ \A m, n \in 1..Len(seq) : seq[m] = seq[n] => m = n
           /\ \A o \in DOMAIN hist : \E n \in 1..Len(seq) : seq[n] = o
<1> DEFINE N == Cardinality(DOMAIN hist)
<1>1. IsFiniteSet(DOMAIN hist)
  BY PartitionFacts
<1>2. N \in Nat
  BY <1>1, FS_CardinalityType
<1> HIDE DEF N
<1>3. seq \in Seq(DOMAIN hist) /\ Len(seq) = N /\ DOMAIN seq = 1..N
  BY <1>2, SeqDef DEF N
<1>4. \A m, n \in 1..N : seq[m] = seq[n] => m = n
  BY <1>3 DEF Linearization
<1>5. seq \in Injection(1..N, DOMAIN hist)
  BY <1>4 DEF Injection, IsInjective, N
<1>6. Cardinality(1..N) = N
  BY <1>2, FS_Interval
<1>7. seq \in Surjection(1..N, DOMAIN hist)
  BY <1>1, <1>5, <1>6, FS_Injection DEF N
<1>8. \A o \in DOMAIN hist : \E n \in 1..N : seq[n] = o
  BY <1>7 DEF Surjection
<1> QED
  BY <1>2, <1>3, <1>4, <1>8 DEF N

\* Beside what was passed over nothing can come before the return, so what the
\* search has taken leads nowhere.
LEMMA DeadEnd ==
    ASSUME hist \in Histories, NEW k \in Partition, NEW s, Sorted(k, s),
           NEW c, NEW e, NEW v, Stack(k, c, v), Standing(s, c, e), Explored(k, s, c, e, v),
           Left(s, c, Len(c)) # {1}, e.kind = "return"
    PROVE  Dead(hist, k, Taken(c, Len(c)), v)
<1> DEFINE S == Taken(c, Len(c))
           R == Left(s, c, Len(c))
           r == e.id
<1>1. Len(c) \in Nat /\ v \in Seq(STRING) /\ k \in Key
  BY LenProperties, PartitionFacts DEF Stack
<1>2. /\ e = Return(r) /\ r \in Ops(k) /\ r \notin S /\ Place(s, e) \in 2..Len(s)
  BY AtEntry
<1>3. PassedOver(k, s, c, e, v, Len(c)) /\ Val(c, v, Len(c)) = v /\ Cur(c, e, Len(c)) = e
  BY <1>1 DEF Explored, Val, Cur
<1>4. ASSUME NEW p \in R, p < Place(s, e), s[p].kind = "call", StepOk(v, s[p].id)
      PROVE  Dead(hist, k, S \cup {s[p].id}, StepState(v, s[p].id))
  BY <1>3, <1>4 DEF PassedOver
<1> SUFFICES ASSUME NEW seq \in [1..Cardinality(DOMAIN hist) -> DOMAIN hist],
                    Linearization(hist, seq), Passes(hist, seq, k, S, v)
             PROVE  FALSE
  BY DEF Dead
<1>5. /\ seq \in Seq(DOMAIN hist) /\ Len(seq) \in Nat
      /\ \A m, n \in 1..Len(seq) : seq[m] = seq[n] => m = n
      /\ \A o \in DOMAIN hist : \E n \in 1..Len(seq) : seq[n] = o
      /\ \A n \in 1..Len(seq) : seq[n] \in DOMAIN hist
  BY AllPlaced, LenProperties, ElementOfSeq
<1> DEFINE Done(n) == {o \in DOMAIN hist : hist[o].key = k /\ \E i \in 1..n : seq[i] = o}
           st == Stores(hist, seq)
           T == {n \in 0..Len(seq) : S = Done(n) /\ v = st[n][k]}
<1>6. PICK n \in T : \A m \in T : m <= n
  <2>1. T # {}
    BY DEF Passes
  <2>2. T \subseteq Nat /\ \A m \in T : m <= Len(seq)
    BY <1>5
  <2> HIDE DEF T
  <2> QED
    BY <1>5, <2>1, <2>2, Greatest
<1>7. n \in 0..Len(seq) /\ S = Done(n) /\ v = st[n][k]
  OBVIOUS
<1>8. PICK m \in 1..Len(seq) : seq[m] = r
  BY <1>2, <1>5 DEF Ops
<1>9. ~(\E i \in 1..n : seq[i] = r)
  BY <1>2, <1>7 DEF Ops
<1>10. n \in 0..(Len(seq) - 1) /\ n + 1 \in 1..Len(seq) /\ n + 1 \in 0..Len(seq)
  <2>1. m \notin 1..n
    BY <1>8, <1>9
  <2> HIDE DEF T, Done, st
  <2> QED
    BY <1>5, <1>7, <2>1
<1> DEFINE o == seq[n + 1]
<1>11. o \in DOMAIN hist
  BY <1>5, <1>10
<1>12. \A i : i \in 1..(n + 1) <=> i \in 1..n \/ i = n + 1
  BY <1>10
<1> HIDE DEF T, S, R, r
<1>13. /\ hist[o].key = k => st[n + 1][k] = StepState(st[n][k], o)
       /\ hist[o].key # k => st[n + 1][k] = st[n][k]
  <2>1. \A i \in 0..(Len(seq) - 1) : hist[seq[i + 1]].key = k =>
            st[i + 1][k] = StepState(st[i][k], seq[i + 1])
    BY <1>1, <1>5, StoresHere
  <2>2. \A i \in 0..(Len(seq) - 1) : hist[seq[i + 1]].key # k => st[i + 1][k] = st[i][k]
    BY <1>1, <1>5, StoresElsewhere
  <2> HIDE DEF st
  <2> QED
    BY <1>10, <2>1, <2>2
<1> HIDE DEF st
<1>14. hist[o].key = k
  <2> SUFFICES ASSUME hist[o].key # k PROVE FALSE
    OBVIOUS
  <2>1. Done(n + 1) = Done(n)
    BY <1>12
  <2>2. st[n + 1][k] = v
    BY <1>7, <1>13
  <2>3. n + 1 \in T
    BY <1>7, <1>10, <2>1, <2>2 DEF T
  <2> QED
    BY <1>6, <1>10, <2>3
<1>15. o \in Ops(k) /\ o \notin S
  <2>1. o \in Ops(k)
    BY <1>11, <1>14 DEF Ops
  <2>2. \A i \in 1..n : i \in 1..Len(seq) /\ i # n + 1
    BY <1>10
  <2>3. \A i \in 1..n : seq[i] # o
    BY <1>5, <1>10, <2>2
  <2> QED
    BY <1>7, <2>1, <2>3
<1>16. StepOk(v, o)
  <2>2. \A i \in 1..Len(seq) : StepOk(st[i - 1][hist[seq[i]].key], seq[i])
    BY <1>5, LegalIs DEF Linearization, st
  <2>1. StepOk(st[n + 1 - 1][hist[seq[n + 1]].key], seq[n + 1])
    BY <1>10, <2>2
  <2> QED
    BY <1>7, <1>10, <1>14, <2>1
<1>17. Passes(hist, seq, k, S \cup {o}, StepState(v, o))
  <2>1. S \cup {o} = Done(n + 1)
    BY <1>7, <1>11, <1>12, <1>14
  <2>2. st[n + 1][k] = StepState(v, o)
    BY <1>7, <1>13, <1>14
  <2> QED
    BY <1>10, <2>1, <2>2 DEF Passes, st
<1>18. ~(hist[r].ret < hist[o].call)
  <2>1. DOMAIN seq = 1..Len(seq) /\ r \in DOMAIN hist
    BY <1>2, <1>5, LenProperties DEF Ops
  <2>2. \A q \in DOMAIN hist : hist[q].ret < hist[seq[n + 1]].call =>
            \E i \in 1..(n + 1 - 1) : seq[i] = q
    BY <1>10, <2>1 DEF Linearization, RealTime
  <2>3. n + 1 - 1 = n
    BY <1>10
  <2> QED
    BY <1>9, <2>1, <2>2, <2>3
<1>19. Place(s, Call(o)) < Place(s, e)
  <2>1. ~(Place(s, Return(r)) < Place(s, Call(o)))
    BY <1>2, <1>15, <1>18, TimeOrder
  <2>2. /\ Place(s, Call(o)) \in Nat /\ s[Place(s, Call(o))] = Call(o)
        /\ Place(s, e) \in Nat /\ s[Place(s, e)] = e
    BY <1>2, <1>15, NodesOf, PlaceFacts
  <2>3. Call(o) # e
    BY <1>2 DEF Call, Return
  <2> QED
    BY <1>2, <2>1, <2>2, <2>3
<1>20. /\ Call(o) \in Nodes(k) /\ Call(o).id = o /\ Call(o).kind = "call"
       /\ s[Place(s, Call(o))] = Call(o)
  BY <1>15, NodesOf, PlaceFacts
<1>21. Place(s, Call(o)) \in R
  BY <1>15, <1>20, RemainingFacts DEF R, Left, S
<1>22. Dead(hist, k, S \cup {o}, StepState(v, o))
  BY <1>4, <1>16, <1>19, <1>20, <1>21
<1> QED
  BY <1>17, <1>22 DEF Dead

-----------------------------------------------------------------------------
(* Going on, and going back *)

\* Behind a call that is left there is its return.
LEMMA GoOn ==
    ASSUME hist \in Histories, NEW k \in Partition, NEW s, Sorted(k, s),
           NEW c, NEW v, NEW nx, NEW pv, Stack(k, c, v), Links(s, c, nx, pv),
           NEW o \in Ops(k), o \notin Taken(c, Len(c))
    PROVE  \E j \in Left(s, c, Len(c)) \ {1} :
               /\ nx[Call(o)] = s[j] /\ Place(s, s[j]) = j
               /\ \A p \in Left(s, c, Len(c)) : p < j => p <= Place(s, Call(o))
<1> DEFINE R == Left(s, c, Len(c))
           x == Place(s, Call(o))
           y == Place(s, Return(o))
<1>1. /\ R \subseteq 1..Len(s) /\ R \subseteq Nat
      /\ \A n \in Nodes(k) : Place(s, n) \in R <=> n.id \notin Taken(c, Len(c))
  BY RemainingFacts DEF Left
<1>2. x \in R /\ y \in R
  BY <1>1, NodesOf
<1>3. s[x] = Call(o) /\ x \in 2..Len(s) /\ x < y
  BY NodesOf, PlaceFacts, TimeOrder
<1>4. nx[s[x]] = After(s, R, x)
  BY <1>2 DEF Links, Follow
<1> HIDE DEF R, x, y
<1>5. x \in Nat /\ ~(\A z \in R : z <= x)
  BY <1>1, <1>2, <1>3
<1>6. PICK j \in R : x < j /\ (\A z \in R : x < z => j <= z) /\ After(s, R, x) = s[j]
  BY <1>1, <1>5, AfterCases
<1>7. j \in 1..Len(s) /\ j # 1
  BY <1>1, <1>3, <1>6
<1>8. Place(s, s[j]) = j
  BY <1>7, PlaceIs
<1>9. \A p \in R : p < j => p <= x
  BY <1>1, <1>5, <1>6
<1> QED
  BY <1>3, <1>4, <1>6, <1>7, <1>8, <1>9 DEF R, x

LEMMA SkipSearch ==
    ASSUME hist \in Histories, NEW k \in Partition, NEW s, Sorted(k, s),
           NEW c, NEW e, NEW v, NEW nx, NEW pv, NEW ch,
           Search(k, s, c, e, v, nx, pv, ch),
           Left(s, c, Len(c)) # {1}, e.kind = "call",
           StepOk(v, e.id) => <<Taken(c, Len(c)) \cup {e.id}, StepState(v, e.id)>> \in ch
    PROVE  Search(k, s, c, nx[e], v, nx, pv, ch)
<1> DEFINE d == Len(c)
           o == e.id
           e2 == nx[e]
<1>1. /\ Stack(k, c, v) /\ Chain(c, v) /\ Links(s, c, nx, pv) /\ Standing(s, c, e)
      /\ Explored(k, s, c, e, v) /\ Cached(k, c, v, ch)
  BY DEF Search
<1>2. /\ o \in Ops(k) /\ o \notin Taken(c, d) /\ e = Call(o) /\ s[Place(s, e)] = e
      /\ Place(s, e) \in 2..Len(s)
  BY <1>1, AtEntry
<1>3. d \in Nat
  BY <1>1, LenProperties DEF Stack
<1>4. PICK j \in Left(s, c, d) \ {1} :
          /\ e2 = s[j] /\ Place(s, s[j]) = j
          /\ \A p \in Left(s, c, d) : p < j => p <= Place(s, e)
  BY <1>1, <1>2, GoOn
<1>5. Standing(s, c, e2)
  BY <1>4 DEF Standing
<1>6. StepOk(v, o) => Dead(hist, k, Taken(c, d) \cup {o}, StepState(v, o))
  <2> DEFINE x == <<Taken(c, d) \cup {o}, StepState(v, o)>>
  <2> SUFFICES ASSUME StepOk(v, o), ~Dead(hist, k, Taken(c, d) \cup {o}, StepState(v, o))
               PROVE  FALSE
    OBVIOUS
  <2>1. PICK i \in 1..d : x = <<Taken(c, i), Val(c, v, i)>>
    BY <1>1 DEF Cached
  <2>2. o \in Taken(c, i)
    BY <2>1
  <2>3. Taken(c, i) \subseteq Taken(c, d)
    BY <1>1, <1>3, TakenFacts
  <2> QED
    BY <1>2, <2>2, <2>3
<1>7. Explored(k, s, c, e2, v)
  <2> SUFFICES ASSUME NEW i \in 0..d, Left(s, c, i) # {1}
               PROVE  PassedOver(k, s, c, e2, v, i)
    BY DEF Explored
  <2>1. PassedOver(k, s, c, e, v, i)
    BY <1>1 DEF Explored
  <2>2. CASE i < d
    <3>1. Cur(c, e2, i) = Cur(c, e, i)
      BY <2>2 DEF Cur
    <3> QED
      BY <2>1, <3>1 DEF PassedOver
  <2>3. CASE i = d
    <3>1. Cur(c, e2, d) = s[j] /\ Cur(c, e, d) = e /\ Val(c, v, d) = v
      BY <1>3, <1>4 DEF Cur, Val
    <3>2. ASSUME NEW p \in Left(s, c, d), p < j
          PROVE  /\ s[p].kind # "return"
                 /\ s[p].kind = "call" /\ StepOk(v, s[p].id) =>
                       Dead(hist, k, Taken(c, d) \cup {s[p].id}, StepState(v, s[p].id))
      <4>1. p <= Place(s, e) /\ p \in Nat /\ Place(s, e) \in Nat
        BY <1>2, <1>4, <3>2, RemainingFacts, ListFacts DEF Left
      <4>2. CASE p = Place(s, e)
        <5>1. s[p] = e /\ s[p].id = o
          BY <1>2, <4>2
        <5> QED
          BY <1>6, <5>1
      <4>3. CASE p < Place(s, e)
        BY <2>1, <2>3, <3>1, <4>3 DEF PassedOver
      <4> QED
        BY <4>1, <4>2, <4>3
    <3> QED
      BY <1>4, <2>3, <3>1, <3>2 DEF PassedOver
  <2> QED
    BY <1>3, <2>2, <2>3
<1> QED
  BY <1>1, <1>5, <1>7 DEF Search

LEMMA StackPop ==
    ASSUME hist \in Histories, NEW k, NEW c2, NEW v2, Stack(k, c2, v2), Chain(c2, v2), c2 # <<>>
    PROVE  LET c == SubSeq(c2, 1, Len(c2) - 1)
               t == c2[Len(c2)]
           IN  /\ Stack(k, c, t.state) /\ Chain(c, t.state)
               /\ Pushed(c, t.state, c2, t.id)
               /\ t.id \in Ops(k) /\ t.id \notin Taken(c, Len(c))
               /\ StepOk(t.state, t.id) /\ v2 = StepState(t.state, t.id)
<1> DEFINE d == Len(c2) - 1
           c == SubSeq(c2, 1, d)
           t == c2[Len(c2)]
           v == t.state
           o == t.id
<1>1. c2 \in Seq(Frame(k)) /\ Len(c2) \in Nat /\ Len(c2) >= 1
  BY LenProperties, EmptySeq DEF Stack
<1>2. t \in Frame(k) /\ v \in Seq(STRING) /\ o \in Ops(k)
  <2>1. t \in Frame(k)
    BY <1>1, ElementOfSeq
  <2> QED
    BY <2>1 DEF Frame
<1>3. c \in Seq(Frame(k)) /\ Len(c) = d /\ d \in Nat /\ \A x \in 1..d : c[x] = c2[x]
  <2>1. d \in Nat /\ d \in Int /\ 1 \in Int
    BY <1>1
  <2>2. \A i \in 1..d : c2[i] \in Frame(k)
    BY <1>1, ElementOfSeq
  <2> HIDE DEF d
  <2>3. /\ c \in Seq(Frame(k)) /\ Len(c) = IF 1 <= d THEN d - 1 + 1 ELSE 0
        /\ \A i \in 1..(d - 1 + 1) : c[i] = c2[1 + i - 1]
    BY <2>1, <2>2, SubSeqProperties
  <2> HIDE DEF c
  <2> QED
    BY <2>1, <2>3
<1> HIDE DEF c, d, t
<1>4. Len(c2) = d + 1
  BY <1>1 DEF d
<1>5. Pushed(c, v, c2, o)
  BY <1>3, <1>4 DEF Pushed, t
<1>6. Stack(k, c, v)
  <2>1. \A x \in 1..d : x \in 1..Len(c2)
    BY <1>3, <1>4
  <2> QED
    BY <1>2, <1>3, <2>1 DEF Stack
<1>7. o \notin Taken(c, d)
  <2>1. \A x \in 1..d : x \in 1..Len(c2) /\ x # Len(c2) /\ Len(c2) \in 1..Len(c2)
    BY <1>3, <1>4
  <2>2. \A x \in 1..d : c[x].id # o
    BY <1>3, <2>1 DEF Stack, t
  <2> QED
    BY <2>2 DEF Taken
<1>8. \A j \in 0..d : Val(c2, v2, j) = Val(c, v, j)
  <2>1. Len(c) \in Nat /\ Len(c) = d
    BY <1>3
  <2> QED
    BY <1>5, <2>1, PushVal
<1>9. Chain(c, v)
  <2>1. Val(c, v, 0) = <<>>
    BY <1>3, <1>8 DEF Chain
  <2>2. ASSUME NEW j \in 1..d
        PROVE  /\ StepOk(Val(c, v, j - 1), c[j].id)
               /\ Val(c, v, j) = StepState(Val(c, v, j - 1), c[j].id)
    <3>1. j \in 1..Len(c2) /\ j \in 0..d /\ j - 1 \in 0..d /\ c[j] = c2[j]
      BY <1>3, <1>4
    <3>2. /\ StepOk(Val(c2, v2, j - 1), c2[j].id)
          /\ Val(c2, v2, j) = StepState(Val(c2, v2, j - 1), c2[j].id)
      BY <3>1 DEF Chain
    <3> QED
      BY <1>8, <3>1, <3>2
  <2> QED
    BY <1>3, <2>1, <2>2 DEF Chain
<1>10. StepOk(v, o) /\ v2 = StepState(v, o)
  <2>1. Len(c2) \in 1..Len(c2) /\ Len(c2) - 1 = d /\ d \in 0..d
    BY <1>3, <1>4
  <2>2. /\ StepOk(Val(c2, v2, d), c2[Len(c2)].id)
        /\ Val(c2, v2, Len(c2)) = StepState(Val(c2, v2, d), c2[Len(c2)].id)
    BY <2>1 DEF Chain
  <2>3. Val(c2, v2, Len(c2)) = v2
    BY <1>1 DEF Val
  <2>4. Val(c, v, d) = v
    BY <1>3 DEF Val
  <2> QED
    BY <1>8, <2>1, <2>2, <2>3, <2>4 DEF t
<1> QED
  BY <1>2, <1>3, <1>5, <1>6, <1>7, <1>9, <1>10 DEF c, d, t

LEMMA BacktrackSearch ==
    ASSUME hist \in Histories, NEW k \in Partition, NEW s, Sorted(k, s),
           NEW c2, NEW e2, NEW v2, NEW nx, NEW pv, NEW ch,
           DOMAIN nx = AllNodes, DOMAIN pv = AllNodes,
           Search(k, s, c2, e2, v2, nx, pv, ch),
           Left(s, c2, Len(c2)) # {1}, e2.kind = "return", c2 # <<>>
    PROVE  LET c == SubSeq(c2, 1, Len(c2) - 1)
               t == c2[Len(c2)]
               l == Unlift(Call(t.id), nx, pv)
           IN  /\ Search(k, s, c, l.next[Call(t.id)], t.state, l.next, l.prev, ch)
               /\ Untouched(nx, pv, l.next, l.prev, s, Left(s, c, Len(c)))
<1> DEFINE c == SubSeq(c2, 1, Len(c2) - 1)
           d == Len(c)
           v == c2[Len(c2)].state
           o == c2[Len(c2)].id
           l == Unlift(Call(o), nx, pv)
           e == l.next[Call(o)]
<1>1. /\ Stack(k, c2, v2) /\ Chain(c2, v2) /\ Links(s, c2, nx, pv) /\ Standing(s, c2, e2)
      /\ Explored(k, s, c2, e2, v2) /\ Cached(k, c2, v2, ch)
  BY DEF Search
<1>2. /\ Stack(k, c, v) /\ Chain(c, v) /\ Pushed(c, v, c2, o)
      /\ o \in Ops(k) /\ o \notin Taken(c, d) /\ v2 = StepState(v, o)
  BY <1>1, StackPop
<1> HIDE DEF c, v, o
<1>3. d \in Nat /\ Len(c2) = d + 1 /\ Len(c) \in Nat
  BY <1>2, LenProperties DEF Stack, Pushed
<1>4. Dead(hist, k, Taken(c2, d + 1), v2)
  BY <1>1, <1>3, DeadEnd
<1>5. Taken(c2, d + 1) = Taken(c, d) \cup {o}
  BY <1>2, <1>3, PushTop
<1>6. Links(s, c, l.next, l.prev) /\ Untouched(nx, pv, l.next, l.prev, s, Left(s, c, d))
  BY <1>1, <1>2, LinksBacktrack
<1> HIDE DEF l
<1>7. PICK j \in Left(s, c, d) \ {1} :
          /\ e = s[j] /\ Place(s, s[j]) = j
          /\ \A p \in Left(s, c, d) : p < j => p <= Place(s, Call(o))
  BY <1>2, <1>6, GoOn
<1> HIDE DEF e
<1>8. Standing(s, c, e)
  BY <1>7 DEF Standing
<1>9. Explored(k, s, c, e, v)
  <2> SUFFICES ASSUME NEW i \in 0..d, Left(s, c, i) # {1}
               PROVE  PassedOver(k, s, c, e, v, i)
    BY DEF Explored
  <2>0. i \in 0..Len(c)
    OBVIOUS
  <2>1. Taken(c2, i) = Taken(c, i)
    BY <1>2, <1>3, <2>0, PushTaken
  <2>2. Left(s, c2, i) = Left(s, c, i)
    BY <1>2, <1>3, <2>0, PushLeft
  <2>3. Val(c2, v2, i) = Val(c, v, i)
    BY <1>2, <1>3, <2>0, PushVal
  <2>4. PassedOver(k, s, c2, e2, v2, i)
    BY <1>1, <1>3, <2>2 DEF Explored
  <2>5. CASE i \in 0..(Len(c) - 1)
    <3>1. Cur(c2, e2, i) = Cur(c, e, i)
      BY <1>2, <1>3, <2>5, PushCur
    <3> QED
      BY <2>1, <2>2, <2>3, <2>4, <3>1 DEF PassedOver
  <2>6. CASE i = d
    <3>1. Cur(c2, e2, i) = Call(o)
      BY <1>2, <1>3, <2>6, PushCurTop
    <3>2. Cur(c, e, i) = s[j] /\ Val(c, v, i) = v
      BY <1>3, <1>7, <2>6 DEF Cur, Val
    <3>3. ASSUME NEW p \in Left(s, c, i), p < j
          PROVE  /\ s[p].kind # "return"
                 /\ s[p].kind = "call" /\ StepOk(v, s[p].id) =>
                       Dead(hist, k, Taken(c, i) \cup {s[p].id}, StepState(v, s[p].id))
      <4>1. p <= Place(s, Call(o)) /\ p \in Nat /\ Place(s, Call(o)) \in Nat
        BY <1>2, <1>7, <2>6, <3>3, RemainingFacts, NodesOf, PlaceFacts DEF Left
      <4>2. CASE p = Place(s, Call(o))
        <5>1. s[p] = Call(o) /\ s[p].id = o /\ s[p].kind = "call"
          BY <1>2, <4>2, NodesOf, PlaceFacts
        <5> QED
          BY <1>2, <1>4, <1>5, <2>6, <5>1
      <4>3. CASE p < Place(s, Call(o))
        BY <2>1, <2>2, <2>3, <2>4, <3>1, <3>2, <4>3 DEF PassedOver
      <4> QED
        BY <4>1, <4>2, <4>3
    <3> QED
      BY <1>7, <3>2, <3>3 DEF PassedOver
  <2> QED
    BY <1>3, <2>5, <2>6
<1>10. Cached(k, c, v, ch)
  <2> SUFFICES ASSUME NEW x \in ch, ~Dead(hist, k, x[1], x[2])
               PROVE  \E i \in 1..d : x = <<Taken(c, i), Val(c, v, i)>>
    BY DEF Cached
  <2>1. PICK i \in 1..(d + 1) : x = <<Taken(c2, i), Val(c2, v2, i)>>
    BY <1>1, <1>3 DEF Cached
  <2>2. i # d + 1
    <3>1. Val(c2, v2, d + 1) = v2
      BY <1>2, <1>3, PushValTop
    <3>2. x[1] = Taken(c2, i) /\ x[2] = Val(c2, v2, i)
      BY <2>1
    <3> QED
      BY <1>4, <3>1, <3>2
  <2>3. i \in 1..d /\ i \in 0..Len(c)
    BY <1>3, <2>2
  <2>4. Taken(c2, i) = Taken(c, i)
    BY <1>2, <1>3, <2>3, PushTaken
  <2>5. Val(c2, v2, i) = Val(c, v, i)
    BY <1>2, <1>3, <2>3, PushVal
  <2> QED
    BY <2>1, <2>3, <2>4, <2>5
<1> QED
  BY <1>2, <1>6, <1>8, <1>9, <1>10 DEF Search, c, v, o, l, e

-----------------------------------------------------------------------------
(* The entries are put in order *)

RestOf(k, s) == Nodes(k) \ {s[i] : i \in DOMAIN s}
LongerOf(k, s) == {Append(s, n) : n \in {n \in RestOf(k, s) : \A m \in RestOf(k, s) : ~Less(m, n)}}
EntryStep(k, f, i) == IF i = 0 THEN {<<>>} ELSE UNION {LongerOf(k, s) : s \in f[i - 1]}

LEMMA NodesFinite ==
    ASSUME hist \in Histories, NEW k
    PROVE  IsFiniteSet(Nodes(k)) /\ Cardinality(Nodes(k)) \in Nat
<1>1. IsFiniteSet(Ops(k))
  BY PartitionFacts, FS_Subset DEF Ops
<1> DEFINE C == {Call(o) : o \in Ops(k)}
           D == {Return(o) : o \in Ops(k)}
           f == [o \in Ops(k) |-> Call(o)]
           g == [o \in Ops(k) |-> Return(o)]
<1>2. f \in Surjection(Ops(k), C) /\ g \in Surjection(Ops(k), D)
  BY DEF Surjection
<1> HIDE DEF C, D, f, g
<1>3. IsFiniteSet(C) /\ IsFiniteSet(D)
  BY <1>1, <1>2, FS_Surjection
<1>4. IsFiniteSet(C \cup D)
  BY <1>3, FS_Union
<1> QED
  BY <1>4, FS_CardinalityType DEF Nodes, C, D

LEMMA EntriesSolve ==
    ASSUME hist \in Histories, NEW k
    PROVE  \E f : /\ f = [i \in 0..Cardinality(Nodes(k)) |-> EntryStep(k, f, i)]
                  /\ MakeEntries(k) = f[Cardinality(Nodes(k))]
<1> DEFINE N == Cardinality(Nodes(k))
           Solved(m) == \E f : f = [i \in 0..m |-> EntryStep(k, f, i)]
           G == {m \in 0..N : Solved(m)}
<1>0. N \in Nat
  BY NodesFinite
<1> HIDE DEF N
<1>1. Solved(0)
  <2> DEFINE f == [i \in 0..0 |-> {<<>>}]
  <2>1. f = [i \in 0..0 |-> EntryStep(k, f, i)]
    BY DEF EntryStep
  <2> QED
    BY <2>1
<1>2. ASSUME NEW m \in 0..(N - 1), Solved(m) PROVE Solved(m + 1)
  <2>1. PICK f : f = [i \in 0..m |-> EntryStep(k, f, i)]
    BY <1>2
  <2> DEFINE t == [i \in 0..(m + 1) |-> EntryStep(k, f, i)]
  <2>2. ASSUME NEW i \in 0..m PROVE t[i] = f[i]
    BY <1>0, <2>1
  <2>3. ASSUME NEW i \in 0..(m + 1) PROVE EntryStep(k, f, i) = EntryStep(k, t, i)
    <3>1. i = 0 \/ i - 1 \in 0..m
      BY <1>0
    <3>2. i = 0 \/ t[i - 1] = f[i - 1]
      BY <2>2, <3>1
    <3> HIDE DEF t
    <3> QED
      BY <3>2 DEF EntryStep
  <2>4. t = [i \in 0..(m + 1) |-> EntryStep(k, t, i)]
    <3>1. \A i \in 0..(m + 1) : t[i] = EntryStep(k, t, i)
      BY <2>3
    <3> QED
      BY <3>1
  <2> QED
    BY <2>4
<1>3. Solved(N)
  <2>1. 0 \in G
    BY <1>0, <1>1
  <2>2. \A n \in 0..(N - 1) : n \in G => n + 1 \in G
    BY <1>0, <1>2
  <2> HIDE DEF G
  <2>3. \A n \in 0..N : n \in G
    BY <1>0, <2>1, <2>2, UpTo
  <2> QED
    BY <1>0, <2>3 DEF G
<1> DEFINE g == CHOOSE f : f = [i \in 0..N |-> EntryStep(k, f, i)]
<1>4. g = [i \in 0..N |-> EntryStep(k, g, i)]
  BY <1>3, Zenon
<1>5. MakeEntries(k) = g[N]
  BY Zenon DEF MakeEntries, EntryStep, LongerOf, RestOf, N
<1> HIDE DEF g
<1> QED
  BY <1>4, <1>5 DEF N

\* A part of the list put together: nothing outside its first x entries comes
\* before the entry at x.
Prefix(k, s, i) ==
    /\ s \in Seq(Nodes(k)) /\ Len(s) = i
    /\ \A x, y \in 1..i : s[x] = s[y] => x = y
    /\ \A x \in 1..i : \A n \in Nodes(k) : (\A y \in 1..x : s[y] # n) => ~Less(n, s[x])

LEMMA PrefixGrows ==
    ASSUME NEW k, NEW i \in Nat, NEW s, Prefix(k, s, i), NEW t \in LongerOf(k, s)
    PROVE  Prefix(k, t, i + 1)
<1>1. PICK n \in RestOf(k, s) : t = Append(s, n) /\ \A m \in RestOf(k, s) : ~Less(m, n)
  BY DEF LongerOf
<1>2. s \in Seq(Nodes(k)) /\ Len(s) = i /\ DOMAIN s = 1..i
  BY LenProperties DEF Prefix
<1>3. n \in Nodes(k) /\ \A x \in 1..i : s[x] # n
  BY <1>2 DEF RestOf
<1>4. /\ t \in Seq(Nodes(k)) /\ Len(t) = i + 1
      /\ \A x \in 1..i : t[x] = s[x]
      /\ t[i + 1] = n
  BY <1>1, <1>2, <1>3, AppendProperties
<1>5. \A x : x \in 1..(i + 1) <=> x \in 1..i \/ x = i + 1
  OBVIOUS
<1>6. \A x, y \in 1..(i + 1) : t[x] = t[y] => x = y
  BY <1>3, <1>4, <1>5 DEF Prefix
<1>7. ASSUME NEW x \in 1..(i + 1), NEW m \in Nodes(k), \A y \in 1..x : t[y] # m
      PROVE  ~Less(m, t[x])
  <2>1. CASE x = i + 1
    <3>1. \A y \in 1..i : s[y] # m
      BY <1>4, <1>5, <1>7, <2>1
    <3>2. m \in RestOf(k, s)
      BY <1>2, <3>1 DEF RestOf
    <3> QED
      BY <1>1, <1>4, <2>1, <3>2
  <2>2. CASE x \in 1..i
    <3>1. \A y \in 1..x : y \in 1..i
      BY <2>2
    <3>2. \A y \in 1..x : s[y] # m
      BY <1>4, <1>7, <3>1
    <3>3. t[x] = s[x]
      BY <1>4, <2>2
    <3>4. ~Less(m, s[x])
      BY <2>2, <3>2 DEF Prefix
    <3> QED
      BY <3>3, <3>4
  <2> QED
    BY <1>5, <2>1, <2>2
<1> QED
  BY <1>4, <1>6, <1>7 DEF Prefix

LEMMA MakeEntriesSorts ==
    ASSUME hist \in Histories, NEW k, NEW s \in MakeEntries(k)
    PROVE  /\ Prefix(k, s, Cardinality(Nodes(k)))
           /\ \A n \in Nodes(k) : \E x \in 1..Cardinality(Nodes(k)) : s[x] = n
<1> DEFINE N == Cardinality(Nodes(k))
<1>0. N \in Nat /\ IsFiniteSet(Nodes(k))
  BY NodesFinite
<1>1. PICK f : f = [i \in 0..N |-> EntryStep(k, f, i)] /\ MakeEntries(k) = f[N]
  BY EntriesSolve
<1> HIDE DEF N
<1>2. \A i \in 0..N : f[i] = EntryStep(k, f, i)
  BY <1>1
<1> DEFINE G == {i \in 0..N : \A t \in f[i] : Prefix(k, t, i)}
<1>3. 0 \in G
  <2>0. 0 \in 0..N
    BY <1>0
  <2>1. f[0] = {<<>>}
    BY <1>2, <2>0 DEF EntryStep
  <2>2. Prefix(k, <<>>, 0)
    BY EmptySeq DEF Prefix
  <2> QED
    BY <2>0, <2>1, <2>2
<1>4. ASSUME NEW i \in 0..(N - 1), i \in G PROVE i + 1 \in G
  <2>1. i + 1 \in 0..N /\ i + 1 # 0 /\ i + 1 - 1 = i /\ i \in Nat
    BY <1>0
  <2>2. f[i + 1] = UNION {LongerOf(k, t) : t \in f[i]}
    <3> DEFINE j == i + 1
    <3>1. j \in 0..N /\ j # 0 /\ j - 1 = i
      BY <2>1
    <3> HIDE DEF j
    <3>2. f[j] = EntryStep(k, f, j)
      BY <1>2, <3>1
    <3>3. EntryStep(k, f, j) = UNION {LongerOf(k, t) : t \in f[j - 1]}
      BY <3>1 DEF EntryStep
    <3> QED
      BY <3>1, <3>2, <3>3 DEF j
  <2>3. ASSUME NEW t \in f[i + 1] PROVE Prefix(k, t, i + 1)
    <3>1. PICK r \in f[i] : t \in LongerOf(k, r)
      BY <2>2
    <3>2. Prefix(k, r, i)
      BY <1>4
    <3> QED
      BY <2>1, <3>1, <3>2, PrefixGrows
  <2> QED
    BY <2>1, <2>3
<1>5. \A i \in 0..N : i \in G
  <2> HIDE DEF G
  <2> QED
    BY <1>0, <1>3, <1>4, UpTo
<1>6. Prefix(k, s, N)
  BY <1>0, <1>1, <1>5
<1>7. s \in Injection(1..N, Nodes(k))
  BY <1>6, LenProperties DEF Prefix, Injection, IsInjective
<1>8. Cardinality(1..N) = N
  BY <1>0, FS_Interval
<1>9. s \in Surjection(1..N, Nodes(k))
  BY <1>0, <1>7, <1>8, FS_Injection DEF N
<1> QED
  BY <1>6, <1>9 DEF Surjection, N

\* The list of a partition.
LEMMA LinkedSorted ==
    ASSUME hist \in Histories, NEW k \in Partition, order[k] \in MakeEntries(k)
    PROVE  Sorted(k, Linked(k)) /\ Len(Linked(k)) >= 2 /\ order[k][1] = Linked(k)[2]
<1> DEFINE N == Cardinality(Nodes(k))
           t == order[k]
           s == Linked(k)
           D == Nodes(k) \cup {Front(k)}
<1>0. N \in Nat /\ IsFiniteSet(Nodes(k))
  BY NodesFinite
<1>1. Prefix(k, t, N) /\ \A n \in Nodes(k) : \E x \in 1..N : t[x] = n
  BY MakeEntriesSorts
<1> HIDE DEF N, t
<1>2. t \in Seq(Nodes(k)) /\ Len(t) = N /\ \A x \in 1..N : t[x] \in Nodes(k)
  BY <1>1, ElementOfSeq DEF Prefix
<1>3. t \in Seq(D) /\ <<Front(k)>> \in Seq(D) /\ Len(<<Front(k)>>) = 1 /\ <<Front(k)>>[1] = Front(k)
  BY <1>2
<1>4. /\ s \in Seq(D) /\ Len(s) = N + 1 /\ s[1] = Front(k)
      /\ \A i \in 2..(N + 1) : s[i] = t[i - 1]
  <2> DEFINE h == <<Front(k)>>
  <2> HIDE DEF h, D
  <2>1. /\ h \o t \in Seq(D) /\ Len(h \o t) = Len(h) + Len(t)
        /\ \A i \in 1..(Len(h) + Len(t)) : (h \o t)[i] = IF i <= Len(h) THEN h[i] ELSE t[i - Len(h)]
    BY <1>3, ConcatProperties DEF h
  <2>2. Len(h) = 1 /\ h[1] = Front(k) /\ s = h \o t
    BY <1>3 DEF h, Linked, t
  <2> HIDE DEF s
  <2> QED
    BY <1>0, <1>2, <2>1, <2>2
<1> HIDE DEF s, D
<1>5. N >= 1
  <2>1. PICK o : o \in Ops(k)
    BY PartitionFacts
  <2>2. Call(o) \in Nodes(k)
    BY <2>1, NodesOf
  <2> QED
    BY <1>0, <1>1, <2>2
<1>6. \A i \in 2..(N + 1) : i - 1 \in 1..N /\ s[i] \in Nodes(k) /\ s[i] # Front(k)
  <2>1. \A i \in 2..(N + 1) : i - 1 \in 1..N
    BY <1>0
  <2>2. \A n \in Nodes(k) : n # Front(k)
    BY NodeFacts
  <2> QED
    BY <1>2, <1>4, <2>1, <2>2
<1>7. ASSUME NEW i \in 1..(N + 1), NEW j \in 1..(N + 1), s[i] = s[j] PROVE i = j
  <2>1. CASE i = 1 \/ j = 1
    BY <1>0, <1>4, <1>6, <1>7, <2>1
  <2>2. CASE i \in 2..(N + 1) /\ j \in 2..(N + 1)
    <3>1. i - 1 \in 1..N /\ j - 1 \in 1..N /\ t[i - 1] = t[j - 1]
      BY <1>4, <1>6, <1>7, <2>2
    <3>2. i - 1 = j - 1
      BY <1>1, <3>1 DEF Prefix
    <3> QED
      BY <1>0, <3>2
  <2> QED
    BY <1>0, <2>1, <2>2
<1>8. ASSUME NEW n \in Nodes(k) PROVE \E i \in 2..(N + 1) : s[i] = n
  <2>1. PICK x \in 1..N : t[x] = n
    BY <1>1
  <2>2. x + 1 \in 2..(N + 1) /\ x + 1 - 1 = x
    BY <1>0
  <2> QED
    BY <1>4, <2>1, <2>2
<1>9. ASSUME NEW i \in 2..(N + 1), NEW j \in 2..(N + 1), i < j PROVE ~Less(s[j], s[i])
  <2>1. i - 1 \in 1..N /\ j - 1 \in 1..N /\ s[j] \in Nodes(k) /\ s[i] = t[i - 1] /\ s[j] = t[j - 1]
    BY <1>4, <1>6
  <2>2. \A y \in 1..(i - 1) : y \in 1..N /\ y # j - 1
    BY <1>0, <1>9
  <2>3. \A y \in 1..(i - 1) : t[y] # t[j - 1]
    BY <1>1, <2>1, <2>2 DEF Prefix
  <2>4. ~Less(t[j - 1], t[i - 1])
    BY <1>1, <2>1, <2>3 DEF Prefix
  <2> QED
    BY <2>1, <2>4
<1>10. Len(s) >= 1 /\ Len(s) >= 2 /\ t[1] = s[2]
  <2>1. 2 \in 2..(N + 1) /\ 2 - 1 = 1
    BY <1>0, <1>5
  <2>2. s[2] = t[2 - 1]
    BY <1>4, <2>1
  <2> QED
    BY <1>0, <1>4, <1>5, <2>1, <2>2
<1>11. Sorted(k, s)
  BY <1>4, <1>7, <1>8, <1>9, <1>10 DEF Sorted, D
<1> QED
  BY <1>10, <1>11 DEF s, t

-----------------------------------------------------------------------------
(* The search invariant *)

\* The arguments are those of Init, and every search is where it may be.
Given ==
    /\ hist \in Histories
    /\ \A k \in Partition : Sorted(k, Linked(k))
    /\ DOMAIN next = AllNodes /\ DOMAIN prev = AllNodes
    /\ DOMAIN entry = Partition /\ DOMAIN state = Partition
    /\ DOMAIN calls = Partition /\ DOMAIN cache = Partition

SearchOf(k) == Search(k, Linked(k), calls[k], entry[k], state[k], next, prev, cache[k])

Searches == \A k \in Partition : SearchOf(k)

LEMMA InitSearch ==
    ASSUME Init PROVE Given /\ Searches
<1>1. Given
  BY LinkedSorted DEF Init, Given
<1>2. ASSUME NEW k \in Partition PROVE SearchOf(k)
  <2> DEFINE s == Linked(k)
             e == order[k][1]
             R == 1..Len(s)
  <2>1. hist \in Histories /\ order[k] \in MakeEntries(k)
    BY DEF Init
  <2>2. Sorted(k, s) /\ Len(s) >= 2 /\ e = s[2]
    BY <2>1, LinkedSorted
  <2>3. /\ calls[k] = <<>> /\ state[k] = <<>> /\ cache[k] = {} /\ entry[k] = e
    BY DEF Init
  <2>4. /\ Len(s) \in Nat /\ DOMAIN s = R /\ s[1] = Front(k) /\ s[1].kind = "head"
        /\ \A i \in 2..Len(s) : s[i] \in Nodes(k)
    BY <2>1, <2>2, ListFacts
  <2>5. Len(<<>>) = 0 /\ Taken(<<>>, 0) = {}
    BY EmptySeq DEF Taken
  <2>6. Left(s, <<>>, 0) = R
    BY <2>4, <2>5 DEF Left, Remaining
  <2>7. Stack(k, <<>>, <<>>) /\ Chain(<<>>, <<>>)
    BY EmptySeq DEF Stack, Chain, Val
  <2>8. ASSUME NEW i \in R PROVE s[i] \in AllNodes
    <3>1. i = 1 \/ i \in 2..Len(s)
      BY <2>4
    <3>2. Front(k) \in AllNodes /\ Nodes(k) \subseteq AllNodes
      BY DEF AllNodes
    <3> QED
      BY <2>4, <3>1, <3>2
  <2> HIDE DEF s, e
  <2>9. ASSUME NEW i \in R, NEW d \in {1, -1}
        PROVE  Link(s[i], d) = IF i + d \in R THEN s[i + d] ELSE Nil
    <3>1. Linked(IF s[i].kind = "head" THEN s[i].id ELSE hist[s[i].id].key) = s
      <4>1. CASE i = 1
        BY <2>4, <4>1 DEF Front, s
      <4>2. CASE i \in 2..Len(s)
        <5>1. s[i].kind # "head" /\ s[i].id \in Ops(k)
          BY <2>1, <2>4, <4>2, NodeFacts
        <5>2. hist[s[i].id].key = k
          BY <5>1 DEF Ops
        <5> QED
          BY <5>1, <5>2 DEF s
      <4> QED
        BY <2>4, <4>1, <4>2
    <3>2. Place(s, s[i]) = i
      BY <2>2, PlaceIs
    <3> QED
      BY <2>4, <3>1, <3>2 DEF Link
  <2>10. ASSUME NEW i \in R PROVE next[s[i]] = After(s, R, i) /\ prev[s[i]] = Before(s, R, i)
    <3>1. next[s[i]] = Link(s[i], 1) /\ prev[s[i]] = Link(s[i], -1)
      BY <2>8 DEF Init
    <3>2. Link(s[i], 1) = After(s, R, i)
      <4>1. CASE i + 1 \in R
        <5>1. R \subseteq Nat /\ i \in Nat /\ i < i + 1 /\ \A x \in R : i < x => i + 1 <= x
          BY <2>4
        <5>2. After(s, R, i) = s[i + 1]
          BY <4>1, <5>1, AfterIs
        <5> QED
          BY <2>9, <4>1, <5>2
      <4>2. CASE i + 1 \notin R
        <5>1. ~\E x \in R : i < x
          BY <2>4, <4>2
        <5> QED
          BY <2>9, <4>2, <5>1 DEF After
      <4> QED
        BY <4>1, <4>2
    <3>3. Link(s[i], -1) = Before(s, R, i)
      <4>0. i + -1 = i - 1
        BY <2>4
      <4>1. CASE i - 1 \in R
        <5>1. R \subseteq Nat /\ i \in Nat /\ i - 1 < i /\ \A x \in R : x < i => x <= i - 1
          BY <2>4
        <5>2. Before(s, R, i) = s[i - 1]
          BY <4>1, <5>1, BeforeIs
        <5> QED
          BY <2>9, <4>0, <4>1, <5>2
      <4>2. CASE i - 1 \notin R
        <5>1. ~\E x \in R : x < i
          BY <2>4, <4>2
        <5> QED
          BY <2>9, <4>0, <4>2, <5>1 DEF Before
      <4> QED
        BY <4>1, <4>2
    <3> QED
      BY <3>1, <3>2, <3>3
  <2>11. Links(s, <<>>, next, prev)
    BY <2>5, <2>6, <2>10 DEF Links, Follow
  <2>12. 2 \in R \ {1}
    BY <2>2, <2>4
  <2>13. Standing(s, <<>>, e)
    BY <2>2, <2>5, <2>6, <2>12 DEF Standing
  <2>14. Explored(k, s, <<>>, e, <<>>)
    <3>1. Cur(<<>>, e, 0) = e /\ Place(s, e) = 2
      BY <2>2, <2>5, <2>12, PlaceIs DEF Cur
    <3>2. \A p \in R : p < 2 => p = 1
      BY <2>4
    <3>3. PassedOver(k, s, <<>>, e, <<>>, 0)
      BY <2>4, <2>6, <3>1, <3>2 DEF PassedOver
    <3> QED
      BY <2>5, <3>3 DEF Explored
  <2>15. Cached(k, <<>>, <<>>, {})
    BY DEF Cached
  <2> QED
    BY <2>3, <2>7, <2>11, <2>13, <2>14, <2>15 DEF Search, SearchOf, s
<1> QED
  BY <1>1, <1>2 DEF Searches

\* What is said of one search does not depend on the rest of the state.
LEMMA Carried ==
    ASSUME hist' = hist, NEW k, NEW s, NEW c, NEW e, NEW v, NEW nx, NEW pv, NEW ch,
           Search(k, s, c, e, v, nx, pv, ch)
    PROVE  Search(k, s, c, e, v, nx, pv, ch)'
<1>1. Stack(k, c, v)' /\ Chain(c, v)'
  BY DEF Search, Stack, Frame, Ops, Chain, StepOk, StepState
<1>2. Explored(k, s, c, e, v)'
  BY DEF Search, Explored, PassedOver, StepOk, StepState
<1>3. Cached(k, c, v, ch)'
  BY DEF Search, Cached
<1> QED
  BY <1>1, <1>2, <1>3 DEF Search

\* The entries of different partitions are different.
LEMMA LinksElsewhere ==
    ASSUME hist \in Histories, NEW k \in Partition, NEW j \in Partition, j # k,
           NEW s, Sorted(k, s), NEW t, Sorted(j, t), NEW D, D \subseteq 1..Len(s),
           NEW nx, NEW pv, NEW n1, NEW p1, Untouched(nx, pv, n1, p1, s, D),
           NEW c, NEW v, Stack(j, c, v), Links(t, c, nx, pv)
    PROVE  Links(t, c, n1, p1)
<1>1. /\ Len(s) \in Nat /\ s[1] = Front(k) /\ \A i \in 2..Len(s) : s[i] \in Nodes(k)
      /\ Len(t) \in Nat /\ t[1] = Front(j) /\ \A i \in 2..Len(t) : t[i] \in Nodes(j)
  BY ListFacts
<1>2. Front(j) # Front(k)
  BY DEF Front
<1>3. \A m \in Nodes(k), n \in Nodes(j) : m # n /\ m # Front(j) /\ n # Front(k)
  <2>1. ASSUME NEW m \in Nodes(k), NEW n \in Nodes(j) PROVE m # n /\ m # Front(j) /\ n # Front(k)
    <3>1. m.id \in Ops(k) /\ n.id \in Ops(j) /\ m # Front(j) /\ n # Front(k)
      BY NodeFacts
    <3>2. hist[m.id].key = k /\ hist[n.id].key = j
      BY <3>1 DEF Ops
    <3> QED
      BY <3>1, <3>2
  <2> QED
    BY <2>1
<1>4. ASSUME NEW i \in 1..Len(t), NEW x \in D PROVE s[x] # t[i]
  <2>1. (i = 1 \/ i \in 2..Len(t)) /\ (x = 1 \/ x \in 2..Len(s))
    BY <1>1
  <2>2. CASE i = 1 /\ x = 1
    BY <1>1, <1>2, <2>2
  <2>3. CASE i = 1 /\ x \in 2..Len(s)
    <3>1. s[x] \in Nodes(k)
      BY <1>1, <2>3
    <3>2. s[x] # Front(j)
      BY <3>1, NodeFacts
    <3> QED
      BY <1>1, <2>3, <3>2
  <2>4. CASE i \in 2..Len(t) /\ x = 1
    <3>1. t[i] \in Nodes(j)
      BY <1>1, <2>4
    <3>2. t[i] # Front(k)
      BY <3>1, NodeFacts
    <3> QED
      BY <1>1, <2>4, <3>2
  <2>5. CASE i \in 2..Len(t) /\ x \in 2..Len(s)
    BY <1>1, <1>3, <2>5
  <2> QED
    BY <2>1, <2>2, <2>3, <2>4, <2>5
<1>5. \A i \in 1..Len(t) : n1[t[i]] = nx[t[i]] /\ p1[t[i]] = pv[t[i]]
  BY <1>4 DEF Untouched
<1>6. Left(t, c, Len(c)) \subseteq 1..Len(t)
  BY RemainingFacts DEF Left
<1>7. ASSUME NEW x \in 1..Len(c)
      PROVE  Place(t, Call(c[x].id)) \in 1..Len(t) /\ Place(t, Return(c[x].id)) \in 1..Len(t)
  <2>1. c[x] \in Frame(j)
    BY ElementOfSeq DEF Stack
  <2>2. c[x].id \in Ops(j)
    BY <2>1 DEF Frame
  <2>3. Call(c[x].id) \in Nodes(j) /\ Return(c[x].id) \in Nodes(j)
    BY <2>2, NodesOf
  <2> QED
    BY <1>1, <2>3, PlaceFacts
<1>8. Follow(n1, p1, t, Left(t, c, Len(c)), Left(t, c, Len(c)))
  BY <1>5, <1>6 DEF Links, Follow
<1>9. ASSUME NEW x \in 1..Len(c)
      PROVE  /\ Follow(n1, p1, t, {Place(t, Call(c[x].id))}, Left(t, c, x - 1))
             /\ Follow(n1, p1, t, {Place(t, Return(c[x].id))}, Left(t, c, x))
  BY <1>5, <1>7 DEF Links, Follow
<1> QED
  BY <1>8, <1>9 DEF Links

\* One search makes a step, and nothing else changes but the links of its list.
LEMMA OneMoves ==
    ASSUME Given, Searches, NEW k \in Partition, hist' = hist, order' = order,
           NEW D, D \subseteq 1..Len(Linked(k)),
           Untouched(next, prev, next', prev', Linked(k), D),
           DOMAIN entry' = Partition, DOMAIN state' = Partition,
           DOMAIN calls' = Partition, DOMAIN cache' = Partition,
           \A j \in Partition \ {k} : /\ entry'[j] = entry[j] /\ state'[j] = state[j]
                                      /\ calls'[j] = calls[j] /\ cache'[j] = cache[j],
           Search(k, Linked(k), calls'[k], entry'[k], state'[k], next', prev', cache'[k])
    PROVE  Given' /\ Searches'
<1>1. Partition' = Partition /\ AllNodes' = AllNodes /\ \A j : Linked(j)' = Linked(j)
  BY DEF Partition, AllNodes, Nodes, Ops, Linked
<1>2. \A j \in Partition : Sorted(j, Linked(j))'
  <2> SUFFICES ASSUME NEW j \in Partition PROVE Sorted(j, Linked(j))'
    OBVIOUS
  <2> DEFINE t == Linked(j)
  <2>1. Sorted(j, t)
    BY DEF Given
  <2>2. t' = t
    BY DEF Linked
  <2> QED
    BY <2>1, <2>2 DEF Sorted, Nodes, Ops, Less, Time
<1>3. Given'
  BY <1>1, <1>2 DEF Given, Untouched
<1>4. ASSUME NEW j \in Partition PROVE SearchOf(j)'
  <2>1. Search(j, Linked(j), calls'[j], entry'[j], state'[j], next', prev', cache'[j])
    <3>1. CASE j = k
      BY <3>1
    <3>2. CASE j # k
      <4>1. Search(j, Linked(j), calls[j], entry[j], state[j], next, prev, cache[j])
        BY DEF Searches, SearchOf
      <4>2. hist \in Histories /\ Sorted(j, Linked(j)) /\ Sorted(k, Linked(k))
        BY DEF Given
      <4>3. Stack(j, calls[j], state[j]) /\ Links(Linked(j), calls[j], next, prev)
        BY <4>1 DEF Search
      <4>4. Links(Linked(j), calls[j], next', prev')
        BY <3>2, <4>2, <4>3, LinksElsewhere
      <4>5. /\ entry'[j] = entry[j] /\ state'[j] = state[j]
            /\ calls'[j] = calls[j] /\ cache'[j] = cache[j]
        BY <3>2
      <4> QED
        BY <4>1, <4>4, <4>5 DEF Search
    <3> QED
      BY <3>1, <3>2
  <2> QED
    BY <1>1, <2>1, Carried DEF SearchOf
<1> QED
  BY <1>1, <1>3, <1>4 DEF Searches

\* What a search that goes on knows.
LEMMA SearchingFacts ==
    ASSUME Given, Searches, NEW k \in Partition
    PROVE  /\ hist \in Histories /\ Sorted(k, Linked(k))
           /\ DOMAIN next = AllNodes /\ DOMAIN prev = AllNodes
           /\ Search(k, Linked(k), calls[k], entry[k], state[k], next, prev, cache[k])
           /\ calls[k] \in Seq(Frame(k)) /\ state[k] \in Seq(STRING)
           /\ Len(calls[k]) \in Nat /\ DOMAIN calls[k] = 1..Len(calls[k])
           /\ Linearized(k) = Taken(calls[k], Len(calls[k]))
           /\ Ids(k) = [i \in 1..Len(calls[k]) |-> calls[k][i].id]
           /\ Left(Linked(k), calls[k], Len(calls[k])) \subseteq 1..Len(Linked(k))
           /\ Found(k) <=> next[Front(k)] = Nil
<1> DEFINE s == Linked(k)
           c == calls[k]
<1>1. /\ hist \in Histories /\ Sorted(k, s)
      /\ DOMAIN next = AllNodes /\ DOMAIN prev = AllNodes
      /\ Search(k, s, c, entry[k], state[k], next, prev, cache[k])
  BY DEF Given, Searches, SearchOf
<1>2. Stack(k, c, state[k]) /\ Links(s, c, next, prev)
  BY <1>1 DEF Search
<1> HIDE DEF s
<1>3. c \in Seq(Frame(k)) /\ state[k] \in Seq(STRING) /\ Len(c) \in Nat /\ DOMAIN c = 1..Len(c)
  BY <1>2, LenProperties DEF Stack
<1>4. Linearized(k) = Taken(c, Len(c))
  BY <1>3 DEF Linearized, Taken
<1>5. Ids(k) = [i \in 1..Len(c) |-> c[i].id]
  BY <1>3 DEF Ids
<1>6. Left(s, c, Len(c)) \subseteq 1..Len(s)
  BY <1>1, RemainingFacts DEF Left
<1>7. next[Front(k)] = Nil <=> Left(s, c, Len(c)) = {1}
  BY <1>1, <1>2, FrontNil
<1> QED
  BY <1>1, <1>3, <1>4, <1>5, <1>6, <1>7 DEF s, Found

LEMMA TakeKeeps ==
    ASSUME Given, Searches, NEW k \in Partition, Take(k)
    PROVE  Given' /\ Searches'
<1> DEFINE s == Linked(k)
           c == calls[k]
           e == entry[k]
           v == state[k]
           l == Lift(e, next, prev)
           D == Left(s, c, Len(c))
<1>1. /\ hist \in Histories /\ Sorted(k, s)
      /\ DOMAIN next = AllNodes /\ DOMAIN prev = AllNodes
      /\ Search(k, s, c, e, v, next, prev, cache[k])
      /\ Linearized(k) = Taken(c, Len(c)) /\ D \subseteq 1..Len(s)
      /\ next[Front(k)] = Nil <=> D = {1}
  BY SearchingFacts DEF Found
<1>2. e.kind = "call" /\ StepOk(v, e.id) /\ D # {1}
  BY <1>1 DEF Take, Takes, Searching
<1>3. /\ Search(k, s, Append(c, [id |-> e.id, state |-> v]), l.next[Front(k)],
               StepState(v, e.id), l.next, l.prev,
               cache[k] \cup {<<Taken(c, Len(c)) \cup {e.id}, StepState(v, e.id)>>})
      /\ Untouched(next, prev, l.next, l.prev, s, D)
  BY <1>1, <1>2, TakeSearch
<1>4. /\ DOMAIN entry = Partition /\ DOMAIN state = Partition
      /\ DOMAIN calls = Partition /\ DOMAIN cache = Partition
  BY DEF Given
<1> HIDE DEF s, D
<1>5. /\ hist' = hist /\ order' = order /\ next' = l.next /\ prev' = l.prev
      /\ entry' = [entry EXCEPT ![k] = l.next[Front(k)]]
      /\ state' = [state EXCEPT ![k] = StepState(state[k], e.id)]
      /\ calls' = [calls EXCEPT ![k] = Append(c, [id |-> e.id, state |-> v])]
      /\ cache' = [cache EXCEPT ![k] =
                     cache[k] \cup {<<Taken(c, Len(c)) \cup {e.id}, StepState(v, e.id)>>}]
  BY <1>1, <1>4 DEF Take, Combination, args
<1> HIDE DEF l
<1>6. /\ DOMAIN entry' = Partition /\ DOMAIN state' = Partition
      /\ DOMAIN calls' = Partition /\ DOMAIN cache' = Partition
      /\ \A j \in Partition \ {k} : /\ entry'[j] = entry[j] /\ state'[j] = state[j]
                                    /\ calls'[j] = calls[j] /\ cache'[j] = cache[j]
  BY <1>4, <1>5
<1>7. Search(k, s, calls'[k], entry'[k], state'[k], next', prev', cache'[k])
  BY <1>3, <1>4, <1>5
<1>8. Untouched(next, prev, next', prev', s, D) /\ D \subseteq 1..Len(s)
  BY <1>1, <1>3, <1>5
<1> QED
  BY <1>5, <1>6, <1>7, <1>8, OneMoves DEF s

\* Links that stay as they are.
LEMMA NothingTouched ==
    ASSUME NEW s
    PROVE  Untouched(next, prev, next, prev, s, {})
BY DEF Untouched

LEMMA SkipKeeps ==
    ASSUME Given, Searches, NEW k \in Partition, Skip(k)
    PROVE  Given' /\ Searches'
<1> DEFINE s == Linked(k)
           c == calls[k]
           e == entry[k]
           v == state[k]
           D == Left(s, c, Len(c))
<1>1. /\ hist \in Histories /\ Sorted(k, s)
      /\ Search(k, s, c, e, v, next, prev, cache[k])
      /\ Linearized(k) = Taken(c, Len(c))
      /\ next[Front(k)] = Nil <=> D = {1}
  BY SearchingFacts DEF Found
<1>2. /\ e.kind = "call" /\ D # {1}
      /\ StepOk(v, e.id) => <<Taken(c, Len(c)) \cup {e.id}, StepState(v, e.id)>> \in cache[k]
  BY <1>1 DEF Skip, Takes, Searching, Combination
<1>3. Search(k, s, c, next[e], v, next, prev, cache[k])
  BY <1>1, <1>2, SkipSearch
<1>4. /\ DOMAIN entry = Partition /\ DOMAIN state = Partition
      /\ DOMAIN calls = Partition /\ DOMAIN cache = Partition
  BY DEF Given
<1> HIDE DEF s, D
<1>5. /\ hist' = hist /\ order' = order /\ next' = next /\ prev' = prev
      /\ entry' = [entry EXCEPT ![k] = next[e]]
      /\ state' = state /\ calls' = calls /\ cache' = cache
  BY DEF Skip, args
<1>6. /\ DOMAIN entry' = Partition /\ DOMAIN state' = Partition
      /\ DOMAIN calls' = Partition /\ DOMAIN cache' = Partition
      /\ \A j \in Partition \ {k} : /\ entry'[j] = entry[j] /\ state'[j] = state[j]
                                    /\ calls'[j] = calls[j] /\ cache'[j] = cache[j]
  BY <1>4, <1>5
<1>7. Search(k, s, calls'[k], entry'[k], state'[k], next', prev', cache'[k])
  BY <1>3, <1>4, <1>5
<1>8. Untouched(next, prev, next', prev', s, {}) /\ {} \subseteq 1..Len(s)
  BY <1>5, NothingTouched
<1> QED
  BY <1>5, <1>6, <1>7, <1>8, OneMoves DEF s

LEMMA BacktrackKeeps ==
    ASSUME Given, Searches, NEW k \in Partition, Backtrack(k)
    PROVE  Given' /\ Searches'
<1> DEFINE s == Linked(k)
           c2 == calls[k]
           c == SubSeq(c2, 1, Len(c2) - 1)
           t == c2[Len(c2)]
           l == Unlift(Call(t.id), next, prev)
           D == Left(s, c, Len(c))
<1>1. /\ hist \in Histories /\ Sorted(k, s)
      /\ DOMAIN next = AllNodes /\ DOMAIN prev = AllNodes
      /\ Search(k, s, c2, entry[k], state[k], next, prev, cache[k])
      /\ next[Front(k)] = Nil <=> Left(s, c2, Len(c2)) = {1}
  BY SearchingFacts DEF Found
<1>2. c2 # <<>> /\ entry[k].kind = "return" /\ Left(s, c2, Len(c2)) # {1}
  BY <1>1 DEF Backtrack, Searching
<1>3. /\ Search(k, s, c, l.next[Call(t.id)], t.state, l.next, l.prev, cache[k])
      /\ Untouched(next, prev, l.next, l.prev, s, D)
  BY <1>1, <1>2, BacktrackSearch
<1>4. /\ DOMAIN entry = Partition /\ DOMAIN state = Partition
      /\ DOMAIN calls = Partition /\ DOMAIN cache = Partition
  BY DEF Given
<1>9. D \subseteq 1..Len(s)
  BY <1>1, RemainingFacts DEF Left
<1> HIDE DEF s, D
<1>5. /\ hist' = hist /\ order' = order /\ next' = l.next /\ prev' = l.prev
      /\ entry' = [entry EXCEPT ![k] = l.next[Call(t.id)]]
      /\ state' = [state EXCEPT ![k] = t.state]
      /\ calls' = [calls EXCEPT ![k] = c]
      /\ cache' = cache
  BY DEF Backtrack, args
<1> HIDE DEF l, c, t
<1>6. /\ DOMAIN entry' = Partition /\ DOMAIN state' = Partition
      /\ DOMAIN calls' = Partition /\ DOMAIN cache' = Partition
      /\ \A j \in Partition \ {k} : /\ entry'[j] = entry[j] /\ state'[j] = state[j]
                                    /\ calls'[j] = calls[j] /\ cache'[j] = cache[j]
  BY <1>4, <1>5
<1>7. Search(k, s, calls'[k], entry'[k], state'[k], next', prev', cache'[k])
  BY <1>3, <1>4, <1>5
<1>8. Untouched(next, prev, next', prev', s, D)
  BY <1>3, <1>5
<1> QED
  BY <1>5, <1>6, <1>7, <1>8, <1>9, OneMoves DEF s

LEMMA SearchStay ==
    ASSUME Given, Searches, UNCHANGED <<hist, order, next, prev, entry, state, calls, cache>>
    PROVE  Given' /\ Searches'
<1>1. CASE Partition = {}
  <2>1. Partition' = Partition /\ AllNodes' = AllNodes
    BY DEF Partition, AllNodes, Nodes, Ops
  <2> QED
    BY <1>1, <2>1 DEF Given, Searches
<1>2. CASE Partition # {}
  <2>1. PICK k \in Partition : TRUE
    BY <1>2
  <2>2. Search(k, Linked(k), calls'[k], entry'[k], state'[k], next', prev', cache'[k])
    BY DEF Searches, SearchOf
  <2>3. Untouched(next, prev, next', prev', Linked(k), {}) /\ {} \subseteq 1..Len(Linked(k))
    BY NothingTouched
  <2> QED
    BY <2>2, <2>3, OneMoves DEF Given
<1> QED
  BY <1>1, <1>2

LEMMA NextKeeps ==
    ASSUME Given, Searches, [Next]_vars
    PROVE  Given' /\ Searches'
<1>1. ASSUME NEW k \in Partition, CheckSingle(k) PROVE Given' /\ Searches'
  <2>1. CASE Take(k)
    BY <2>1, TakeKeeps
  <2>2. CASE Skip(k)
    BY <2>2, SkipKeeps
  <2>3. CASE Backtrack(k)
    BY <2>3, BacktrackKeeps
  <2>4. CASE GiveUp(k) \/ Killed(k) \/ Succeed(k)
    BY <2>4, SearchStay DEF GiveUp, Killed, Succeed, args, search
  <2> QED
    BY <1>1, <2>1, <2>2, <2>3, <2>4 DEF CheckSingle
<1>2. CASE CheckParallel
  BY <1>2, SearchStay DEF CheckParallel, Receive, Timeout, Drain, Conclude, args, search
<1>3. CASE UNCHANGED vars
  BY <1>3, SearchStay DEF vars, args, search
<1> QED
  BY <1>1, <1>2, <1>3 DEF Next

\* The list, the stack and the cache of every checkSingle are as described, whatever
\* the history and the order of the steps: the inductive invariant of the search.
THEOREM PorcupineSearches ==
    Spec => [](Given /\ Searches)
<1>1. Init => Given /\ Searches
  BY InitSearch
<1>2. Given /\ Searches /\ [Next]_vars => Given' /\ Searches'
  BY NextKeeps
<1> QED
  BY <1>1, <1>2, PTL DEF Spec

\* The links run through exactly the entries that are left, both ways, and the
\* search stands on one of them, for every history and every order of the steps
\* of lift and unlift.
THEOREM PorcupineListIntact ==
    Spec => []ListIntact
<1>1. Given /\ Searches => ListIntact
  <2> SUFFICES ASSUME Given, Searches, NEW k \in Partition
               PROVE  LET s == Linked(k)
                          R == Remaining(s, Linearized(k))
                      IN  /\ \A i \in R : next[s[i]] = After(s, R, i) /\ prev[s[i]] = Before(s, R, i)
                          /\ R # {1} => \E i \in R \ {1} : entry[k] = s[i]
    BY DEF ListIntact
  <2> DEFINE s == Linked(k)
             R == Remaining(s, Linearized(k))
  <2>1. /\ Search(k, s, calls[k], entry[k], state[k], next, prev, cache[k])
        /\ R = Left(s, calls[k], Len(calls[k]))
    BY SearchingFacts DEF Left
  <2>2. Links(s, calls[k], next, prev) /\ Standing(s, calls[k], entry[k])
    BY <2>1 DEF Search
  <2> HIDE DEF s, R
  <2> QED
    BY <2>1, <2>2 DEF Links, Standing, Follow, s, R
<1> QED
  BY <1>1, PorcupineSearches, PTL

-----------------------------------------------------------------------------
(* The sequences noted *)

\* The operations taken are an order that fits what is known of the key alone.
LEMMA PathOrder ==
    ASSUME hist \in Histories, NEW k \in Partition, NEW s, Sorted(k, s),
           NEW c, NEW e, NEW v, Stack(k, c, v), Explored(k, s, c, e, v),
           NEW q, q = [i \in 1..Len(c) |-> c[i].id]
    PROVE  /\ q \in Seq(Ops(k)) /\ Len(q) = Len(c)
           /\ \A i, j \in 1..Len(q) : q[i] = q[j] => i = j
           /\ RealTime(hist, q, Ops(k))
<1>1. Len(c) \in Nat /\ c \in Seq(Frame(k))
  BY LenProperties DEF Stack
<1>2. \A i \in 1..Len(c) : c[i].id \in Ops(k)
  <2>1. \A i \in 1..Len(c) : c[i] \in Frame(k)
    BY <1>1, ElementOfSeq
  <2> QED
    BY <2>1 DEF Frame
<1>3. q \in Seq(Ops(k)) /\ Len(q) = Len(c) /\ DOMAIN q = 1..Len(c)
  <2> DEFINE d == Len(c)
  <2>1. q \in [1..d -> Ops(k)] /\ d \in Nat
    BY <1>1, <1>2
  <2> HIDE DEF d
  <2>2. q \in Seq(Ops(k)) /\ Len(q) = d /\ DOMAIN q = 1..d
    BY <2>1, SeqDef
  <2> QED
    BY <2>2 DEF d
<1>4. \A i, j \in 1..Len(q) : q[i] = q[j] => i = j
  BY <1>3 DEF Stack
<1>5. ASSUME NEW n \in 1..Len(c), NEW r \in Ops(k), hist[r].ret < hist[q[n]].call
      PROVE  \E m \in 1..(n - 1) : q[m] = r
  <2> DEFINE o == c[n].id
             j == n - 1
  <2>1. q[n] = o /\ o \in Ops(k) /\ j \in 0..Len(c) /\ j < Len(c) /\ j + 1 = n /\ n \in 0..Len(c) /\ n > 0
    BY <1>1, <1>2
  <2>2. Cur(c, e, j) = Call(o)
    BY <2>1 DEF Cur
  <2>3. o \notin Taken(c, j)
    BY <2>1, TakenFacts
  <2> HIDE DEF o, j
  <2>4. /\ Place(s, Call(o)) \in 2..Len(s) /\ Place(s, Call(o)) \in Left(s, c, j)
        /\ Call(o) \in Nodes(k) /\ Call(o).id = o
    BY <2>1, <2>3, NodesOf, PlaceFacts, RemainingFacts DEF Left
  <2>5. Left(s, c, j) # {1}
    BY <2>4, PlaceFacts
  <2>6. PassedOver(k, s, c, e, v, j)
    BY <2>1, <2>5 DEF Explored
  <2>7. Place(s, Return(r)) < Place(s, Call(o))
    BY <1>5, <2>1, TimeOrder
  <2>8. s[Place(s, Return(r))] = Return(r) /\ Return(r) \in Nodes(k) /\ Return(r).id = r
    BY NodesOf, PlaceFacts
  <2>9. Return(r).kind = "return"
    BY DEF Return
  <2>10. Place(s, Return(r)) \notin Left(s, c, j)
    BY <2>2, <2>6, <2>7, <2>8, <2>9 DEF PassedOver
  <2>11. r \in Taken(c, j)
    BY <2>8, <2>10, RemainingFacts DEF Left
  <2>12. PICK m \in 1..j : c[m].id = r
    BY <2>11 DEF Taken
  <2>13. m \in 1..Len(c) /\ m \in 1..(n - 1)
    BY <1>1, <2>1 DEF j
  <2> QED
    BY <2>12, <2>13
<1> QED
  BY <1>3, <1>4, <1>5 DEF RealTime

LEMMA PathLegal ==
    ASSUME hist \in Histories, NEW k \in Partition,
           NEW c, NEW v, Stack(k, c, v), Chain(c, v),
           NEW q \in Seq(Ops(k)), Len(q) = Len(c), \A i \in 1..Len(c) : q[i] = c[i].id
    PROVE  Legal(hist, q)
<1> DEFINE st == Stores(hist, q)
           G == {n \in 0..Len(q) : st[n][k] = Val(c, v, n)}
<1>1. Len(q) \in Nat /\ k \in Key /\ \A i \in 1..Len(q) : q[i] \in Ops(k)
  BY LenProperties, ElementOfSeq, PartitionFacts
<1>2. q \in Seq(DOMAIN hist) /\ \A i \in 1..Len(q) : q[i] \in DOMAIN hist /\ hist[q[i]].key = k
  <2>1. Ops(k) \subseteq DOMAIN hist
    BY DEF Ops
  <2> QED
    BY <1>1, <2>1, LenProperties, SeqDef DEF Ops
<1>3. st[0][k] = <<>>
  BY <1>1, <1>2, StoresStart
<1>4. \A n \in 0..(Len(q) - 1) : hist[q[n + 1]].key = k =>
          st[n + 1][k] = StepState(st[n][k], q[n + 1])
  BY <1>1, <1>2, StoresHere
<1> HIDE DEF st
<1>5. 0 \in G
  BY <1>1, <1>3 DEF Chain
<1>6. ASSUME NEW n \in 0..(Len(q) - 1), n \in G PROVE n + 1 \in G
  <2>1. n + 1 \in 1..Len(q) /\ n + 1 \in 0..Len(q) /\ n + 1 - 1 = n
    BY <1>1
  <2>2. st[n + 1][k] = StepState(st[n][k], q[n + 1])
    BY <1>2, <1>4, <2>1
  <2>3. st[n][k] = Val(c, v, n)
    BY <1>6
  <2>4. Val(c, v, n + 1) = StepState(Val(c, v, n + 1 - 1), c[n + 1].id)
    BY <2>1 DEF Chain
  <2>5. q[n + 1] = c[n + 1].id
    BY <2>1
  <2> QED
    BY <2>1, <2>2, <2>3, <2>4, <2>5
<1>7. \A n \in 0..Len(q) : n \in G
  <2> HIDE DEF G
  <2> QED
    BY <1>1, <1>5, <1>6, UpTo
<1>8. ASSUME NEW n \in 1..Len(q) PROVE StepOk(st[n - 1][hist[q[n]].key], q[n])
  <2>1. n - 1 \in 0..Len(q)
    BY <1>1
  <2>2. st[n - 1][k] = Val(c, v, n - 1) /\ q[n] = c[n].id /\ hist[q[n]].key = k
    BY <1>2, <1>7, <2>1
  <2>3. StepOk(Val(c, v, n - 1), c[n].id)
    BY DEF Chain
  <2> QED
    BY <2>2, <2>3
<1> QED
  BY <1>2, <1>8, LegalIs DEF st

\* So it can be noted for each of them.
LEMMA PathNoted ==
    ASSUME Given, Searches, NEW k \in Partition, NEW o \in Linearized(k)
    PROVE  Noted(o, Ids(k))
<1> DEFINE s == Linked(k)
           c == calls[k]
           q == Ids(k)
<1>1. /\ hist \in Histories /\ Sorted(k, s)
      /\ Search(k, s, c, entry[k], state[k], next, prev, cache[k])
      /\ q = [i \in 1..Len(c) |-> c[i].id]
      /\ Linearized(k) = Taken(c, Len(c))
  BY SearchingFacts
<1> HIDE DEF q, s
<1>2. Stack(k, c, state[k]) /\ Chain(c, state[k]) /\ Explored(k, s, c, entry[k], state[k])
  BY <1>1 DEF Search
<1>3. q \in Seq(Ops(k)) /\ Len(q) = Len(c) /\ RealTime(hist, q, Ops(k))
  BY <1>1, <1>2, PathOrder
<1>4. Legal(hist, q)
  BY <1>1, <1>2, <1>3, PathLegal
<1>5. PICK i \in 1..Len(c) : c[i].id = o
  BY <1>1 DEF Taken
<1>6. q[i] = o /\ i \in DOMAIN q
  BY <1>1, <1>5
<1>7. o \in Ops(k)
  BY <1>3, <1>5, <1>6, ElementOfSeq
<1>8. hist[o].key = k
  BY <1>7 DEF Ops
<1> QED
  BY <1>3, <1>4, <1>6, <1>8 DEF Noted, q

\* A search that has nothing left has taken all operations of its key.
LEMMA AllTaken ==
    ASSUME Given, Searches, NEW k \in Partition, next[Front(k)] = Nil
    PROVE  Ops(k) \subseteq Linearized(k)
<1> DEFINE s == Linked(k)
           c == calls[k]
<1>1. /\ hist \in Histories /\ Sorted(k, s)
      /\ Linearized(k) = Taken(c, Len(c)) /\ Left(s, c, Len(c)) = {1}
  BY SearchingFacts DEF Found
<1> HIDE DEF s
<1>2. ASSUME NEW o \in Ops(k), o \notin Taken(c, Len(c)) PROVE FALSE
  <2>1. Call(o) \in Nodes(k) /\ Call(o).id = o
    BY NodesOf
  <2>2. Place(s, Call(o)) \in Left(s, c, Len(c)) /\ Place(s, Call(o)) > 1
    BY <1>1, <1>2, <2>1, RemainingFacts, PlaceFacts DEF Left
  <2> QED
    BY <1>1, <2>2
<1> QED
  BY <1>1, <1>2

\* Everything that is noted is a linearization of what is in it.
AllNoted ==
    /\ DOMAIN longest = DOMAIN hist
    /\ \A o \in DOMAIN hist : longest[o] # Nil => Noted(o, longest[o])

LEMMA NotedCarried ==
    ASSUME hist' = hist, NEW o, NEW q, Noted(o, q)
    PROVE  Noted(o, q)'
BY DEF Noted, Ops

LEMMA NotedKept ==
    ASSUME Given, Searches, AllNoted, [Next]_vars
    PROVE  AllNoted'
<1>1. CASE UNCHANGED <<hist, longest>>
  <2>1. \A o \in DOMAIN hist : longest[o] # Nil => Noted(o, longest[o])'
    BY <1>1, NotedCarried DEF AllNoted
  <2> QED
    BY <1>1, <2>1 DEF AllNoted
<1>2. ASSUME NEW k \in Partition, hist' = hist,
             NEW L, L \subseteq Linearized(k),
             longest' = [o \in DOMAIN longest |-> IF o \in L THEN Ids(k) ELSE longest[o]]
      PROVE  AllNoted'
  <2>1. \A o \in L : Noted(o, Ids(k))
    BY <1>2, PathNoted
  <2>2. ASSUME NEW o \in DOMAIN hist, longest'[o] # Nil PROVE Noted(o, longest'[o])
    BY <1>2, <2>1, <2>2 DEF AllNoted
  <2>3. \A o \in DOMAIN hist : longest'[o] # Nil => Noted(o, longest[o])'
    BY <1>2, <2>2, NotedCarried
  <2> QED
    BY <1>2, <2>3 DEF AllNoted
<1>3. ASSUME NEW k \in Partition, CheckSingle(k) PROVE AllNoted'
  <2>1. CASE Take(k) \/ Skip(k) \/ GiveUp(k) \/ Killed(k)
    BY <1>1, <2>1 DEF Take, Skip, GiveUp, Killed, args, search
  <2>2. CASE Backtrack(k)
    <3>1. CASE verbose
      <4> DEFINE L == {o \in Linearized(k) : longest[o] = Nil \/ Len(calls[k]) > Len(longest[o])}
      <4>1. longest' = [o \in DOMAIN longest |-> IF o \in L THEN Ids(k) ELSE longest[o]]
        BY <2>2, <3>1 DEF Backtrack, NoteLongest
      <4>2. L \subseteq Linearized(k) /\ hist' = hist
        BY <2>2 DEF Backtrack, args
      <4> HIDE DEF L
      <4> QED
        BY <1>2, <4>1, <4>2
    <3>2. CASE ~verbose
      BY <1>1, <2>2, <3>2 DEF Backtrack, args
    <3> QED
      BY <3>1, <3>2
  <2>3. CASE Succeed(k)
    <3>1. longest' = [o \in DOMAIN longest |-> IF o \in Ops(k) THEN Ids(k) ELSE longest[o]]
      BY <2>3 DEF Succeed
    <3>2. Ops(k) \subseteq Linearized(k)
      BY <2>3, AllTaken DEF Succeed
    <3>3. hist' = hist
      BY <2>3 DEF Succeed, args
    <3> QED
      BY <1>2, <3>1, <3>2, <3>3
  <2> QED
    BY <1>3, <2>1, <2>2, <2>3 DEF CheckSingle
<1>4. CASE CheckParallel
  BY <1>1, <1>4 DEF CheckParallel, Receive, Timeout, Drain, Conclude, args, search
<1>5. CASE UNCHANGED vars
  BY <1>1, <1>5 DEF vars, args, search
<1> QED
  BY <1>3, <1>4, <1>5 DEF Next

\* Every sequence in the information for the visualizer is a linearization of the
\* operations in it, and has the operation it is noted for: checkParallel hands
\* them over as partialLinearizations.
THEOREM PorcupinePartialsLegal ==
    Spec => []PartialsLegal
<1>1. Init => AllNoted
  BY DEF Init, AllNoted
<1>2. Given /\ Searches /\ AllNoted /\ [Next]_vars => AllNoted'
  BY NotedKept
<1>3. AllNoted => PartialsLegal
  BY DEF AllNoted, PartialsLegal, Noted
<1> QED
  BY <1>1, <1>2, <1>3, PorcupineSearches, PTL DEF Spec

-----------------------------------------------------------------------------
(* The answers *)

\* A search that has ended, found its order or failed makes no step any more.
LEMMA Settled ==
    ASSUME Given, Searches, [Next]_vars, NEW j \in Partition,
           pc[j] = "ended" \/ Found(j) \/ Failed(j)
    PROVE  calls'[j] = calls[j] /\ entry'[j] = entry[j] /\ Linked(j)' = Linked(j)
<1>1. hist' = hist /\ order' = order
  BY DEF Next, CheckSingle, Take, Skip, Backtrack, GiveUp, Killed, Succeed,
         CheckParallel, Receive, Timeout, Drain, Conclude, vars, args
<1>2. Linked(j)' = Linked(j)
  BY <1>1 DEF Linked
<1>3. ASSUME NEW k \in Partition, CheckSingle(k)
      PROVE  calls'[j] = calls[j] /\ entry'[j] = entry[j]
  <2>1. CASE GiveUp(k) \/ Killed(k) \/ Succeed(k)
    BY <2>1 DEF GiveUp, Killed, Succeed, search
  <2>2. CASE Take(k) \/ Skip(k) \/ Backtrack(k)
    <3>1. DOMAIN calls = Partition /\ DOMAIN entry = Partition
      BY DEF Given
    <3>2. k # j
      <4>1. Found(j) <=> next[Front(j)] = Nil
        BY SearchingFacts
      <4>2. pc[k] = "search" /\ next[Front(k)] # Nil
        BY <2>2 DEF Take, Skip, Backtrack, Searching
      <4>3. ~(entry[k].kind = "return" /\ calls[k] = <<>>)
        BY <2>2 DEF Take, Skip, Backtrack
      <4> QED
        BY <4>1, <4>2, <4>3 DEF Failed
    <3>3. /\ \E x : calls' = [calls EXCEPT ![k] = x] \/ calls' = calls
          /\ \E x : entry' = [entry EXCEPT ![k] = x]
      BY <2>2 DEF Take, Skip, Backtrack
    <3> QED
      BY <3>1, <3>2, <3>3
  <2> QED
    BY <1>3, <2>1, <2>2 DEF CheckSingle
<1>4. CASE CheckParallel
  BY <1>2, <1>4 DEF CheckParallel, Receive, Timeout, Drain, Conclude, search
<1>5. CASE UNCHANGED vars
  BY <1>2, <1>5 DEF vars, search
<1> QED
  BY <1>2, <1>3, <1>4, <1>5 DEF Next

LEMMA SettledFacts ==
    ASSUME Given, Searches, [Next]_vars
    PROVE  /\ Partition' = Partition
           /\ \A j \in Partition : Found(j) => Found(j)'
           /\ \A j \in Partition : Failed(j) => Failed(j)'
           /\ \A j \in Partition : pc[j] = "ended" /\ ~Found(j) => ~Found(j)'
<1>1. hist' = hist
  BY DEF Next, CheckSingle, Take, Skip, Backtrack, GiveUp, Killed, Succeed,
         CheckParallel, Receive, Timeout, Drain, Conclude, vars, args
<1>2. ASSUME NEW j \in Partition, pc[j] = "ended" \/ Found(j) \/ Failed(j)
      PROVE  (Found(j)' <=> Found(j)) /\ (Failed(j)' <=> Failed(j))
  <2>1. calls'[j] = calls[j] /\ entry'[j] = entry[j] /\ Linked(j)' = Linked(j)
    BY <1>2, Settled
  <2>2. Found(j)' <=> Found(j)
    BY <2>1 DEF Found
  <2> QED
    BY <2>1, <2>2 DEF Failed
<1> QED
  BY <1>1, <1>2 DEF Partition

\* What is sent: the answers that are out are those of the searches that ended.
LEMMA AnswerCounts ==
    ASSUME hist \in Histories, Answers, NEW k \in Partition, pc[k] = "search",
           NEW b \in BOOLEAN, Answer(k, b), hist' = hist
    PROVE  /\ pc' \in [Partition -> {"search", "ended"}] /\ Ended' = Ended \cup {k}
           /\ results' \in Seq(BOOLEAN) /\ Len(results') = Len(results) + 1
           /\ \A i \in 1..Len(results) : results'[i] = results[i]
           /\ results'[Len(results) + 1] = b
           /\ count + Len(results') = Cardinality(Ended')
<1>1. Partition' = Partition
  BY DEF Partition
<1>2. /\ pc \in [Partition -> {"search", "ended"}] /\ results \in Seq(BOOLEAN) /\ count \in Nat
      /\ count + Len(results) = Cardinality(Ended)
  BY DEF Answers
<1>3. pc' = [pc EXCEPT ![k] = "ended"] /\ results' = Append(results, b)
  BY DEF Answer
<1>4. pc' \in [Partition -> {"search", "ended"}]
  BY <1>2, <1>3
<1>5. Ended' = Ended \cup {k} /\ k \notin Ended
  BY <1>1, <1>2, <1>3 DEF Ended
<1>6. /\ results' \in Seq(BOOLEAN) /\ Len(results') = Len(results) + 1
      /\ \A i \in 1..Len(results) : results'[i] = results[i]
      /\ results'[Len(results) + 1] = b
  BY <1>2, <1>3, AppendProperties
<1>7. IsFiniteSet(Ended)
  BY PartitionFacts, FS_Subset DEF Ended
<1>8. Cardinality(Ended \cup {k}) = Cardinality(Ended) + 1
  BY <1>5, <1>7, FS_AddElement
<1>9. Len(results) \in Nat
  BY <1>2, LenProperties
<1> QED
  BY <1>2, <1>4, <1>5, <1>6, <1>8, <1>9

LEMMA AnswersSent ==
    ASSUME Given, Searches, Answers, NEW k \in Partition, CheckSingle(k)
    PROVE  Answers'
<1>0. [Next]_vars /\ hist \in Histories
  BY DEF Next, Given
<1>1. /\ Partition' = Partition
      /\ \A j \in Partition : Found(j) => Found(j)'
      /\ \A j \in Partition : Failed(j) => Failed(j)'
      /\ \A j \in Partition : pc[j] = "ended" /\ ~Found(j) => ~Found(j)'
      /\ \A j \in Partition : pc[j] = "ended" /\ ~Found(j)' => ~Found(j)
  BY <1>0, SettledFacts
<1>2. UNCHANGED main /\ hist' = hist
  BY DEF CheckSingle, Take, Skip, Backtrack, GiveUp, Killed, Succeed, main, args
<1>3. count' = count /\ ok' = ok /\ kill' = kill /\ waiting' = waiting /\ timedOut' = timedOut
  BY <1>2 DEF main
<1>4. (~ok => \E j \in Partition : Failed(j)') /\ (waiting # "select" /\ ok /\ ~timedOut =>
            \A j \in Partition : Found(j)')
  BY <1>1 DEF Answers
<1>5. CASE Take(k) \/ Skip(k) \/ Backtrack(k)
  <2>1. pc' = pc /\ results' = results
    BY <1>5 DEF Take, Skip, Backtrack
  <2>2. Ended' = Ended /\ \A j \in Ended : j \in Partition /\ (~Found(j)' => ~Found(j))
    BY <1>1, <2>1 DEF Ended
  <2> QED
    BY <1>1, <1>3, <1>4, <2>1, <2>2 DEF Answers
<1>6. ASSUME NEW b \in BOOLEAN, Answer(k, b), pc[k] = "search",
             waiting = "select" => IF b THEN Found(k) ELSE Failed(k)
      PROVE  Answers'
  <2>1. /\ pc' \in [Partition -> {"search", "ended"}] /\ Ended' = Ended \cup {k}
        /\ results' \in Seq(BOOLEAN) /\ Len(results') = Len(results) + 1
        /\ \A i \in 1..Len(results) : results'[i] = results[i]
        /\ results'[Len(results) + 1] = b
        /\ count + Len(results') = Cardinality(Ended')
    BY <1>0, <1>2, <1>6, AnswerCounts
  <2>2. Len(results) \in Nat
    BY LenProperties DEF Answers
  <2>3. ASSUME waiting = "select", NEW j \in Ended', ~Found(j)'
        PROVE  ~ok \/ \E i \in 1..Len(results') : ~results'[i]
    <3>1. CASE j \in Ended
      <4>1. ~Found(j)
        BY <1>1, <2>3, <3>1 DEF Ended
      <4>2. ~ok \/ \E i \in 1..Len(results) : ~results[i]
        BY <2>3, <3>1, <4>1 DEF Answers
      <4>3. ASSUME NEW i \in 1..Len(results), ~results[i] PROVE ~results'[i] /\ i \in 1..Len(results')
        BY <2>1, <2>2, <4>3
      <4> QED
        BY <4>2, <4>3
    <3>2. CASE j = k
      <4>1. ~b
        BY <1>1, <1>6, <2>3, <3>2
      <4>2. Len(results) + 1 \in 1..Len(results') /\ ~results'[Len(results) + 1]
        BY <2>1, <2>2, <4>1
      <4> QED
        BY <4>2
    <3> QED
      BY <2>1, <3>1, <3>2
  <2>4. ASSUME waiting = "select", NEW i \in 1..Len(results'), ~results'[i]
        PROVE  \E j \in Partition : Failed(j)'
    <3>1. CASE i \in 1..Len(results)
      <4>1. ~results[i]
        BY <2>1, <2>4, <3>1
      <4> QED
        BY <1>1, <2>4, <3>1, <4>1 DEF Answers
    <3>2. CASE i = Len(results) + 1
      <4>1. ~b
        BY <2>1, <2>4, <3>2
      <4> QED
        BY <1>1, <1>6, <2>4, <4>1
    <3> QED
      BY <2>1, <2>2, <3>1, <3>2
  <2> QED
    BY <1>1, <1>3, <1>4, <2>1, <2>3, <2>4 DEF Answers
<1>7. Found(k) <=> next[Front(k)] = Nil
  BY SearchingFacts
<1>8. CASE GiveUp(k)
  <2>1. Answer(k, FALSE) /\ pc[k] = "search" /\ Failed(k)
    BY <1>7, <1>8 DEF GiveUp, Searching, Failed
  <2> QED
    BY <1>6, <2>1
<1>9. CASE Killed(k)
  <2>1. Answer(k, FALSE) /\ pc[k] = "search" /\ waiting # "select"
    BY <1>9 DEF Killed, Answers
  <2> QED
    BY <1>6, <2>1
<1>10. CASE Succeed(k)
  <2>1. Answer(k, TRUE) /\ pc[k] = "search" /\ Found(k)
    BY <1>7, <1>10 DEF Succeed
  <2> QED
    BY <1>6, <2>1
<1> QED
  BY <1>5, <1>8, <1>9, <1>10 DEF CheckSingle

LEMMA AnswersRead ==
    ASSUME Given, Searches, Answers, CheckParallel
    PROVE  Answers'
<1>0. [Next]_vars /\ hist \in Histories
  BY DEF Next, Given
<1>1. /\ hist' = hist /\ order' = order /\ calls' = calls /\ entry' = entry /\ pc' = pc
  BY DEF CheckParallel, Receive, Timeout, Drain, Conclude, args, search
<1>2. Partition' = Partition /\ Ended' = Ended
  BY <1>1 DEF Partition, Ended
<1>3. \A j \in Partition : (Found(j)' <=> Found(j)) /\ (Failed(j)' <=> Failed(j))
  BY <1>1 DEF Found, Failed, Linked
<1>4. /\ count \in Nat /\ results \in Seq(BOOLEAN) /\ ok \in BOOLEAN /\ Len(results) \in Nat
      /\ count + Len(results) = Cardinality(Ended)
  BY LenProperties DEF Answers
<1>5. ASSUME results # <<>>
      PROVE  /\ Head(results) = results[1] /\ Tail(results) \in Seq(BOOLEAN)
             /\ Len(results) >= 1 /\ Len(Tail(results)) = Len(results) - 1
             /\ \A i \in 1..Len(Tail(results)) : Tail(results)[i] = results[i + 1]
             /\ count + 1 + Len(Tail(results)) = Cardinality(Ended)
  <2>1. /\ Head(results) \in BOOLEAN /\ Tail(results) \in Seq(BOOLEAN)
        /\ Len(results) >= 1 /\ Len(Tail(results)) = Len(results) - 1
        /\ \A i \in 1..Len(Tail(results)) : Tail(results)[i] = results[i + 1]
    BY <1>4, <1>5, EmptySeq, HeadTailProperties
  <2>2. Head(results) = results[1]
    BY <1>4, <1>5
  <2> QED
    BY <1>4, <2>1, <2>2
<1>6. CASE Receive
  <2> DEFINE t == Tail(results)
  <2>1. /\ waiting = "select" /\ results # <<>> /\ results' = t /\ count' = count + 1
        /\ ok' = (ok /\ Head(results)) /\ kill' = (~ok' /\ ~verbose) /\ timedOut' = timedOut
        /\ waiting' = IF kill' \/ AllIn(count') THEN "drain" ELSE "select"
    BY <1>6 DEF Receive
  <2>2. /\ Head(results) = results[1] /\ t \in Seq(BOOLEAN)
        /\ Len(results) >= 1 /\ Len(t) = Len(results) - 1
        /\ \A i \in 1..Len(t) : t[i] = results[i + 1]
        /\ count + 1 + Len(t) = Cardinality(Ended)
    BY <1>5, <2>1
  <2>3. /\ ~kill /\ ~timedOut
        /\ (\E k \in Ended : ~Found(k)) => ~ok \/ \E i \in 1..Len(results) : ~results[i]
        /\ (\E i \in 1..Len(results) : ~results[i]) => \E k \in Partition : Failed(k)
    BY <2>1 DEF Answers
  <2> HIDE DEF t
  <2>4. ok' \in BOOLEAN /\ (ok' <=> ok /\ results[1])
    BY <2>1, <2>2
  <2>5. ~ok' => \E k \in Partition : Failed(k)
    <3>1. CASE ~ok
      BY <3>1 DEF Answers
    <3>2. CASE ~results[1]
      <4>1. 1 \in 1..Len(results)
        BY <1>4, <2>2
      <4> QED
        BY <2>3, <3>2, <4>1
    <3> QED
      BY <2>4, <3>1, <3>2
  <2>6. ASSUME NEW i \in 1..Len(t), ~t[i] PROVE \E k \in Partition : Failed(k)
    <3>1. i + 1 \in 1..Len(results) /\ ~results[i + 1]
      BY <1>4, <2>2, <2>6
    <3> QED
      BY <2>3, <3>1
  <2>7. ASSUME NEW k \in Ended, ~Found(k) PROVE ~ok' \/ \E i \in 1..Len(t) : ~t[i]
    <3>1. CASE ~ok
      BY <2>4, <3>1
    <3>2. ASSUME NEW x \in 1..Len(results), ~results[x], x # 1
          PROVE  \E i \in 1..Len(t) : ~t[i]
      <4>1. x - 1 \in 1..Len(t) /\ x - 1 + 1 = x
        BY <1>4, <2>2, <3>2
      <4>2. ~t[x - 1]
        BY <2>2, <3>2, <4>1
      <4> QED
        BY <4>1, <4>2
    <3>3. CASE \E x \in 1..Len(results) : ~results[x]
      BY <2>4, <3>2, <3>3
    <3> QED
      BY <2>3, <2>7, <3>1, <3>3
  <2>8. ASSUME waiting' # "select", ok' PROVE \A k \in Partition : Found(k)
    <3>1. AllIn(count')
      BY <2>1, <2>8
    <3>2. count + 1 >= Cardinality(Partition)
      BY <1>2, <2>1, <3>1 DEF AllIn
    <3>3. IsFiniteSet(Partition) /\ Cardinality(Partition) \in Nat /\ Ended \subseteq Partition
      BY <1>0, PartitionFacts, FS_CardinalityType DEF Ended
    <3>4. /\ Cardinality(Ended) <= Cardinality(Partition)
          /\ Cardinality(Partition) = Cardinality(Ended) => Partition = Ended
      BY <3>3, FS_Subset
    <3>5. Len(t) = 0 /\ Ended = Partition
      <4>1. Len(t) \in Nat
        BY <2>2, LenProperties
      <4>2. Cardinality(Ended) \in Nat
        BY <1>4, <2>2, <4>1
      <4> QED
        BY <1>4, <2>2, <3>2, <3>3, <3>4, <4>1, <4>2
    <3>6. ~\E i \in 1..Len(t) : ~t[i]
      BY <3>5
    <3> QED
      BY <2>7, <2>8, <3>5, <3>6
  <2>9. waiting' = "select" => ~kill'
    BY <2>1
  <2>10. /\ count' \in Nat /\ results' \in Seq(BOOLEAN) /\ count' + Len(results') = Cardinality(Ended')
    <3>1. count' = count + 1 /\ results' = t
      BY <2>1
    <3>2. Cardinality(Ended') = Cardinality(Ended)
      BY <1>2
    <3>3. Len(results') = Len(t)
      BY <3>1
    <3>4. results' \in Seq(BOOLEAN)
      BY <2>2, <3>1
    <3>5. count' \in Nat /\ count' + Len(results') = count + 1 + Len(t)
      BY <1>4, <3>1, <3>3
    <3>6. count + 1 + Len(t) = Cardinality(Ended)
      BY <2>2
    <3> QED
      BY <3>2, <3>4, <3>5, <3>6
  <2>11. pc' \in [Partition' -> {"search", "ended"}]
    BY <1>1, <1>2 DEF Answers
  <2>12. ~timedOut' /\ results' = t
    BY <2>1, <2>3
  <2>13. (\E k \in Ended' : ~Found(k)') => ~ok' \/ \E i \in 1..Len(results') : ~results'[i]
    <3> SUFFICES ASSUME NEW k \in Ended', ~Found(k)'
                 PROVE  ~ok' \/ \E i \in 1..Len(t) : ~t[i]
      BY <2>12
    <3>1. k \in Ended /\ ~Found(k)
      BY <1>2, <1>3 DEF Ended
    <3> QED
      BY <2>7, <3>1
  <2>14. (\E i \in 1..Len(results') : ~results'[i]) => \E k \in Partition' : Failed(k)'
    BY <1>2, <1>3, <2>6, <2>12
  <2>15. ~ok' => \E k \in Partition' : Failed(k)'
    BY <1>2, <1>3, <2>5
  <2>16. waiting' # "select" /\ ok' => \A k \in Partition' : Found(k)'
    BY <1>2, <1>3, <2>8
  <2> QED
    BY <2>4, <2>9, <2>10, <2>11, <2>12, <2>13, <2>14, <2>15, <2>16 DEF Answers
<1>7. CASE Timeout
  <2>1. /\ timedOut' = TRUE /\ waiting' = "drain" /\ results' = results /\ count' = count /\ ok' = ok
    BY <1>7 DEF Timeout
  <2> QED
    BY <1>1, <1>2, <1>3, <2>1 DEF Answers
<1>8. CASE Drain
  <2>1. /\ results # <<>> /\ results' = Tail(results) /\ count' = count + 1 /\ ok' = ok
        /\ waiting = "drain" /\ waiting' = waiting /\ timedOut' = timedOut
    BY <1>8 DEF Drain
  <2> QED
    BY <1>1, <1>2, <1>3, <1>4, <1>5, <2>1 DEF Answers
<1>9. CASE Conclude
  <2>1. /\ results' = results /\ count' = count /\ ok' = ok /\ timedOut' = timedOut
        /\ waiting = "drain" /\ waiting' = "returned"
    BY <1>9 DEF Conclude
  <2> QED
    BY <1>1, <1>2, <1>3, <2>1 DEF Answers
<1> QED
  BY <1>6, <1>7, <1>8, <1>9 DEF CheckParallel

LEMMA AnswersKept ==
    ASSUME Given, Searches, Answers, Concluded, [Next]_vars
    PROVE  Answers' /\ Concluded'
<1>1. Answers'
  <2>1. CASE UNCHANGED vars
    <3>1. Partition' = Partition /\ Ended' = Ended
      BY <2>1 DEF Partition, Ended, vars, args
    <3>2. \A j \in Partition : (Found(j)' <=> Found(j)) /\ (Failed(j)' <=> Failed(j))
      BY <2>1 DEF Found, Failed, Linked, vars, args, search
    <3>3. /\ pc' = pc /\ results' = results /\ count' = count /\ ok' = ok /\ kill' = kill
          /\ waiting' = waiting /\ timedOut' = timedOut
      BY <2>1 DEF vars, main
    <3>4. Ended \subseteq Partition
      BY DEF Ended
    <3> QED
      BY <3>1, <3>2, <3>3, <3>4 DEF Answers
  <2> QED
    BY <2>1, AnswersSent, AnswersRead DEF Next
<1>2. Concluded'
  <2>1. CASE Receive
    BY <2>1 DEF Receive, Concluded
  <2>2. CASE Timeout
    BY <2>2 DEF Timeout, Concluded
  <2>3. CASE Drain
    BY <2>3 DEF Drain, Concluded
  <2>4. CASE Conclude
    BY <2>4 DEF Conclude, Concluded
  <2>5. CASE UNCHANGED main
    BY <2>5 DEF main, Concluded
  <2>6. CASE \E k \in Partition : CheckSingle(k)
    BY <2>5, <2>6 DEF CheckSingle, Take, Skip, Backtrack, GiveUp, Killed, Succeed
  <2>7. CASE UNCHANGED vars
    BY <2>5, <2>7 DEF vars
  <2> QED
    BY <2>1, <2>2, <2>3, <2>4, <2>6, <2>7 DEF Next, CheckParallel
<1> QED
  BY <1>1, <1>2

LEMMA InitAnswers ==
    ASSUME Init
    PROVE  Answers /\ Concluded
<1>1. Ended = {}
  BY DEF Init, Ended
<1>2. /\ count = 0 /\ results = <<>> /\ ok = TRUE /\ waiting = "select" /\ kill = FALSE
      /\ timedOut = FALSE /\ verdict = Nil /\ pc = [k \in Partition |-> "search"]
  BY DEF Init
<1>3. results \in Seq(BOOLEAN) /\ Len(results) = 0 /\ Cardinality(Ended) = 0
  BY <1>1, <1>2, EmptySeq, FS_EmptySet
<1>4. Answers
  BY <1>1, <1>2, <1>3 DEF Answers
<1>5. Concluded
  BY <1>2, NilAssumption DEF Concluded
<1> QED
  BY <1>4, <1>5

-----------------------------------------------------------------------------
(* Illegal *)

\* A search that failed shows that there is no linearization.
LEMMA FailedIllegal ==
    ASSUME Given, Searches, NEW k \in Partition, Failed(k)
    PROVE  ~Linearizable(hist)
<1> DEFINE s == Linked(k)
           c == calls[k]
           v == state[k]
<1>1. /\ hist \in Histories /\ Sorted(k, s)
      /\ Search(k, s, c, entry[k], v, next, prev, cache[k])
  BY SearchingFacts
<1>2. c = <<>> /\ Left(s, c, Len(c)) # {1} /\ entry[k].kind = "return"
  BY DEF Failed, Found
<1>3. /\ Stack(k, c, v) /\ Chain(c, v) /\ Standing(s, c, entry[k])
      /\ Explored(k, s, c, entry[k], v)
  BY <1>1 DEF Search
<1>4. Len(c) = 0 /\ Taken(c, 0) = {}
  BY <1>2, EmptySeq DEF Taken
<1>5. v = <<>>
  <2>1. Val(c, v, 0) = v
    BY <1>4 DEF Val
  <2> QED
    BY <1>3, <2>1 DEF Chain
<1> HIDE DEF s, c, v
<1>6. Dead(hist, k, {}, <<>>)
  <2>1. Dead(hist, k, Taken(c, Len(c)), v)
    BY <1>1, <1>2, <1>3, DeadEnd
  <2> QED
    BY <1>4, <1>5, <2>1
<1> SUFFICES ASSUME NEW seq \in [1..Cardinality(DOMAIN hist) -> DOMAIN hist],
                    Linearization(hist, seq)
             PROVE  FALSE
  BY DEF Linearizable
<1>7. seq \in Seq(DOMAIN hist) /\ Len(seq) \in Nat /\ k \in Key
  BY <1>1, AllPlaced, PartitionFacts
<1>8. Stores(hist, seq)[0][k] = <<>>
  BY <1>1, <1>7, StoresStart
<1>9. {} = {o \in DOMAIN hist : hist[o].key = k /\ \E i \in 1..0 : seq[i] = o}
  OBVIOUS
<1>10. 0 \in 0..Len(seq)
  BY <1>7
<1>11. Passes(hist, seq, k, {}, <<>>)
  BY <1>8, <1>9, <1>10 DEF Passes
<1> QED
  BY <1>6, <1>11 DEF Dead

-----------------------------------------------------------------------------
(* Ok: the orders found for the keys are merged.  Of the operations that have *)
(* no place yet the one that returned first is looked up, and the next one of *)
(* its key is taken: nothing that is still out returned before that began.    *)

\* An order q of all the operations of a key, and the values w it goes through.
Solution(k, q, w) ==
    /\ q \in Seq(Ops(k))
    /\ \A i, j \in 1..Len(q) : q[i] = q[j] => i = j
    /\ \A o \in Ops(k) : \E i \in 1..Len(q) : q[i] = o
    /\ RealTime(hist, q, Ops(k))
    /\ w[0] = <<>>
    /\ \A n \in 1..Len(q) : StepOk(w[n - 1], q[n]) /\ w[n] = StepState(w[n - 1], q[n])

\* The order seq holds the first x[k] operations of each q[k].
Merged(q, w, seq, x) ==
    /\ seq \in Seq(DOMAIN hist) /\ x \in [Partition -> Nat]
    /\ \A i, j \in 1..Len(seq) : seq[i] = seq[j] => i = j
    /\ RealTime(hist, seq, DOMAIN hist)
    /\ Legal(hist, seq)
    /\ \A k \in Partition :
          /\ x[k] <= Len(q[k]) /\ Stores(hist, seq)[Len(seq)][k] = w[k][x[k]]
          /\ \A o \in Ops(k) : (\E i \in 1..Len(seq) : seq[i] = o) <=>
                               (\E i \in 1..x[k] : q[k][i] = o)

LEMMA StoresPrefix ==
    ASSUME hist \in Histories, NEW seq \in Seq(DOMAIN hist), NEW o \in DOMAIN hist,
           NEW k \in Key
    PROVE  \A n \in 0..Len(seq) : Stores(hist, Append(seq, o))[n][k] = Stores(hist, seq)[n][k]
<1> DEFINE s2 == Append(seq, o)
           st == Stores(hist, seq)
           u == Stores(hist, s2)
           G == {n \in 0..Len(seq) : u[n][k] = st[n][k]}
<1>1. /\ Len(seq) \in Nat /\ s2 \in Seq(DOMAIN hist) /\ Len(s2) = Len(seq) + 1
      /\ \A i \in 1..Len(seq) : s2[i] = seq[i]
  BY LenProperties, AppendProperties
<1> HIDE DEF s2
<1>2. st[0][k] = <<>> /\ u[0][k] = <<>>
  BY <1>1, StoresStart
<1>3. \A n \in 0..(Len(seq) - 1) :
          /\ hist[seq[n + 1]].key = k => st[n + 1][k] = StepState(st[n][k], seq[n + 1])
          /\ hist[seq[n + 1]].key # k => st[n + 1][k] = st[n][k]
  <2>1. \A n \in 0..(Len(seq) - 1) : hist[seq[n + 1]].key = k =>
            st[n + 1][k] = StepState(st[n][k], seq[n + 1])
    BY StoresHere
  <2>2. \A n \in 0..(Len(seq) - 1) : hist[seq[n + 1]].key # k => st[n + 1][k] = st[n][k]
    BY StoresElsewhere
  <2> HIDE DEF st
  <2> QED
    BY <2>1, <2>2
<1>4. \A n \in 0..(Len(s2) - 1) :
          /\ hist[s2[n + 1]].key = k => u[n + 1][k] = StepState(u[n][k], s2[n + 1])
          /\ hist[s2[n + 1]].key # k => u[n + 1][k] = u[n][k]
  <2>1. \A n \in 0..(Len(s2) - 1) : hist[s2[n + 1]].key = k =>
            u[n + 1][k] = StepState(u[n][k], s2[n + 1])
    BY <1>1, StoresHere
  <2>2. \A n \in 0..(Len(s2) - 1) : hist[s2[n + 1]].key # k => u[n + 1][k] = u[n][k]
    BY <1>1, StoresElsewhere
  <2> HIDE DEF u
  <2> QED
    BY <2>1, <2>2
<1> HIDE DEF st, u
<1>5. 0 \in G
  BY <1>1, <1>2
<1>6. ASSUME NEW n \in 0..(Len(seq) - 1), n \in G PROVE n + 1 \in G
  <2>1. n + 1 \in 0..Len(seq) /\ n + 1 \in 1..Len(seq) /\ n \in 0..(Len(s2) - 1)
    BY <1>1
  <2>2. s2[n + 1] = seq[n + 1]
    BY <1>1, <2>1
  <2>3. u[n][k] = st[n][k]
    BY <1>6
  <2>4. u[n + 1][k] = st[n + 1][k]
    BY <1>3, <1>4, <2>1, <2>2, <2>3
  <2> QED
    BY <2>1, <2>4
<1>7. \A n \in 0..Len(seq) : n \in G
  <2> HIDE DEF G
  <2> QED
    BY <1>1, <1>5, <1>6, UpTo
<1> QED
  BY <1>7 DEF st, u, s2

LEMMA MergeNext ==
    ASSUME hist \in Histories, NEW q, NEW w, \A k \in Partition : Solution(k, q[k], w[k]),
           NEW seq, NEW x, Merged(q, w, seq, x), Len(seq) < Cardinality(DOMAIN hist)
    PROVE  \E s2, x2 : Merged(q, w, s2, x2) /\ Len(s2) = Len(seq) + 1
<1> DEFINE n == Len(seq)
           U == {o \in DOMAIN hist : \A i \in 1..n : seq[i] # o}
<1>1. /\ seq \in Seq(DOMAIN hist) /\ n \in Nat /\ seq \in [1..n -> DOMAIN hist] /\ DOMAIN seq = 1..n
      /\ x \in [Partition -> Nat] /\ \A i, j \in 1..n : seq[i] = seq[j] => i = j
  BY LenProperties DEF Merged
<1>2. IsFiniteSet(DOMAIN hist) /\ Cardinality(DOMAIN hist) \in Nat
  BY PartitionFacts, FS_CardinalityType
<1> HIDE DEF n
<1>3. U # {}
  <2> SUFFICES ASSUME U = {} PROVE FALSE
    OBVIOUS
  <2>1. seq \in Surjection(1..n, DOMAIN hist)
    BY <1>1 DEF Surjection
  <2>2. IsFiniteSet(1..n) /\ Cardinality(1..n) = n
    BY <1>1, FS_Interval
  <2>3. Cardinality(DOMAIN hist) <= n
    BY <2>1, <2>2, FS_Surjection
  <2> QED
    BY <1>1, <1>2, <2>3 DEF n
<1>4. PICK r \in U : \A p \in U : hist[r].ret <= hist[p].ret
  <2> DEFINE T == {hist[p].ret : p \in U}
  <2>1. T \subseteq Nat /\ T # {}
    BY <1>3, PorcupineAssumption
  <2>2. PICK t \in T : \A y \in T : t <= y
    <3> HIDE DEF T
    <3> QED
      BY <2>1, Least
  <2> QED
    BY <2>2
<1> DEFINE k == hist[r].key
<1>5. k \in Partition /\ r \in Ops(k) /\ k \in Key
  BY PartitionFacts DEF Partition, Ops
<1> HIDE DEF k
<1>6. /\ q[k] \in Seq(Ops(k)) /\ Len(q[k]) \in Nat
      /\ \A i, j \in 1..Len(q[k]) : q[k][i] = q[k][j] => i = j
      /\ \A p \in Ops(k) : \E i \in 1..Len(q[k]) : q[k][i] = p
      /\ RealTime(hist, q[k], Ops(k))
      /\ DOMAIN q[k] = 1..Len(q[k])
      /\ \A m \in 1..Len(q[k]) : StepOk(w[k][m - 1], q[k][m]) /\ w[k][m] = StepState(w[k][m - 1], q[k][m])
  BY <1>5, LenProperties DEF Solution
<1>7. /\ x[k] \in Nat /\ x[k] <= Len(q[k])
      /\ Stores(hist, seq)[n][k] = w[k][x[k]]
      /\ \A p \in Ops(k) : (\E i \in 1..n : seq[i] = p) <=> (\E i \in 1..x[k] : q[k][i] = p)
  BY <1>1, <1>5 DEF Merged, n
<1> DEFINE a == x[k] + 1
           o == q[k][a]
<1>8. a \in 1..Len(q[k]) /\ a \in Nat /\ a - 1 = x[k]
  <2>1. PICK i \in 1..Len(q[k]) : q[k][i] = r
    BY <1>5, <1>6
  <2>2. i \notin 1..x[k]
    BY <1>5, <1>7, <2>1
  <2> QED
    BY <1>6, <1>7, <2>2
<1>9. o \in Ops(k) /\ o \in DOMAIN hist /\ hist[o].key = k
  <2>1. o \in Ops(k)
    BY <1>6, <1>8, ElementOfSeq
  <2> QED
    BY <2>1 DEF Ops
<1>10. \A i \in 1..n : seq[i] # o
  <2>1. \A i \in 1..x[k] : i \in 1..Len(q[k]) /\ i # a
    BY <1>7, <1>8
  <2>2. \A i \in 1..x[k] : q[k][i] # o
    BY <1>6, <1>8, <2>1
  <2> QED
    BY <1>7, <1>9, <2>2
<1> HIDE DEF a
<1>20. RealTime(hist, q[k], Ops(k)) /\ a \in DOMAIN q[k]
  BY <1>6, <1>8
<1> DEFINE s2 == Append(seq, o)
           x2 == [x EXCEPT ![k] = a]
<1> HIDE DEF o
<1>11. /\ s2 \in Seq(DOMAIN hist) /\ Len(s2) = n + 1 /\ DOMAIN s2 = 1..(n + 1)
       /\ \A i \in 1..n : s2[i] = seq[i]
       /\ s2[n + 1] = o
  BY <1>1, <1>9, AppendProperties, LenProperties DEF n
<1>12. \A j \in Key : \A m \in 0..n : Stores(hist, s2)[m][j] = Stores(hist, seq)[m][j]
  BY <1>1, <1>9, StoresPrefix DEF n
<1> HIDE DEF s2
<1>13. /\ x2 \in [Partition -> Nat] /\ x2[k] = a
       /\ \A j \in Partition : j # k => x2[j] = x[j]
  BY <1>1, <1>5, <1>8
<1> HIDE DEF x2
<1>14. \A i : i \in 1..(n + 1) <=> i \in 1..n \/ i = n + 1
  BY <1>1
<1>15. \A i, j \in 1..(n + 1) : s2[i] = s2[j] => i = j
  BY <1>1, <1>10, <1>11, <1>14
<1>16. RealTime(hist, s2, DOMAIN hist)
  <2> SUFFICES ASSUME NEW m \in 1..(n + 1), NEW p \in DOMAIN hist, hist[p].ret < hist[s2[m]].call
               PROVE  \E i \in 1..(m - 1) : s2[i] = p
    BY <1>11 DEF RealTime
  <2>1. CASE m \in 1..n
    <3>1. hist[p].ret < hist[seq[m]].call
      BY <1>11, <2>1
    <3>2. PICK i \in 1..(m - 1) : seq[i] = p
      BY <1>1, <2>1, <3>1 DEF Merged, RealTime
    <3>3. i \in 1..n
      BY <1>1, <2>1
    <3> QED
      BY <1>11, <3>2, <3>3
  <2>2. CASE m = n + 1
    <3>0. s2[m] = o /\ m - 1 = n
      BY <1>1, <1>11, <2>2
    <3>1. CASE p \in U
      <4>1. /\ hist[r].ret <= hist[p].ret /\ hist[r].ret \in Nat /\ hist[p].ret \in Nat
            /\ hist[o].call \in Nat
        BY <1>4, <1>9, <3>1, PorcupineAssumption
      <4>2. hist[r].ret < hist[q[k][a]].call
        BY <3>0, <4>1 DEF o
      <4>3. \E i \in 1..(a - 1) : q[k][i] = r
        BY <1>5, <1>20, <4>2 DEF RealTime
      <4>4. \E i \in 1..n : seq[i] = r
        BY <1>5, <1>7, <1>8, <4>3
      <4> QED
        BY <4>4
    <3>2. CASE p \notin U
      <4>1. PICK i \in 1..n : seq[i] = p
        BY <3>2
      <4> QED
        BY <1>11, <3>0, <4>1
    <3> QED
      BY <3>1, <3>2
  <2> QED
    BY <1>14, <2>1, <2>2
<1>17. Legal(hist, s2)
  <2> SUFFICES ASSUME NEW m \in 1..(n + 1)
               PROVE  StepOk(Stores(hist, s2)[m - 1][hist[s2[m]].key], s2[m])
    BY <1>11, LegalIs
  <2>1. CASE m \in 1..n
    <3>1. \A i \in 1..n : StepOk(Stores(hist, seq)[i - 1][hist[seq[i]].key], seq[i])
      BY <1>1, LegalIs DEF Merged, n
    <3>2. s2[m] = seq[m] /\ seq[m] \in DOMAIN hist /\ m - 1 \in 0..n
      BY <1>1, <1>11, <2>1
    <3>3. hist[seq[m]].key \in Key
      BY <3>2, PorcupineAssumption
    <3>4. Stores(hist, s2)[m - 1][hist[seq[m]].key] = Stores(hist, seq)[m - 1][hist[seq[m]].key]
      BY <1>12, <3>2, <3>3
    <3>5. StepOk(Stores(hist, seq)[m - 1][hist[seq[m]].key], seq[m])
      BY <2>1, <3>1
    <3> QED
      BY <3>2, <3>4, <3>5
  <2>2. CASE m = n + 1
    <3>1. s2[m] = o /\ m - 1 = n /\ n \in 0..n
      BY <1>1, <1>11, <2>2
    <3>2. Stores(hist, s2)[n][k] = w[k][x[k]]
      BY <1>5, <1>7, <1>12, <3>1
    <3>3. StepOk(w[k][a - 1], q[k][a])
      BY <1>6, <1>8
    <3>4. StepOk(w[k][x[k]], o)
      BY <1>8, <3>3 DEF o
    <3> QED
      BY <1>9, <3>1, <3>2, <3>4
  <2> QED
    BY <1>14, <2>1, <2>2
<1>18. ASSUME NEW j \in Partition
       PROVE  /\ x2[j] <= Len(q[j]) /\ Stores(hist, s2)[n + 1][j] = w[j][x2[j]]
              /\ \A p \in Ops(j) : (\E i \in 1..(n + 1) : s2[i] = p) <=>
                                   (\E i \in 1..x2[j] : q[j][i] = p)
  <2>0. j \in Key /\ n \in 0..(Len(s2) - 1) /\ hist[s2[n + 1]].key = k /\ n \in 0..n
    BY <1>1, <1>9, <1>11, PartitionFacts
  <2>1. CASE j = k
    <3>1. x2[j] <= Len(q[j])
      BY <1>6, <1>8, <1>13, <2>1
    <3>2. Stores(hist, s2)[n + 1][k] = StepState(Stores(hist, s2)[n][k], s2[n + 1])
      <4>1. \A m \in 0..(Len(s2) - 1) : hist[s2[m + 1]].key = k =>
               Stores(hist, s2)[m + 1][k] = StepState(Stores(hist, s2)[m][k], s2[m + 1])
        BY <1>5, <1>11, StoresHere
      <4> QED
        BY <2>0, <4>1
    <3>3. Stores(hist, s2)[n][k] = w[k][x[k]]
      BY <1>5, <1>7, <1>12, <2>0
    <3>4. w[k][a] = StepState(w[k][x[k]], o)
      <4>1. w[k][a] = StepState(w[k][a - 1], q[k][a])
        BY <1>6, <1>8
      <4> QED
        BY <1>8, <4>1 DEF o
    <3>5. Stores(hist, s2)[n + 1][j] = w[j][x2[j]]
      BY <1>11, <1>13, <2>1, <3>2, <3>3, <3>4
    <3>6. ASSUME NEW p \in Ops(k)
          PROVE  (\E i \in 1..(n + 1) : s2[i] = p) <=> (\E i \in 1..a : q[k][i] = p)
      <4>1. (\E i \in 1..(n + 1) : s2[i] = p) <=> (\E i \in 1..n : seq[i] = p) \/ p = o
        BY <1>11, <1>14
      <4>2. \A i : i \in 1..a <=> i \in 1..x[k] \/ i = a
        BY <1>7, <1>8 DEF a
      <4>3. (\E i \in 1..a : q[k][i] = p) <=> (\E i \in 1..x[k] : q[k][i] = p) \/ p = o
        BY <4>2 DEF o
      <4> QED
        BY <1>7, <4>1, <4>3
    <3> QED
      BY <1>13, <2>1, <3>1, <3>5, <3>6
  <2>2. CASE j # k
    <3>1. x2[j] = x[j]
      BY <1>13, <2>2
    <3>2. /\ x[j] <= Len(q[j]) /\ Stores(hist, seq)[n][j] = w[j][x[j]]
          /\ \A p \in Ops(j) : (\E i \in 1..n : seq[i] = p) <=> (\E i \in 1..x[j] : q[j][i] = p)
      BY DEF Merged, n
    <3>3. Stores(hist, s2)[n + 1][j] = Stores(hist, s2)[n][j]
      <4>1. \A m \in 0..(Len(s2) - 1) : hist[s2[m + 1]].key # j =>
               Stores(hist, s2)[m + 1][j] = Stores(hist, s2)[m][j]
        BY <1>11, <2>0, StoresElsewhere
      <4> QED
        BY <2>0, <2>2, <4>1
    <3>4. Stores(hist, s2)[n][j] = Stores(hist, seq)[n][j]
      BY <1>12, <2>0
    <3>5. ASSUME NEW p \in Ops(j)
          PROVE  (\E i \in 1..(n + 1) : s2[i] = p) <=> (\E i \in 1..n : seq[i] = p)
      <4>1. p # o
        BY <1>9, <2>2 DEF Ops
      <4> QED
        BY <1>11, <1>14, <4>1
    <3> QED
      BY <3>1, <3>2, <3>3, <3>4, <3>5
  <2> QED
    BY <2>1, <2>2
<1>19. Merged(q, w, s2, x2)
  <2>1. Len(s2) = n + 1 /\ s2 \in Seq(DOMAIN hist) /\ x2 \in [Partition -> Nat]
    BY <1>11, <1>13
  <2>2. \A i, j \in 1..Len(s2) : s2[i] = s2[j] => i = j
    BY <1>15, <2>1
  <2>3. ASSUME NEW j \in Partition
        PROVE  /\ x2[j] <= Len(q[j])
               /\ Stores(hist, s2)[Len(s2)][j] = w[j][x2[j]]
               /\ \A p \in Ops(j) : (\E i \in 1..Len(s2) : s2[i] = p) <=>
                                    (\E i \in 1..x2[j] : q[j][i] = p)
    BY <1>18, <2>1
  <2> HIDE DEF s2, x2
  <2> QED
    BY ONLY <1>16, <1>17, <2>1, <2>2, <2>3 DEF Merged
<1> QED
  BY <1>11, <1>19 DEF n

LEMMA MergeAll ==
    ASSUME hist \in Histories, NEW q, NEW w, \A k \in Partition : Solution(k, q[k], w[k])
    PROVE  Linearizable(hist)
<1> DEFINE N == Cardinality(DOMAIN hist)
           G == {n \in 0..N : \E seq, x : Merged(q, w, seq, x) /\ Len(seq) = n}
<1>1. N \in Nat
  BY PartitionFacts, FS_CardinalityType
<1> HIDE DEF N
<1>2. 0 \in G
  <2> DEFINE x == [k \in Partition |-> 0]
  <2>1. <<>> \in Seq(DOMAIN hist) /\ Len(<<>>) = 0 /\ DOMAIN <<>> = {}
    BY EmptySeq
  <2>2. RealTime(hist, <<>>, DOMAIN hist) /\ Legal(hist, <<>>)
    BY <2>1 DEF RealTime, Legal
  <2>3. ASSUME NEW k \in Partition
        PROVE  /\ x[k] <= Len(q[k]) /\ Stores(hist, <<>>)[0][k] = w[k][x[k]]
               /\ \A o \in Ops(k) : (\E i \in 1..0 : <<>>[i] = o) <=>
                                    (\E i \in 1..x[k] : q[k][i] = o)
    <3>1. k \in Key /\ Len(q[k]) \in Nat /\ w[k][0] = <<>>
      BY PartitionFacts, LenProperties DEF Solution
    <3>2. Stores(hist, <<>>)[0][k] = <<>>
      BY <2>1, <3>1, StoresStart
    <3> QED
      BY <3>1, <3>2
  <2>4. Merged(q, w, <<>>, x)
    <3>1. x \in [Partition -> Nat]
      OBVIOUS
    <3> HIDE DEF x
    <3> QED
      BY <2>1, <2>2, <2>3, <3>1 DEF Merged
  <2> QED
    BY <1>1, <2>1, <2>4
<1>3. ASSUME NEW n \in 0..(N - 1), n \in G PROVE n + 1 \in G
  <2>1. PICK seq, x : Merged(q, w, seq, x) /\ Len(seq) = n
    BY <1>3
  <2>2. n < N
    BY <1>1
  <2>3. \E s2, x2 : Merged(q, w, s2, x2) /\ Len(s2) = n + 1
    BY <2>1, <2>2, MergeNext DEF N
  <2> QED
    BY <1>1, <2>3
<1>4. \A n \in 0..N : n \in G
  <2> HIDE DEF G
  <2> QED
    BY <1>1, <1>2, <1>3, UpTo
<1>5. PICK seq, x : Merged(q, w, seq, x) /\ Len(seq) = N
  BY <1>1, <1>4
<1>6. seq \in [1..N -> DOMAIN hist] /\ DOMAIN seq = 1..N
  BY <1>5, LenProperties DEF Merged
<1>7. Linearization(hist, seq)
  BY <1>5, <1>6 DEF Merged, Linearization
<1> QED
  BY <1>6, <1>7 DEF Linearizable, N

LEMMA FoundLinearizable ==
    ASSUME Given, Searches, \A k \in Partition : Found(k)
    PROVE  Linearizable(hist)
<1> DEFINE q == [k \in Partition |-> Ids(k)]
           w == [k \in Partition |-> [n \in 0..Len(calls[k]) |-> Val(calls[k], state[k], n)]]
<1>1. ASSUME NEW k \in Partition PROVE Solution(k, q[k], w[k])
  <2> DEFINE s == Linked(k)
             c == calls[k]
             v == state[k]
             z == Ids(k)
             u == [n \in 0..Len(c) |-> Val(c, v, n)]
  <2>1. /\ hist \in Histories /\ Sorted(k, s) /\ Len(c) \in Nat
        /\ Search(k, s, c, entry[k], v, next, prev, cache[k])
        /\ z = [i \in 1..Len(c) |-> c[i].id]
        /\ Linearized(k) = Taken(c, Len(c))
        /\ next[Front(k)] = Nil
    BY SearchingFacts
  <2>2. Ops(k) \subseteq Taken(c, Len(c))
    BY <2>1, AllTaken
  <2> HIDE DEF s, z
  <2>3. Stack(k, c, v) /\ Chain(c, v) /\ Explored(k, s, c, entry[k], v)
    BY <2>1 DEF Search
  <2>4. /\ z \in Seq(Ops(k)) /\ Len(z) = Len(c)
        /\ \A i, j \in 1..Len(z) : z[i] = z[j] => i = j
        /\ RealTime(hist, z, Ops(k))
    BY <2>1, <2>3, PathOrder
  <2>5. \A o \in Ops(k) : \E i \in 1..Len(z) : z[i] = o
    BY <2>1, <2>2, <2>4 DEF Taken
  <2>6. u[0] = <<>>
    BY <2>1, <2>3 DEF Chain
  <2>7. ASSUME NEW n \in 1..Len(z)
        PROVE  StepOk(u[n - 1], z[n]) /\ u[n] = StepState(u[n - 1], z[n])
    <3>1. n \in 1..Len(c) /\ n \in 0..Len(c) /\ n - 1 \in 0..Len(c)
      BY <2>1, <2>4
    <3>2. u[n] = Val(c, v, n) /\ u[n - 1] = Val(c, v, n - 1) /\ z[n] = c[n].id
      BY <2>1, <3>1
    <3>3. /\ StepOk(Val(c, v, n - 1), c[n].id)
          /\ Val(c, v, n) = StepState(Val(c, v, n - 1), c[n].id)
      BY <2>3, <3>1 DEF Chain
    <3> QED
      BY <3>2, <3>3
  <2> HIDE DEF u
  <2>8. Solution(k, z, u)
    BY <2>4, <2>5, <2>6, <2>7 DEF Solution
  <2> QED
    BY <2>8 DEF z, u
<1> HIDE DEF q, w
<1> QED
  BY <1>1, MergeAll DEF Given

\* The verdict is right whatever the history, the order of the goroutines' steps,
\* the moment of the timeout and what was killed: Ok only for a history that is
\* linearizable over all its keys, Illegal only for one that is not.
THEOREM PorcupineVerdictCorrect ==
    Spec => []VerdictCorrect
<1>1. Init => Answers /\ Concluded
  BY InitAnswers
<1>2. Given /\ Searches /\ Answers /\ Concluded /\ [Next]_vars => Answers' /\ Concluded'
  BY AnswersKept
<1>3. Given /\ Searches /\ Answers /\ Concluded => VerdictCorrect
  <2> SUFFICES ASSUME Given, Searches, Answers, Concluded PROVE VerdictCorrect
    OBVIOUS
  <2>1. ASSUME verdict = "Ok" PROVE Linearizable(hist)
    <3>1. \A k \in Partition : Found(k)
      BY <2>1 DEF Concluded, Answers
    <3> QED
      BY <3>1, FoundLinearizable
  <2>2. ASSUME verdict = "Illegal" PROVE ~Linearizable(hist)
    <3>1. PICK k \in Partition : Failed(k)
      BY <2>2 DEF Concluded, Answers
    <3> QED
      BY <3>1, FailedIllegal
  <2> QED
    BY <2>1, <2>2 DEF VerdictCorrect
<1> QED
  BY <1>1, <1>2, <1>3, PorcupineSearches, PTL DEF Spec
=============================================================================
