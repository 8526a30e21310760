------------------------------- MODULE ProofBasics -------------------------------
(***************************************************************************)
(* What the proofs share: induction and recursion over the numbers, over    *)
(* sets and functions instead of operators, and the last element of a kind  *)
(* in a queue.                                                              *)
(***************************************************************************)
EXTENDS Integers, Sequences, NaturalsInduction, WellFoundedInduction, SequenceTheorems, TLAPS

\* The order of the numbers as a relation.
Less == {p \in Nat \X Nat : p[1] < p[2]}

\* A set of numbers that is not empty has a least one.
LEMMA LeastElement ==
  ASSUME NEW S \in SUBSET Nat, S # {}
  PROVE  \E n \in S : \A m \in S : n <= m
<1>1. IsWellFoundedOn(Less, Nat)
  BY NatLessThanWellFounded DEF OpToRel, Less
<1>2. PICK n \in S : \A m \in S : ~(<<m, n>> \in Less)
  BY <1>1, WFMin
<1>3. ASSUME NEW m \in S PROVE n <= m
  <2>1. m \in Nat /\ n \in Nat /\ ~(<<m, n>> \in Less)
    BY <1>2
  <2>2. ~(m < n)
    BY <2>1 DEF Less
  <2> QED
    BY <2>1, <2>2
<1> QED
  BY <1>3

\* A set that has 0, and with each number the next one, has them all.
LEMMA NumberInduction ==
  ASSUME NEW T, 0 \in T, \A n \in Nat : n \in T => n + 1 \in T
  PROVE  \A n \in Nat : n \in T
<1> DEFINE Bad == Nat \ T
<1> SUFFICES ASSUME Bad # {} PROVE FALSE
  OBVIOUS
<1>1. PICK n \in Bad : \A m \in Bad : n <= m
  BY LeastElement
<1>2. n # 0 /\ n - 1 \in Nat /\ (n - 1) + 1 = n /\ ~(n <= n - 1)
  OBVIOUS
<1> QED
  BY <1>1, <1>2

\* A function that is computed from 0 up to N, each value from the one before it,
\* exists, and what every step keeps holds of all its values.
Recurs(f, N, base, step) ==
  f = [n \in 0 .. N |-> IF n = 0 THEN base ELSE step[<<f[n - 1], n>>]]

LEMMA RecursionExists ==
  ASSUME NEW A, NEW N \in Nat, NEW base \in A, NEW step \in [A \X (1 .. N) -> A]
  PROVE  \E f \in [0 .. N -> A] : Recurs(f, N, base, step)
<1> DEFINE T == {m \in Nat : m <= N => \E f \in [0 .. m -> A] : Recurs(f, m, base, step)}
<1>1. 0 \in T
  <2> DEFINE f == [n \in 0 .. 0 |-> base]
  <2>1. f \in [0 .. 0 -> A] /\ Recurs(f, 0, base, step)
    BY DEF Recurs
  <2> QED
    BY <2>1
<1>2. ASSUME NEW m \in Nat, m \in T PROVE m + 1 \in T
  <2> SUFFICES ASSUME m + 1 <= N
               PROVE  \E f \in [0 .. m + 1 -> A] : Recurs(f, m + 1, base, step)
    OBVIOUS
  <2>1. PICK f \in [0 .. m -> A] : Recurs(f, m, base, step)
    BY <1>2
  <2> DEFINE g == [n \in 0 .. m + 1 |-> IF n = m + 1 THEN step[<<f[m], m + 1>>] ELSE f[n]]
  <2>2. f[m] \in A /\ m + 1 \in 1 .. N /\ step[<<f[m], m + 1>>] \in A
    OBVIOUS
  <2>3. g \in [0 .. m + 1 -> A]
    BY <2>2
  <2>4. ASSUME NEW n \in 0 .. m + 1
        PROVE  g[n] = IF n = 0 THEN base ELSE step[<<g[n - 1], n>>]
    <3>1. CASE n = m + 1
      BY <3>1
    <3>2. CASE n \in 0 .. m
      BY <2>1, <3>2, SMTT(30) DEF Recurs
    <3> QED
      BY <3>1, <3>2
  <2>5. Recurs(g, m + 1, base, step)
    BY <2>4 DEF Recurs
  <2> QED
    BY <2>3, <2>5
<1>3. N \in T
  <2> HIDE DEF T
  <2> QED
    BY <1>1, <1>2, NumberInduction
<1> QED
  BY <1>3

(* ------------------------ The last of its kind in a queue ------------------------ *)

\* No element of m is of kind K; there are such, and the last of them is one of G.
NoneIn(m, K) == \A i \in 1..Len(m) : m[i] \notin K
EndsIn(m, K, G) == \E i \in 1..Len(m) : m[i] \in K /\ m[i] \in G /\ \A j \in i+1..Len(m) : m[j] \notin K

LEMMA NoneAfter ==
  ASSUME NEW S, NEW m \in Seq(S), NEW s \in Seq(S), NEW K, NoneIn(m, K), NoneIn(s, K)
  PROVE  NoneIn(m \o s, K)
<1>1. /\ Len(m \o s) = Len(m) + Len(s) /\ Len(m) \in Nat /\ Len(s) \in Nat
      /\ \A i \in 1..Len(m) + Len(s) : (m \o s)[i] = IF i <= Len(m) THEN m[i] ELSE s[i - Len(m)]
  BY ConcatProperties
<1> QED
  BY <1>1 DEF NoneIn

\* What is of another kind changes nothing.
LEMMA EndsBefore ==
  ASSUME NEW S, NEW m \in Seq(S), NEW s \in Seq(S), NEW K, NEW G, EndsIn(m, K, G), NoneIn(s, K)
  PROVE  EndsIn(m \o s, K, G)
<1>1. /\ Len(m \o s) = Len(m) + Len(s) /\ Len(m) \in Nat /\ Len(s) \in Nat
      /\ \A i \in 1..Len(m) + Len(s) : (m \o s)[i] = IF i <= Len(m) THEN m[i] ELSE s[i - Len(m)]
  BY ConcatProperties
<1>2. PICK i \in 1..Len(m) : m[i] \in K /\ m[i] \in G /\ \A j \in i+1..Len(m) : m[j] \notin K
  BY DEF EndsIn
<1>3. i \in 1..Len(m \o s) /\ (m \o s)[i] \in K /\ (m \o s)[i] \in G
  BY <1>1, <1>2
<1>4. ASSUME NEW j \in i+1..Len(m \o s) PROVE (m \o s)[j] \notin K
  BY <1>1, <1>2 DEF NoneIn
<1> QED
  BY <1>3, <1>4 DEF EndsIn

LEMMA EndsAfter ==
  ASSUME NEW S, NEW m \in Seq(S), NEW s \in Seq(S), NEW K, NEW G, EndsIn(s, K, G)
  PROVE  EndsIn(m \o s, K, G)
<1>1. /\ Len(m \o s) = Len(m) + Len(s) /\ Len(m) \in Nat /\ Len(s) \in Nat
      /\ \A i \in 1..Len(m) + Len(s) : (m \o s)[i] = IF i <= Len(m) THEN m[i] ELSE s[i - Len(m)]
  BY ConcatProperties
<1>2. PICK i \in 1..Len(s) : s[i] \in K /\ s[i] \in G /\ \A j \in i+1..Len(s) : s[j] \notin K
  BY DEF EndsIn
<1>3. /\ Len(m) + i \in 1..Len(m \o s) /\ (m \o s)[Len(m) + i] = s[i]
  BY <1>1, <1>2
<1>4. ASSUME NEW j \in (Len(m) + i)+1..Len(m \o s) PROVE (m \o s)[j] \notin K
  <2>1. j - Len(m) \in i+1..Len(s) /\ (m \o s)[j] = s[j - Len(m)]
    BY <1>1, <1>2
  <2> QED
    BY <2>1, <1>2
<1> QED
  BY <1>2, <1>3, <1>4 DEF EndsIn

LEMMA NoneNext ==
  ASSUME NEW S, NEW m \in Seq(S), m # <<>>, NEW K, NoneIn(m, K)
  PROVE  Head(m) \notin K /\ NoneIn(Tail(m), K)
BY HeadTailProperties DEF NoneIn

\* When the first element is taken, the last of its kind is still to come, or was this one.
LEMMA EndsNext ==
  ASSUME NEW S, NEW m \in Seq(S), m # <<>>, NEW K, NEW G, EndsIn(m, K, G)
  PROVE  \/ EndsIn(Tail(m), K, G)
         \/ Head(m) \in K /\ Head(m) \in G /\ NoneIn(Tail(m), K)
<1>1. /\ Len(m) \in Nat \ {0} /\ Len(Tail(m)) = Len(m) - 1 /\ Head(m) = m[1]
      /\ \A i \in 1..Len(Tail(m)) : Tail(m)[i] = m[i + 1]
  BY HeadTailProperties
<1>2. PICK i \in 1..Len(m) : m[i] \in K /\ m[i] \in G /\ \A j \in i+1..Len(m) : m[j] \notin K
  BY DEF EndsIn
<1>3. CASE i = 1
  BY <1>1, <1>2, <1>3 DEF NoneIn
<1>4. CASE i # 1
  <2>1. i - 1 \in 1..Len(Tail(m)) /\ Tail(m)[i - 1] = m[i]
    BY <1>1, <1>4
  <2>2. ASSUME NEW j \in (i - 1)+1..Len(Tail(m)) PROVE Tail(m)[j] \notin K
    <3>1. j + 1 \in i+1..Len(m) /\ Tail(m)[j] = m[j + 1]
      BY <1>1, <1>4
    <3> QED
      BY <1>2, <3>1
  <2> QED
    BY <1>2, <2>1, <2>2 DEF EndsIn
<1> QED
  BY <1>3, <1>4

LEMMA OneElement ==
  ASSUME NEW x, NEW K, NEW G
  PROVE  /\ NoneIn(<<>>, K)
         /\ x \notin K => NoneIn(<<x>>, K)
         /\ x \in K /\ x \in G => EndsIn(<<x>>, K, G)
<1>1. Len(<<x>>) = 1 /\ <<x>>[1] = x /\ Len(<<>>) = 0
  OBVIOUS
<1> QED
  BY <1>1 DEF NoneIn, EndsIn
=============================================================================
