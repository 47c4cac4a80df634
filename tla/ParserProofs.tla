---------------------------- MODULE ParserProofs ----------------------------
(***************************************************************************)
(* Proofs about DiscoveryParsers: for anything there may be to be found,   *)
(* the list each source publishes is the one its reference definition      *)
(* describes.                                                              *)
(*                                                                         *)
(* What the parsers do in loops and by recursion is written as functions   *)
(* defined by recursion on a number.  That such a function exists and is   *)
(* the only one of its kind is proved for each of them, and what it comes  *)
(* to by induction on the number: both from the least element of a set of  *)
(* numbers, as the induction theorems of the library take a predicate.     *)
(***************************************************************************)
EXTENDS DiscoveryParsers, FiniteSetTheorems, SequenceTheorems, WellFoundedInduction, TLAPS

-----------------------------------------------------------------------------
(* Induction.  It is had from the least element of a set of numbers: a set  *)
(* takes the place of the predicate.                                        *)

\* A set of numbers has a least one.
LEMMA LeastNat ==
    ASSUME NEW S, S \subseteq Nat, S # {}
    PROVE  \E x \in S : \A y \in S : x <= y
<1> DEFINE R == OpToRel(<, Nat)
<1>1. IsWellFoundedOn(R, Nat)
  BY NatLessThanWellFounded
<1>2. \A x, y \in Nat : x < y => <<x, y>> \in R
  BY DEF OpToRel
<1> HIDE DEF R
<1>3. PICK x \in S : \A y \in S : ~(<<y, x>> \in R)
  BY <1>1, WFMin
<1>4. ASSUME NEW y \in S PROVE x <= y
  <2>1. x \in Nat /\ y \in Nat
    OBVIOUS
  <2>2. ~(y < x)
    BY <1>2, <1>3, <2>1
  <2>. QED
    BY <2>1, <2>2
<1>. QED
  BY <1>3, <1>4

\* Min is the least.
LEMMA MinIs ==
    ASSUME NEW S, S \subseteq Nat, S # {}
    PROVE  Min(S) \in S /\ \A j \in S : Min(S) <= j
<1>1. PICK x \in S : \A y \in S : x <= y
  BY LeastNat
<1>. QED
  BY <1>1 DEF Min

\* What is so of 0, and of a number up to n when it is of the one before.
LEMMA UpTo ==
    ASSUME NEW n \in Nat, NEW S, 0 \in S, \A i \in 0..n - 1 : i \in S => i + 1 \in S
    PROVE  \A i \in 0..n : i \in S
<1> DEFINE T == (0..n) \ S
<1> SUFFICES ASSUME T # {} PROVE FALSE
  OBVIOUS
<1>1. PICK x \in T : \A y \in T : x <= y
  <2>1. T \subseteq Nat
    OBVIOUS
  <2> HIDE DEF T
  <2>. QED
    BY <2>1, LeastNat
<1>2. x \in 1..n /\ x - 1 \in 0..n - 1
  BY <1>1
<1>3. x - 1 \notin T
  BY <1>1, <1>2
<1>4. (x - 1) + 1 \in S
  BY <1>2, <1>3
<1>. QED
  BY <1>1, <1>2, <1>4

\* Two functions that start and go on alike end alike.
GoAlike(f, g, n) == f[0] = g[0] /\ \A i \in 1..n : f[i - 1] = g[i - 1] => f[i] = g[i]

LEMMA EndAlike ==
    ASSUME NEW n \in Nat, NEW f, NEW g, GoAlike(f, g, n)
    PROVE  f[n] = g[n]
<1> DEFINE S == {i \in 0..n : f[i] = g[i]}
<1>1. 0 \in S
  BY DEF GoAlike
<1>2. ASSUME NEW i \in 0..n - 1, i \in S PROVE i + 1 \in S
  <2>1. i + 1 \in 1..n /\ (i + 1) - 1 = i
    OBVIOUS
  <2>. QED
    BY <1>2, <2>1 DEF GoAlike
<1>3. \A i \in 0..n : i \in S
  <2> HIDE DEF S
  <2>. QED
    BY <1>1, <1>2, UpTo
<1>. QED
  BY <1>3

\* The runs of a loop of n turns from a base: what a recursive function of the turns
\* stands for.
Loops(A, n, base, step) ==
    {f \in [0..n -> A] : f[0] = base /\ \A i \in 1..n : f[i] = step[i][f[i - 1]]}

\* There is a run of every loop.
LEMMA LoopExists ==
    ASSUME NEW A, NEW n \in Nat, NEW base \in A, NEW step \in [1..n -> [A -> A]]
    PROVE  Loops(A, n, base, step) # {}
<1> DEFINE Goes(f, m) == f[0] = base /\ \A i \in 1..m : f[i] = step[i][f[i - 1]]
           S == {m \in 0..n : \E f \in [0..m -> A] : Goes(f, m)}
<1>1. 0 \in S
  <2> DEFINE f == [i \in 0..0 |-> base]
  <2>1. f \in [0..0 -> A] /\ Goes(f, 0) /\ 0 \in 0..n
    OBVIOUS
  <2> HIDE DEF f
  <2>. QED
    BY <2>1
<1>2. ASSUME NEW m \in 0..n - 1, m \in S PROVE m + 1 \in S
  <2>1. PICK f \in [0..m -> A] : Goes(f, m)
    BY <1>2
  <2> DEFINE g == [i \in 0..m + 1 |-> IF i = m + 1 THEN step[m + 1][f[m]] ELSE f[i]]
  <2>2. m \in 0..m /\ m + 1 \in 1..n /\ m + 1 \in 0..n
    OBVIOUS
  <2>3. step[m + 1] \in [A -> A] /\ f[m] \in A
    BY <2>1, <2>2
  <2>4. step[m + 1][f[m]] \in A
    BY <2>3
  <2>5. g \in [0..m + 1 -> A]
    BY <2>1, <2>4
  <2>6. g[0] = base /\ g[m + 1] = step[m + 1][f[m]] /\ \A i \in 0..m : g[i] = f[i]
    BY <2>1
  <2>7. ASSUME NEW i \in 1..m + 1 PROVE g[i] = step[i][g[i - 1]]
    <3>1. i - 1 \in 0..m
      OBVIOUS
    <3>2. g[i - 1] = f[i - 1]
      BY <2>6, <3>1
    <3>3. CASE i = m + 1
      <4>1. i - 1 = m
        BY <3>3
      <4>. QED
        BY <2>6, <3>2, <3>3, <4>1
    <3>4. CASE i # m + 1
      <4>1. i \in 1..m /\ i \in 0..m
        BY <3>4
      <4>2. f[i] = step[i][f[i - 1]]
        BY <2>1, <4>1
      <4>. QED
        BY <2>6, <3>2, <4>1, <4>2
    <3>. QED
      BY <3>3, <3>4
  <2> HIDE DEF g
  <2>8. Goes(g, m + 1)
    BY <2>6, <2>7
  <2>. QED
    BY <2>2, <2>5, <2>8
<1>3. \A i \in 0..n : i \in S
  <2> HIDE DEF S
  <2>. QED
    BY <1>1, <1>2, UpTo
<1>4. n \in 0..n
  OBVIOUS
<1>5. n \in S
  BY <1>3, <1>4
<1>6. PICK f \in [0..n -> A] : Goes(f, n)
  BY <1>5
<1>7. f \in Loops(A, n, base, step)
  BY <1>6 DEF Loops
<1>. QED
  BY <1>7

-----------------------------------------------------------------------------
(* What the helpers give.                                                   *)

\* Kept is the loop it is written as.
LEMMA KeptLoop ==
    ASSUME NEW T, NEW s \in Seq(T), NEW keep
    PROVE  \E f \in [0..Len(s) -> Seq(T)] :
              /\ f[0] = <<>> /\ Kept(s, keep) = f[Len(s)]
              /\ \A i \in 1..Len(s) : f[i] = IF i \in keep THEN Append(f[i - 1], s[i]) ELSE f[i - 1]
<1> DEFINE N == Len(s)
           A == Seq(T)
           base == <<>>
           step == [i \in 1..N |-> [x \in A |-> IF i \in keep THEN Append(x, s[i]) ELSE x]]
           IsLoop(f) == f = [n \in 0..N |->
                                IF n = 0 THEN <<>>
                                ELSE IF n \in keep THEN Append(f[n - 1], s[n]) ELSE f[n - 1]]
<1>1. N \in Nat /\ base \in A
  BY LenProperties
<1>2. step \in [1..N -> [A -> A]]
  <2>1. ASSUME NEW i \in 1..N, NEW x \in A PROVE (IF i \in keep THEN Append(x, s[i]) ELSE x) \in A
    BY ElementOfSeq, AppendProperties
  <2>. QED
    BY <2>1
<1>3. PICK f \in Loops(A, N, base, step) : TRUE
  <2> HIDE DEF step, A, N, base
  <2>. QED
    BY <1>1, <1>2, LoopExists
<1>4. ASSUME NEW i \in 1..N
      PROVE  f[i] = IF i \in keep THEN Append(f[i - 1], s[i]) ELSE f[i - 1]
  <2>1. f \in [0..N -> A] /\ f[i] = step[i][f[i - 1]] /\ i - 1 \in 0..N
    BY <1>1, <1>3 DEF Loops
  <2>. QED
    BY <2>1
<1>5. IsLoop(f)
  <2>1. \A n \in 0..N : f[n] = IF n = 0 THEN <<>>
                               ELSE IF n \in keep THEN Append(f[n - 1], s[n]) ELSE f[n - 1]
    <3>1. \A n \in 0..N : n = 0 \/ n \in 1..N
      BY <1>1
    <3>. QED
      BY <1>3, <1>4, <3>1 DEF Loops
  <2>. QED
    BY <1>3, <2>1 DEF Loops
<1>6. ASSUME NEW g, IsLoop(g) PROVE g[N] = f[N]
  <2>0. \A n \in 0..N : g[n] = IF n = 0 THEN <<>>
                               ELSE IF n \in keep THEN Append(g[n - 1], s[n]) ELSE g[n - 1]
    BY <1>6
  <2>1. /\ g[0] = <<>>
        /\ \A i \in 1..N : g[i] = IF i \in keep THEN Append(g[i - 1], s[i]) ELSE g[i - 1]
    <3>1. 0 \in 0..N /\ \A n \in 1..N : n \in 0..N /\ n # 0
      BY <1>1
    <3> HIDE DEF N
    <3>. QED
      BY <2>0, <3>1
  <2>2. GoAlike(g, f, N)
    BY <1>3, <1>4, <2>1 DEF GoAlike, Loops
  <2>. QED
    BY <1>1, <2>2, EndAlike
<1>7. Kept(s, keep) = f[N]
  <2>1. Kept(s, keep) = (CHOOSE g : IsLoop(g))[N]
    BY DEF Kept
  <2> HIDE DEF IsLoop, N
  <2>. QED
    BY <1>5, <1>6, <2>1
<1>. QED
  <2>1. f \in [0..N -> A] /\ f[0] = <<>>
    BY <1>3 DEF Loops
  <2>. QED
    BY <1>4, <1>7, <2>1

\* The list has the items of s at the indexes in keep, in their order.
Enumerates(list, s, keep) ==
    \E at \in [1..Len(list) -> keep] :
        /\ \A k \in keep : \E i \in 1..Len(list) : at[i] = k
        /\ \A i, j \in 1..Len(list) : i < j => at[i] < at[j]
        /\ \A i \in 1..Len(list) : list[i] = s[at[i]]

LEMMA KeptEnumerates ==
    ASSUME NEW T, NEW s \in Seq(T), NEW keep \in SUBSET (1..Len(s))
    PROVE  Kept(s, keep) \in Seq(T) /\ Enumerates(Kept(s, keep), s, keep)
<1> DEFINE N == Len(s)
           Upto(n) == keep \cap 1..n
<1>1. N \in Nat
  BY LenProperties
<1>2. PICK f \in [0..N -> Seq(T)] :
         /\ f[0] = <<>> /\ Kept(s, keep) = f[N]
         /\ \A i \in 1..N : f[i] = IF i \in keep THEN Append(f[i - 1], s[i]) ELSE f[i - 1]
  BY KeptLoop
<1> DEFINE S == {n \in 0..N : Enumerates(f[n], s, Upto(n))}
<1>3. 0 \in S
  <2> DEFINE at == [i \in 1..Len(f[0]) |-> 0]
  <2>1. Len(f[0]) = 0 /\ Upto(0) = {} /\ 1..0 = {} /\ 0 \in 0..N
    BY <1>1, <1>2, EmptySeq
  <2>2. at \in [1..Len(f[0]) -> Upto(0)]
    BY <2>1
  <2>. QED
    BY <2>1, <2>2 DEF Enumerates
<1>4. ASSUME NEW m \in 0..N - 1, m \in S PROVE m + 1 \in S
  <2> DEFINE n == m + 1
             l == f[m]
  <2>1. /\ n \in 1..N /\ n \in 0..N /\ n - 1 = m /\ m \in 0..N
        /\ f[n] = IF n \in keep THEN Append(l, s[n]) ELSE l
        /\ s[n] \in T /\ l \in Seq(T) /\ Len(l) \in Nat
    BY <1>1, <1>2, ElementOfSeq, LenProperties
  <2>2. PICK at \in [1..Len(l) -> Upto(m)] :
           /\ \A k \in Upto(m) : \E i \in 1..Len(l) : at[i] = k
           /\ \A i, j \in 1..Len(l) : i < j => at[i] < at[j]
           /\ \A i \in 1..Len(l) : l[i] = s[at[i]]
    BY <1>4 DEF Enumerates
  <2>3. CASE n \notin keep
    <3>1. Upto(n) = Upto(m) /\ f[n] = l
      BY <2>1, <2>3
    <3>. QED
      BY <1>4, <2>1, <3>1
  <2>4. CASE n \in keep
    <3> DEFINE L == Len(l)
               next == [i \in 1..L + 1 |-> IF i = L + 1 THEN n ELSE at[i]]
    <3>1. Upto(n) = Upto(m) \cup {n} /\ n \in Upto(n) /\ \A k \in Upto(m) : k < n
      BY <2>1, <2>4
    <3>2. /\ f[n] = Append(l, s[n]) /\ Len(f[n]) = L + 1
          /\ f[n][L + 1] = s[n] /\ \A i \in 1..L : f[n][i] = l[i]
      BY <2>1, <2>4, AppendProperties
    <3>3. \A i \in 1..L + 1 : i = L + 1 \/ i \in 1..L
      BY <2>1
    <3>4. next \in [1..L + 1 -> Upto(n)] /\ next[L + 1] = n /\ \A i \in 1..L : next[i] = at[i]
      BY <2>1, <2>2, <3>1
    <3> HIDE DEF next, L, n, Upto
    <3>5. \A k \in Upto(n) : \E i \in 1..L + 1 : next[i] = k
      <4>1. L + 1 \in 1..L + 1 /\ \A i \in 1..L : i \in 1..L + 1
        BY <2>1 DEF L
      <4>. QED
        BY <2>2, <3>1, <3>4, <4>1 DEF L
    <3>6. \A i, j \in 1..L + 1 : i < j => next[i] < next[j]
      <4> SUFFICES ASSUME NEW i \in 1..L + 1, NEW j \in 1..L + 1, i < j
                   PROVE  next[i] < next[j]
        OBVIOUS
      <4>1. i \in 1..L /\ at[i] \in Upto(m)
        BY <2>1, <2>2 DEF L
      <4>2. CASE j = L + 1
        BY <3>1, <3>4, <4>1, <4>2
      <4>3. CASE j \in 1..L
        BY <2>2, <3>4, <4>1, <4>3 DEF L
      <4>. QED
        BY <3>3, <4>2, <4>3
    <3>7. \A i \in 1..L + 1 : f[n][i] = s[next[i]]
      BY <2>2, <3>2, <3>3, <3>4 DEF L
    <3>8. /\ next \in [1..Len(f[n]) -> Upto(n)]
          /\ \A k \in Upto(n) : \E i \in 1..Len(f[n]) : next[i] = k
          /\ \A i, j \in 1..Len(f[n]) : i < j => next[i] < next[j]
          /\ \A i \in 1..Len(f[n]) : f[n][i] = s[next[i]]
      BY <3>2, <3>4, <3>5, <3>6, <3>7
    <3>9. Enumerates(f[n], s, Upto(n))
      BY <3>8 DEF Enumerates
    <3>. QED
      BY <2>1, <3>9 DEF n
  <2>. QED
    BY <2>3, <2>4
<1>5. \A n \in 0..N : n \in S
  <2> HIDE DEF S, N
  <2>. QED
    BY <1>1, <1>3, <1>4, UpTo
<1>6. Upto(N) = keep
  OBVIOUS
<1>7. N \in 0..N
  BY <1>1
<1>8. Enumerates(f[N], s, keep) /\ f[N] \in Seq(T)
  BY <1>5, <1>6, <1>7
<1>. QED
  BY <1>2, <1>8

LEMMA EnumeratedItems ==
    ASSUME NEW T, NEW list \in Seq(T), NEW s, NEW keep, Enumerates(list, s, keep),
           keep \subseteq Nat
    PROVE  /\ Elements(list) = {s[i] : i \in keep}
           /\ Len(list) = Cardinality(keep)
<1>1. PICK at \in [1..Len(list) -> keep] :
         /\ \A k \in keep : \E i \in 1..Len(list) : at[i] = k
         /\ \A i, j \in 1..Len(list) : i < j => at[i] < at[j]
         /\ \A i \in 1..Len(list) : list[i] = s[at[i]]
  BY DEF Enumerates
<1>2. Len(list) \in Nat /\ DOMAIN list = 1..Len(list)
  BY LenProperties
<1>3. at \in Bijection(1..Len(list), keep)
  <2>1. \A i, j \in 1..Len(list) : at[i] = at[j] => i = j
    <3> SUFFICES ASSUME NEW i \in 1..Len(list), NEW j \in 1..Len(list), at[i] = at[j], i # j
                 PROVE  FALSE
      OBVIOUS
    <3>1. at[i] \in Nat /\ at[j] \in Nat
      BY <1>1
    <3>3. i < j \/ j < i
      BY <1>2
    <3>2. at[i] < at[j] \/ at[j] < at[i]
      BY <1>1, <3>3
    <3>. QED
      BY <3>1, <3>2
  <2>. QED
    BY <1>1, <2>1 DEF Bijection, Injection, Surjection, IsInjective
<1>4. Len(list) = Cardinality(keep)
  BY <1>2, <1>3, FS_CountingElements DEF ExistsBijection
<1>5. Elements(list) = {list[i] : i \in 1..Len(list)}
  BY <1>2 DEF Elements
<1>6. {list[i] : i \in 1..Len(list)} = {s[i] : i \in keep}
  <2>1. \A i \in 1..Len(list) : at[i] \in keep /\ list[i] = s[at[i]]
    BY <1>1
  <2>2. ASSUME NEW k \in keep PROVE \E i \in 1..Len(list) : list[i] = s[k]
    BY <1>1, <2>1
  <2>3. ASSUME NEW i \in 1..Len(list) PROVE list[i] \in {s[k] : k \in keep}
    <3>1. at[i] \in keep /\ list[i] = s[at[i]]
      BY <2>1
    <3>. QED
      BY <3>1
  <2>4. {s[i] : i \in keep} \subseteq {list[i] : i \in 1..Len(list)}
    BY <2>2
  <2>. QED
    BY <2>3, <2>4
<1>. QED
  BY <1>4, <1>5, <1>6

\* Kept keeps what it should.
LEMMA KeptIs ==
    ASSUME NEW T, NEW s \in Seq(T), NEW keep \in SUBSET (1..Len(s))
    PROVE  /\ Kept(s, keep) \in Seq(T) /\ DOMAIN Kept(s, keep) = 1..Len(Kept(s, keep))
           /\ Elements(Kept(s, keep)) = {s[i] : i \in keep}
           /\ Len(Kept(s, keep)) = Cardinality(keep)
<1>1. keep \subseteq Nat
  BY LenProperties
<1> DEFINE list == Kept(s, keep)
<1>2. list \in Seq(T) /\ Enumerates(list, s, keep)
  BY KeptEnumerates
<1> HIDE DEF list
<1>3. /\ Elements(list) = {s[i] : i \in keep}
      /\ Len(list) = Cardinality(keep)
  BY <1>1, <1>2, EnumeratedItems
<1>4. DOMAIN list = 1..Len(list)
  BY <1>2, LenProperties
<1>. QED
  BY <1>2, <1>3, <1>4 DEF list

LEMMA ListIsSeq ==
    ASSUME NEW s, IsList(s)
    PROVE  /\ s \in Seq(Elements(s)) /\ Len(s) \in Nat /\ DOMAIN s = 1..Len(s)
           /\ s \in [1..Len(s) -> Elements(s)] /\ Elements(s) = {s[i] : i \in 1..Len(s)}
<1>1. s \in Seq(Elements(s))
  BY DEF IsList
<1>2. Len(s) \in Nat /\ DOMAIN s = 1..Len(s)
  BY <1>1, LenProperties
<1>3. Elements(s) = {s[i] : i \in 1..Len(s)}
  BY <1>2 DEF Elements
<1>4. s \in [1..Len(s) -> Elements(s)]
  BY <1>1, LenProperties
<1>. QED
  BY <1>1, <1>2, <1>3, <1>4

\* What is made of the items kept is made of each of them, as often as they are kept.
LEMMA MadeOf ==
    ASSUME NEW s, IsList(s), NEW keep \in SUBSET DOMAIN s
    PROVE  LET fit == Kept(s, keep)
           IN  /\ DOMAIN fit = 1..Len(fit) /\ Len(fit) = Cardinality(keep) /\ Len(fit) \in Nat
               /\ \A n \in DOMAIN fit : \E i \in keep : fit[n] = s[i]
               /\ \A i \in keep : \E n \in DOMAIN fit : fit[n] = s[i]
<1> DEFINE fit == Kept(s, keep)
<1>1. s \in Seq(Elements(s)) /\ keep \in SUBSET (1..Len(s))
  BY ListIsSeq
<1>2. /\ fit \in Seq(Elements(s)) /\ DOMAIN fit = 1..Len(fit)
      /\ Elements(fit) = {s[i] : i \in keep} /\ Len(fit) = Cardinality(keep)
  BY <1>1, KeptIs
<1> HIDE DEF fit
<1>3. Len(fit) \in Nat
  BY <1>2, LenProperties
<1>4. ASSUME NEW n \in DOMAIN fit PROVE \E i \in keep : fit[n] = s[i]
  <2>1. fit[n] \in Elements(fit)
    BY DEF Elements
  <2>. QED
    BY <1>2, <2>1
<1>5. ASSUME NEW i \in keep PROVE \E n \in DOMAIN fit : fit[n] = s[i]
  <2>1. s[i] \in Elements(fit)
    BY <1>2
  <2>. QED
    BY <2>1 DEF Elements
<1>. QED
  BY <1>2, <1>3, <1>4, <1>5 DEF fit

LEMMA AppFields ==
    ASSUME NEW u, NEW st, NEW up
    PROVE  App(u, st, up).url = u /\ App(u, st, up).status = st /\ App(u, st, up).upstream = up
BY DEF App

LEMMA FunctionLen ==
    ASSUME NEW n \in Nat, NEW f, DOMAIN f = 1..n, f = [i \in DOMAIN f |-> f[i]]
    PROVE  Len(f) = n
OBVIOUS

\* The list of Docker has the addresses of the containers that fit.
LEMMA DockerRight ==
    ASSUME input.source = "docker", IsList(input.data), output = DockerApps(input.data)
    PROVE  ListIsRight
<1> DEFINE s == input.data
           keep == {i \in DOMAIN s : DockerFits(s[i])}
           fit == Kept(s, keep)
           right == {c.url : c \in {d \in Elements(s) :
                                       d.enable /\ d.url # None /\ (d.label \/ d.named)}}
<1>1. /\ \A n \in DOMAIN fit : \E i \in keep : fit[n] = s[i]
      /\ \A i \in keep : \E n \in DOMAIN fit : fit[n] = s[i]
  <2>1. keep \in SUBSET DOMAIN s
    OBVIOUS
  <2> HIDE DEF keep
  <2>. QED
    BY <2>1, MadeOf
<1>2. output = [i \in DOMAIN fit |-> App(fit[i].url, Online(fit[i].running), None)]
  BY DEF DockerApps
<1> HIDE DEF fit
<1>3. \A n \in DOMAIN fit : output[n].url = fit[n].url
  BY <1>2, AppFields
<1>4. Addresses = {fit[n].url : n \in DOMAIN fit}
  BY <1>2, <1>3 DEF Addresses, Elements
<1>5. ASSUME NEW n \in DOMAIN fit PROVE fit[n].url \in right
  BY <1>1 DEF DockerFits, Elements
<1>6. ASSUME NEW u \in right PROVE \E n \in DOMAIN fit : fit[n].url = u
  BY <1>1 DEF DockerFits, Elements
<1>7. Addresses = right
  BY <1>4, <1>5, <1>6
<1>. QED
  BY <1>7 DEF ListIsRight

\* The list of Nginx Proxy Manager is as long as the hosts that have a domain are many.
LEMMA NpmRight ==
    ASSUME input.source = "npm", IsList(input.data), output = NpmApps(input.data)
    PROVE  ListIsRight
<1> DEFINE s == input.data
           keep == {i \in DOMAIN s : s[i].domains # <<>>}
           fit == Kept(s, keep)
<1>1. DOMAIN fit = 1..Len(fit) /\ Len(fit) = Cardinality(keep) /\ Len(fit) \in Nat
  <2>1. keep \in SUBSET DOMAIN s
    OBVIOUS
  <2> HIDE DEF keep
  <2>. QED
    BY <2>1, MadeOf
<1>2. output = [i \in DOMAIN fit |-> App(<<Scheme(fit[i].ssl), fit[i].domains[1]>>,
                                         Online(fit[i].enabled /\ fit[i].online), fit[i].forward)]
  BY DEF NpmApps
<1> HIDE DEF fit
<1>3. Len(output) = Len(fit)
  <2>1. DOMAIN output = 1..Len(fit) /\ output = [i \in DOMAIN output |-> output[i]]
    BY <1>1, <1>2
  <2>. QED
    BY <1>1, <2>1, FunctionLen
<1>. QED
  BY <1>1, <1>3 DEF ListIsRight

LEMMA ExtractHostIs ==
    ASSUME NEW rule, IsList(rule)
    PROVE  LET Hosts == {m.host : m \in {n \in Elements(rule) : n.matcher = "Host" /\ n.ticks}}
           IN  /\ ExtractHost(rule) = None \/ ExtractHost(rule) \in Hosts
               /\ Hosts # {} => ExtractHost(rule) \in Hosts
<1> DEFINE Hosts == {m.host : m \in {n \in Elements(rule) : n.matcher = "Host" /\ n.ticks}}
           at == {i \in DOMAIN rule : rule[i].matcher = "Host" /\ rule[i].ticks}
<1>0. DOMAIN rule = 1..Len(rule) /\ Len(rule) \in Nat  BY ListIsSeq
<1>1. at \subseteq Nat /\ \A i \in DOMAIN rule : rule[i] \in Elements(rule)
  <2>1. at \subseteq Nat  BY <1>0
  <2>2. \A i \in DOMAIN rule : rule[i] \in Elements(rule)  BY DEF Elements
  <2>. QED
    BY <2>1, <2>2
<1>2. CASE at = {}
  <2>1. Hosts = {}
    BY <1>2 DEF Elements
  <2>. QED
    BY <1>2, <2>1 DEF ExtractHost
<1>3. CASE at # {}
  <2> DEFINE i == Min(at)
  <2>1. i \in at
    BY <1>1, <1>3, MinIs
  <2>2. ExtractHost(rule) = rule[i].host
    BY <1>3 DEF ExtractHost
  <2> HIDE DEF i
  <2>3. rule[i].host \in Hosts
    BY <1>1, <2>1
  <2>. QED
    BY <2>2, <2>3
<1>. QED
  BY <1>2, <1>3

\* The list of Traefik is that of the routers that name a host, one for each.
LEMMA TraefikRight ==
    ASSUME input.source = "traefik", IsList(input.data), TraefikAssumption(input.data),
           output = TraefikApps(input.data)
    PROVE  ListIsRight
<1> DEFINE s == input.data
           Hosts(r) == {m.host : m \in {n \in Elements(r.rule) : n.matcher = "Host" /\ n.ticks}}
           routed == {i \in DOMAIN s : ~s[i].internal /\ Hosts(s[i]) \ {None} # {}}
           sound == {i \in routed : None \notin Hosts(s[i])}
           At(i, app) == app.url[1] = Scheme(~s[i].web) /\ app.url[2] \in Hosts(s[i]) \ {None}
           keep == {i \in DOMAIN s : TraefikFits(s[i])}
           fit == Kept(s, keep)
<1>1. /\ DOMAIN fit = 1..Len(fit) /\ Len(fit) = Cardinality(keep) /\ Len(fit) \in Nat
      /\ \A n \in DOMAIN fit : \E i \in keep : fit[n] = s[i]
      /\ \A i \in keep : \E n \in DOMAIN fit : fit[n] = s[i]
  <2>1. keep \in SUBSET DOMAIN s
    OBVIOUS
  <2> HIDE DEF keep
  <2>. QED
    BY <2>1, MadeOf
<1>2. output = [i \in DOMAIN fit |-> App(<<Scheme(~fit[i].web), ExtractHost(fit[i].rule)>>,
                                         Online(fit[i].enabled), None)]
  BY DEF TraefikApps
<1> HIDE DEF fit
<1>3. ASSUME NEW i \in DOMAIN s
      PROVE  /\ ExtractHost(s[i].rule) = None \/ ExtractHost(s[i].rule) \in Hosts(s[i])
             /\ Hosts(s[i]) # {} => ExtractHost(s[i].rule) \in Hosts(s[i])
  <2> DEFINE rule == s[i].rule
  <2>1. IsList(rule)
    <3>1. s[i] \in Elements(s)
      BY DEF Elements
    <3>. QED
      BY <3>1 DEF TraefikAssumption
  <2> HIDE DEF rule
  <2>2. LET H == {m.host : m \in {n \in Elements(rule) : n.matcher = "Host" /\ n.ticks}}
        IN  /\ ExtractHost(rule) = None \/ ExtractHost(rule) \in H
            /\ H # {} => ExtractHost(rule) \in H
    BY <2>1, ExtractHostIs
  <2>. QED
    BY <2>2 DEF rule
<1> HIDE DEF Hosts
<1>4. sound \subseteq keep /\ keep \subseteq routed
  BY <1>3 DEF TraefikFits
<1>5. Cardinality(sound) <= Len(output) /\ Len(output) <= Cardinality(routed)
  <2>1. Len(output) = Cardinality(keep)
    <3>1. DOMAIN output = 1..Len(fit) /\ output = [i \in DOMAIN output |-> output[i]]
      BY <1>1, <1>2
    <3>. QED
      BY <1>1, <3>1, FunctionLen
  <2>2. IsFiniteSet(DOMAIN s)
    <3>1. Len(s) \in Nat /\ DOMAIN s = 1..Len(s)
      BY ListIsSeq
    <3>. QED
      BY <3>1, FS_Interval
  <2>3. IsFiniteSet(routed) /\ IsFiniteSet(keep)
    <3>1. routed \subseteq DOMAIN s /\ keep \subseteq DOMAIN s
      OBVIOUS
    <3>. QED
      BY <2>2, <3>1, FS_Subset
  <2> HIDE DEF sound, keep, routed
  <2>. QED
    BY <1>4, <2>1, <2>3, FS_Subset
<1>6. ASSUME NEW n \in DOMAIN fit, NEW i \in keep, fit[n] = s[i]
      PROVE  At(i, output[n])
  <2>1. output[n].url = <<Scheme(~s[i].web), ExtractHost(s[i].rule)>>
    BY <1>2, <1>6, AppFields
  <2>2. ExtractHost(s[i].rule) \in Hosts(s[i]) \ {None}
    BY <1>3 DEF TraefikFits
  <2>. QED
    BY <2>1, <2>2
<1>7. Elements(output) = {output[n] : n \in DOMAIN fit}
  BY <1>2 DEF Elements
<1> HIDE DEF At, routed, sound, keep
<1>8. /\ \A i \in sound : \E app \in Elements(output) : At(i, app)
      /\ \A app \in Elements(output) : \E i \in routed : At(i, app)
  BY <1>1, <1>4, <1>6, <1>7
<1>9. TraefikIsRight(s)
  BY <1>5, <1>8 DEF TraefikIsRight, At, routed, sound, Hosts
<1>. QED
  BY <1>9 DEF ListIsRight

\* FlattenSeq is the loop it is written as.
LEMMA FlattenLoop ==
    ASSUME NEW T, NEW ss \in Seq(Seq(T))
    PROVE  \E f \in [0..Len(ss) -> Seq(T)] :
              /\ f[0] = <<>> /\ FlattenSeq(ss) = f[Len(ss)]
              /\ \A i \in 1..Len(ss) : f[i] = f[i - 1] \o ss[i]
<1> DEFINE N == Len(ss)
           A == Seq(T)
           base == <<>>
           step == [i \in 1..N |-> [x \in A |-> x \o ss[i]]]
           IsLoop(f) == f = [i \in 1..N |-> IF i = 1 THEN ss[i] ELSE f[i - 1] \o ss[i]]
<1>1. N \in Nat /\ base \in A
  BY LenProperties
<1>0. \A i \in 1..N : ss[i] \in A
  BY ElementOfSeq
<1>2. step \in [1..N -> [A -> A]]
  <2>1. ASSUME NEW i \in 1..N, NEW x \in A PROVE x \o ss[i] \in A
    BY <1>0, ConcatProperties
  <2>. QED
    BY <2>1
<1>3. PICK f \in Loops(A, N, base, step) : TRUE
  <2> HIDE DEF step, A, N, base
  <2>1. Loops(A, N, base, step) # {}
    BY <1>1, <1>2, LoopExists
  <2>. QED
    BY <2>1
<1>4. f \in [0..N -> A] /\ f[0] = <<>>
  BY <1>3 DEF Loops
<1>5. ASSUME NEW i \in 1..N PROVE f[i] = f[i - 1] \o ss[i]
  <2>1. f[i] = step[i][f[i - 1]]
    BY <1>3 DEF Loops
  <2>2. f[i - 1] \in A
    <3>1. i - 1 \in 0..N
      BY <1>1
    <3> HIDE DEF N, A
    <3>. QED
      BY <1>4, <3>1
  <2>. QED
    BY <2>1, <2>2
<1>6. CASE N = 0
  <2>1. FlattenSeq(ss) = ss /\ ss = <<>>
    BY <1>6, EmptySeq DEF FlattenSeq
  <2>. QED
    BY <1>4, <1>5, <1>6, <2>1
<1>7. CASE N # 0
  <2> DEFINE g0 == [i \in 1..N |-> f[i]]
  <2>1. 1 \in 1..N /\ N \in 1..N /\ \A i \in 1..N : i # 1 => i - 1 \in 1..N
    BY <1>1, <1>7
  <2>2. f[1] = ss[1]
    <3>1. f[1] = f[1 - 1] \o ss[1] /\ ss[1] \in Seq(T)
      BY <1>0, <1>5, <2>1
    <3>2. f[1 - 1] = <<>>
      BY <1>4
    <3>. QED
      BY <3>1, <3>2, ConcatEmptySeq
  <2>3. IsLoop(g0)
    <3>1. \A i \in 1..N : g0[i] = IF i = 1 THEN ss[i] ELSE g0[i - 1] \o ss[i]
      BY <1>5, <2>1, <2>2
    <3>. QED
      BY <3>1
  <2>4. ASSUME NEW g, IsLoop(g) PROVE g[N] = f[N]
    <3> DEFINE h == [i \in 0..N |-> IF i = 0 THEN <<>> ELSE g[i]]
    <3>1. \A i \in 1..N : g[i] = IF i = 1 THEN ss[i] ELSE g[i - 1] \o ss[i]
      BY <2>4
    <3>2. h[0] = f[0]
      BY <1>1, <1>4
    <3>3. ASSUME NEW i \in 1..N, h[i - 1] = f[i - 1] PROVE h[i] = f[i]
      <4>1. h[i] = g[i]
        BY <1>1
      <4>2. CASE i = 1
        BY <2>2, <3>1, <4>1, <4>2
      <4>3. CASE i # 1
        <5>1. h[i - 1] = g[i - 1]
          BY <1>1, <4>3
        <5>. QED
          BY <1>5, <3>1, <3>3, <4>1, <4>3, <5>1
      <4>. QED
        BY <4>2, <4>3
    <3> HIDE DEF h
    <3>4. GoAlike(h, f, N)
      BY <3>2, <3>3 DEF GoAlike
    <3>5. h[N] = f[N]
      BY <1>1, <3>4, EndAlike
    <3>. QED
      BY <1>1, <1>7, <3>5 DEF h
  <2>5. FlattenSeq(ss) = (CHOOSE g : IsLoop(g))[N]
    BY <1>7 DEF FlattenSeq
  <2>6. FlattenSeq(ss) = f[N]
    <3> HIDE DEF IsLoop, N, g0
    <3>. QED
      BY <2>3, <2>4, <2>5
  <2>. QED
    BY <1>4, <1>5, <2>6
<1>. QED
  BY <1>6, <1>7

LEMMA ElementsConcat ==
    ASSUME NEW T, NEW s \in Seq(T), NEW t \in Seq(T)
    PROVE  /\ s \o t \in Seq(T) /\ Elements(s \o t) = Elements(s) \cup Elements(t)
           /\ s = <<>> => s \o t = t
           /\ s # <<>> => s \o t # <<>> /\ (s \o t)[1] = s[1]
<1> DEFINE c == s \o t
<1>1. /\ c \in Seq(T) /\ Len(c) = Len(s) + Len(t) /\ Len(s) \in Nat /\ Len(t) \in Nat
      /\ \A i \in 1..Len(s) : c[i] = s[i]
      /\ \A i \in 1..Len(t) : c[Len(s) + i] = t[i]
      /\ DOMAIN c = 1..Len(c) /\ DOMAIN s = 1..Len(s) /\ DOMAIN t = 1..Len(t)
  BY ConcatProperties, LenProperties
<1> HIDE DEF c
<1>2. Elements(s) \subseteq Elements(c)
  <2>1. \A i \in 1..Len(s) : i \in 1..Len(c)
    BY <1>1
  <2>. QED
    BY <1>1, <2>1 DEF Elements
<1>3. Elements(t) \subseteq Elements(c)
  <2>1. \A i \in 1..Len(t) : Len(s) + i \in 1..Len(c)
    BY <1>1
  <2>. QED
    BY <1>1, <2>1 DEF Elements
<1>4. ASSUME NEW i \in 1..Len(c) PROVE c[i] \in Elements(s) \cup Elements(t)
  <2>1. CASE i \in 1..Len(s)
    BY <1>1, <2>1 DEF Elements
  <2>2. CASE i \notin 1..Len(s)
    <3>1. i - Len(s) \in 1..Len(t) /\ Len(s) + (i - Len(s)) = i
      BY <1>1, <2>2
    <3>2. c[i] = t[i - Len(s)]
      BY <1>1, <3>1
    <3>. QED
      BY <1>1, <3>1, <3>2 DEF Elements
  <2>. QED
    BY <2>1, <2>2
<1>5. Elements(c) = Elements(s) \cup Elements(t)
  <2>1. Elements(c) = {c[i] : i \in 1..Len(c)}
    BY <1>1 DEF Elements
  <2>. QED
    BY <1>2, <1>3, <1>4, <2>1
<1>6. s = <<>> => c = t
  BY ConcatEmptySeq DEF c
<1>7. ASSUME s # <<>> PROVE c # <<>> /\ c[1] = s[1]
  <2>1. Len(s) # 0
    BY <1>7, EmptySeq
  <2>2. 1 \in 1..Len(s) /\ Len(c) # 0
    BY <1>1, <2>1
  <2>. QED
    BY <1>1, <2>2, EmptySeq
<1>. QED
  BY <1>1, <1>5, <1>6, <1>7 DEF c

\* A list of lists, flattened, has what these have, and first what the first of them that
\* has anything has first.
LEMMA FlattenIs ==
    ASSUME NEW T, NEW ss \in Seq(Seq(T))
    PROVE  /\ FlattenSeq(ss) \in Seq(T)
           /\ Elements(FlattenSeq(ss)) = UNION {Elements(ss[i]) : i \in 1..Len(ss)}
           /\ (\A i \in 1..Len(ss) : ss[i] = <<>>) => FlattenSeq(ss) = <<>>
           /\ \A k \in 1..Len(ss) :
                 ss[k] # <<>> /\ (\A i \in 1..k - 1 : ss[i] = <<>>)
                 => FlattenSeq(ss) # <<>> /\ FlattenSeq(ss)[1] = ss[k][1]
<1> DEFINE N == Len(ss)
<1>0. \A p, q \in Seq(T) :
         /\ Elements(p \o q) = Elements(p) \cup Elements(q)
         /\ p = <<>> => p \o q = q
         /\ p # <<>> => p \o q # <<>> /\ (p \o q)[1] = p[1]
  BY ElementsConcat
<1>1. N \in Nat /\ \A i \in 1..N : ss[i] \in Seq(T)
  BY LenProperties, ElementOfSeq
<1>2. PICK f \in [0..N -> Seq(T)] :
         /\ f[0] = <<>> /\ FlattenSeq(ss) = f[N]
         /\ \A i \in 1..N : f[i] = f[i - 1] \o ss[i]
  BY FlattenLoop
<1> DEFINE Has(n) == Elements(f[n]) = UNION {Elements(ss[i]) : i \in 1..n}
           Empty(n) == (\A i \in 1..n : ss[i] = <<>>) => f[n] = <<>>
           First(n) == \A k \in 1..n : ss[k] # <<>> /\ (\A i \in 1..k - 1 : ss[i] = <<>>)
                                       => f[n] # <<>> /\ f[n][1] = ss[k][1]
           S == {n \in 0..N : Has(n) /\ Empty(n) /\ First(n)}
<1>3. 0 \in S
  <2>1. Elements(<<>>) = {} /\ 1..0 = {} /\ 0 \in 0..N
    BY <1>1 DEF Elements
  <2>. QED
    BY <1>2, <2>1
<1>4. ASSUME NEW m \in 0..N - 1, m \in S PROVE m + 1 \in S
  <2> DEFINE n == m + 1
  <2>1. n \in 1..N /\ n \in 0..N /\ n - 1 = m /\ m \in 0..N
    BY <1>1
  <2>2. /\ Elements(f[n]) = Elements(f[m]) \cup Elements(ss[n])
        /\ f[m] = <<>> => f[n] = ss[n]
        /\ f[m] # <<>> => f[n] # <<>> /\ f[n][1] = f[m][1]
    <3> DEFINE p == f[m]
               q == ss[n]
    <3> HIDE DEF n
    <3>1. f[n] = p \o q /\ p \in Seq(T) /\ q \in Seq(T)
      BY <1>1, <1>2, <2>1
    <3> HIDE DEF p, q
    <3>2. /\ Elements(f[n]) = Elements(p) \cup Elements(q)
          /\ p = <<>> => f[n] = q
          /\ p # <<>> => f[n] # <<>> /\ f[n][1] = p[1]
      <4>1. /\ Elements(p \o q) = Elements(p) \cup Elements(q)
            /\ p = <<>> => p \o q = q
            /\ p # <<>> => p \o q # <<>> /\ (p \o q)[1] = p[1]
        BY <1>0, <3>1, Zenon
      <4>. QED
        BY <3>1, <4>1
    <3>. QED
      BY <3>2 DEF p, q
  <2>3. 1..n = (1..m) \cup {n} /\ n \notin 1..m
    BY <2>1
  <2> HIDE DEF n
  <2>4. Has(n)
    <3>1. Has(m)
      BY <1>4
    <3>. QED
      BY <2>2, <2>3, <3>1
  <2>5. Empty(n)
    <3>1. Empty(m)
      BY <1>4
    <3>. QED
      BY <2>2, <2>3, <3>1
  <2>6. First(n)
    <3>1. First(m) /\ Empty(m)
      BY <1>4
    <3> SUFFICES ASSUME NEW k \in 1..n, ss[k] # <<>>, \A i \in 1..k - 1 : ss[i] = <<>>
                 PROVE  f[n] # <<>> /\ f[n][1] = ss[k][1]
      OBVIOUS
    <3>2. CASE k \in 1..m
      BY <2>2, <3>1, <3>2
    <3>3. CASE k = n
      <4>1. f[m] = <<>>
        BY <2>1, <3>1, <3>3
      <4>. QED
        BY <2>2, <3>3, <4>1
    <3>. QED
      BY <2>3, <3>2, <3>3
  <2>. QED
    BY <2>1, <2>4, <2>5, <2>6 DEF n
<1>5. \A n \in 0..N : n \in S
  <2> HIDE DEF S, N
  <2>. QED
    BY <1>1, <1>3, <1>4, UpTo
<1>6. N \in 0..N
  BY <1>1
<1>7. Has(N) /\ Empty(N) /\ First(N)
  BY <1>5, <1>6
<1>. QED
  BY <1>2, <1>6, <1>7

-----------------------------------------------------------------------------
(* Caddy's handlers.                                                        *)

\* What FindReverseProxyUpstream finds in a list, given what it finds in those before it.
UpstreamIn(k, found) ==
    FirstOf([i \in DOMAIN HandlerLists[k] |-> UpstreamOf(HandlerLists[k][i], found)])

\* It needs no more than these.
LEMMA UpstreamAlike ==
    ASSUME NEW k \in DOMAIN HandlerLists, NEW f, NEW g, \A j \in 1..k - 1 : f[j] = g[j]
    PROVE  UpstreamIn(k, f) = UpstreamIn(k, g)
<1> DEFINE H == HandlerLists[k]
<1>1. ASSUME NEW i \in DOMAIN H PROVE UpstreamOf(H[i], f) = UpstreamOf(H[i], g)
  <2> DEFINE h == H[i]
  <2>1. CASE h.handler = "subroute"
    <3>1. h \in Elements(H)
      BY DEF Elements
    <3>2. IsList(h.routes) /\ Elements(h.routes) \subseteq 1..k - 1
      BY <2>1, <3>1, HandlersAssumption
    <3> HIDE DEF h
    <3>3. \A r \in DOMAIN h.routes : f[h.routes[r]] = g[h.routes[r]]
      BY <3>2 DEF Elements
    <3>4. [r \in DOMAIN h.routes |-> f[h.routes[r]]] = [r \in DOMAIN h.routes |-> g[h.routes[r]]]
      BY <3>3
    <3>. QED
      BY <2>1, <3>4 DEF UpstreamOf, h
  <2>2. CASE h.handler # "subroute"
    BY <2>2 DEF UpstreamOf
  <2>. QED
    BY <2>1, <2>2
<1>2. [i \in DOMAIN H |-> UpstreamOf(H[i], f)] = [i \in DOMAIN H |-> UpstreamOf(H[i], g)]
  BY <1>1
<1>. QED
  BY <1>2 DEF UpstreamIn

LEMMA FindReverseProxyUpstreamDef ==
    \A k \in DOMAIN HandlerLists :
        FindReverseProxyUpstream[k] = UpstreamIn(k, FindReverseProxyUpstream)
<1> DEFINE n == Len(HandlerLists)
           Found(f, m) == f = [k \in 1..m |-> UpstreamIn(k, f)]
           S == {m \in 0..n : \E f : Found(f, m)}
<1>1. n \in Nat /\ DOMAIN HandlerLists = 1..n
  BY HandlersAssumption, ListIsSeq
<1>2. 0 \in S
  <2> DEFINE f0 == [k \in 1..0 |-> None]
  <2>1. Found(f0, 0) /\ 0 \in 0..n
    BY <1>1
  <2> HIDE DEF Found, f0
  <2>. QED
    BY <2>1
<1>3. ASSUME NEW m \in 0..n - 1, m \in S PROVE m + 1 \in S
  <2>1. PICK f : Found(f, m)
    BY <1>3
  <2> DEFINE g == [k \in 1..m + 1 |-> UpstreamIn(k, f)]
  <2>2. ASSUME NEW k \in 1..m + 1 PROVE g[k] = UpstreamIn(k, g)
    <3>1. \A j \in 1..m : f[j] = UpstreamIn(j, f)
      BY <2>1
    <3>2. \A j \in 1..k - 1 : j \in 1..m /\ j \in 1..m + 1
      OBVIOUS
    <3>3. \A j \in 1..k - 1 : f[j] = g[j]
      BY <3>1, <3>2
    <3>4. k \in DOMAIN HandlerLists /\ g[k] = UpstreamIn(k, f)
      BY <1>1
    <3> HIDE DEF g
    <3>. QED
      BY <3>3, <3>4, UpstreamAlike
  <2>3. Found(g, m + 1)
    BY <2>2
  <2>4. m + 1 \in 0..n
    BY <1>1
  <2> HIDE DEF Found, g
  <2>. QED
    BY <2>3, <2>4
<1>4. \A m \in 0..n : m \in S
  <2> HIDE DEF S, n
  <2>. QED
    BY <1>1, <1>2, <1>3, UpTo
<1>5. \E f : Found(f, n)
  <2> HIDE DEF Found
  <2>1. n \in 0..n
    BY <1>1
  <2>. QED
    BY <1>4, <2>1
<1>6. FindReverseProxyUpstream = CHOOSE f : Found(f, n)
  BY <1>1 DEF FindReverseProxyUpstream, UpstreamIn
<1>7. Found(FindReverseProxyUpstream, n)
  <2> HIDE DEF Found
  <2>. QED
    BY <1>5, <1>6
<1>. QED
  BY <1>1, <1>7

\* The same of the dials.
DialsIn(k, dials) ==
    FlattenSeq([i \in DOMAIN HandlerLists[k] |-> DialsOf(HandlerLists[k][i], dials)])

LEMMA DialsAlike ==
    ASSUME NEW k \in DOMAIN HandlerLists, NEW f, NEW g, \A j \in 1..k - 1 : f[j] = g[j]
    PROVE  DialsIn(k, f) = DialsIn(k, g)
<1> DEFINE H == HandlerLists[k]
<1>1. ASSUME NEW i \in DOMAIN H PROVE DialsOf(H[i], f) = DialsOf(H[i], g)
  <2> DEFINE h == H[i]
  <2>1. CASE h.handler = "subroute"
    <3>1. h \in Elements(H)
      BY DEF Elements
    <3>2. IsList(h.routes) /\ Elements(h.routes) \subseteq 1..k - 1
      BY <2>1, <3>1, HandlersAssumption
    <3> HIDE DEF h
    <3>3. \A r \in DOMAIN h.routes : f[h.routes[r]] = g[h.routes[r]]
      BY <3>2 DEF Elements
    <3>4. [r \in DOMAIN h.routes |-> f[h.routes[r]]] = [r \in DOMAIN h.routes |-> g[h.routes[r]]]
      BY <3>3
    <3>. QED
      BY <2>1, <3>4 DEF DialsOf, h
  <2>2. CASE h.handler # "subroute"
    BY <2>2 DEF DialsOf
  <2>. QED
    BY <2>1, <2>2
<1>2. [i \in DOMAIN H |-> DialsOf(H[i], f)] = [i \in DOMAIN H |-> DialsOf(H[i], g)]
  BY <1>1
<1>. QED
  BY <1>2 DEF DialsIn

LEMMA DialsDef ==
    \A k \in DOMAIN HandlerLists :
        Dials[k] = DialsIn(k, Dials)
<1> DEFINE n == Len(HandlerLists)
           IsIt(f, m) == f = [k \in 1..m |-> DialsIn(k, f)]
           S == {m \in 0..n : \E f : IsIt(f, m)}
<1>1. n \in Nat /\ DOMAIN HandlerLists = 1..n
  BY HandlersAssumption, ListIsSeq
<1>2. 0 \in S
  <2> DEFINE f0 == [k \in 1..0 |-> <<>>]
  <2>1. IsIt(f0, 0) /\ 0 \in 0..n
    BY <1>1
  <2> HIDE DEF IsIt, f0
  <2>. QED
    BY <2>1
<1>3. ASSUME NEW m \in 0..n - 1, m \in S PROVE m + 1 \in S
  <2>1. PICK f : IsIt(f, m)
    BY <1>3
  <2> DEFINE g == [k \in 1..m + 1 |-> DialsIn(k, f)]
  <2>2. ASSUME NEW k \in 1..m + 1 PROVE g[k] = DialsIn(k, g)
    <3>1. \A j \in 1..m : f[j] = DialsIn(j, f)
      BY <2>1
    <3>2. \A j \in 1..k - 1 : j \in 1..m /\ j \in 1..m + 1
      OBVIOUS
    <3>3. \A j \in 1..k - 1 : f[j] = g[j]
      BY <3>1, <3>2
    <3>4. k \in DOMAIN HandlerLists /\ g[k] = DialsIn(k, f)
      BY <1>1
    <3> HIDE DEF g
    <3>. QED
      BY <3>3, <3>4, DialsAlike
  <2>3. IsIt(g, m + 1)
    BY <2>2
  <2>4. m + 1 \in 0..n
    BY <1>1
  <2> HIDE DEF IsIt, g
  <2>. QED
    BY <2>3, <2>4
<1>4. \A m \in 0..n : m \in S
  <2> HIDE DEF S, n
  <2>. QED
    BY <1>1, <1>2, <1>3, UpTo
<1>5. \E f : IsIt(f, n)
  <2> HIDE DEF IsIt
  <2>1. n \in 0..n
    BY <1>1
  <2>. QED
    BY <1>4, <2>1
<1>6. Dials = CHOOSE f : IsIt(f, n)
  BY <1>1 DEF Dials, DialsIn
<1>7. IsIt(Dials, n)
  <2> HIDE DEF IsIt
  <2>. QED
    BY <1>5, <1>6
<1>. QED
  BY <1>1, <1>7

LEMMA FirstOfFlatten ==
    ASSUME NEW T, NEW n \in Nat, NEW ss, ss \in [1..n -> Seq(T)], None \notin T,
           NEW firsts, firsts = [i \in 1..n |-> FirstItem(ss[i])]
    PROVE  FlattenSeq(ss) \in Seq(T) /\ FirstOf(firsts) = FirstItem(FlattenSeq(ss))
<1> DEFINE some == {i \in DOMAIN firsts : firsts[i] # None}
<1>1. ss \in Seq(Seq(T)) /\ Len(ss) = n
  <2>1. \A A : ss \in [1..n -> A] => ss \in Seq(A) /\ Len(ss) = n
    BY SeqDef
  <2>. QED
    BY <2>1
<1>2. /\ FlattenSeq(ss) \in Seq(T)
      /\ (\A i \in 1..n : ss[i] = <<>>) => FlattenSeq(ss) = <<>>
      /\ \A k \in 1..n : ss[k] # <<>> /\ (\A i \in 1..k - 1 : ss[i] = <<>>)
                         => FlattenSeq(ss) # <<>> /\ FlattenSeq(ss)[1] = ss[k][1]
  BY <1>1, FlattenIs
<1>3. \A i \in 1..n : ss[i] # <<>> => ss[i][1] \in T
  <2> SUFFICES ASSUME NEW i \in 1..n, ss[i] # <<>> PROVE ss[i][1] \in T
    OBVIOUS
  <2> DEFINE s == ss[i]
  <2>1. s \in Seq(T)
    OBVIOUS
  <2> HIDE DEF s
  <2>2. Len(s) \in Nat \ {0}
    BY <2>1, EmptySeq DEF s
  <2>3. 1 \in 1..Len(s)
    BY <2>2
  <2>. QED
    BY <2>1, <2>3, ElementOfSeq DEF s
<1>4. some = {i \in 1..n : ss[i] # <<>>}
  BY <1>3 DEF FirstItem
<1>5. FirstOf(firsts) = IF some = {} THEN None ELSE firsts[Min(some)]
  BY DEF FirstOf
<1> HIDE DEF some
<1>6. CASE some = {}
  BY <1>2, <1>4, <1>5, <1>6 DEF FirstItem
<1>7. CASE some # {}
  <2> DEFINE k == Min(some)
  <2>1. k \in some /\ \A i \in some : k <= i
    <3>1. some \subseteq Nat
      BY <1>4
    <3>. QED
      BY <1>7, <3>1, MinIs
  <2>2. FirstOf(firsts) = firsts[k]
    BY <1>5, <1>7
  <2> HIDE DEF k
  <2>3. k \in 1..n /\ ss[k] # <<>>
    BY <1>4, <2>1
  <2>4. \A i \in 1..k - 1 : ss[i] = <<>>
    <3>1. \A i \in 1..k - 1 : i \in 1..n /\ ~(k <= i)
      BY <2>3
    <3>. QED
      BY <1>4, <2>1, <3>1
  <2>. QED
    BY <1>2, <2>2, <2>3, <2>4 DEF FirstItem
<1>. QED
  BY <1>2, <1>6, <1>7

Upstreams ==
    {h.upstreams[1] : h \in UNION {Elements(HandlerLists[k]) : k \in DOMAIN HandlerLists}} \ {None}

\* What is found in a list is the first of all addresses in it, wherever it is nested.
LEMMA UpstreamIsFirst ==
    \A k \in DOMAIN HandlerLists :
        FindReverseProxyUpstream[k] = FirstItem(Dials[k]) /\ Dials[k] \in Seq(Upstreams)
<1> DEFINE n == Len(HandlerLists)
           up == FindReverseProxyUpstream
           Fits(k) == up[k] = FirstItem(Dials[k]) /\ Dials[k] \in Seq(Upstreams)
           S == {m \in 0..n : \A k \in 1..m : Fits(k)}
<1>1. n \in Nat /\ DOMAIN HandlerLists = 1..n
  BY HandlersAssumption, ListIsSeq
<1>2. 0 \in S
  BY <1>1
<1>3. ASSUME NEW k \in 1..n, \A j \in 1..k - 1 : Fits(j) PROVE Fits(k)
  <2> DEFINE H == HandlerLists[k]
             l == Len(H)
             ss == [i \in DOMAIN H |-> DialsOf(H[i], Dials)]
             firsts == [i \in DOMAIN H |-> UpstreamOf(H[i], up)]
  <2>1. l \in Nat /\ DOMAIN H = 1..l
    BY <1>1, HandlersAssumption, ListIsSeq
  <2>2. Dials[k] = FlattenSeq(ss) /\ up[k] = FirstOf(firsts)
    BY <1>1, DialsDef, FindReverseProxyUpstreamDef DEF DialsIn, UpstreamIn
  <2>3. ASSUME NEW h \in Elements(H)
        PROVE  /\ DialsOf(h, Dials) \in Seq(Upstreams)
               /\ UpstreamOf(h, up) = FirstItem(DialsOf(h, Dials))
    <3>1. CASE h.handler = "reverse_proxy"
      <4>1. h.upstreams[1] \in Upstreams \cup {None}
        BY <1>1 DEF Upstreams
      <4>2. CASE h.upstreams = <<>> \/ h.upstreams[1] = None
        <5>1. DialsOf(h, Dials) = <<>> /\ UpstreamOf(h, up) = None
          BY <3>1, <4>2 DEF DialsOf, UpstreamOf
        <5>. QED
          BY <5>1 DEF FirstItem
      <4>3. CASE ~(h.upstreams = <<>> \/ h.upstreams[1] = None)
        <5>1. DialsOf(h, Dials) = <<h.upstreams[1]>> /\ UpstreamOf(h, up) = h.upstreams[1]
          BY <3>1, <4>3 DEF DialsOf, UpstreamOf
        <5>. QED
          BY <4>1, <4>3, <5>1 DEF FirstItem
      <4>. QED
        BY <4>2, <4>3
    <3>2. CASE h.handler = "subroute"
      <4> DEFINE R == h.routes
                 rs == [r \in DOMAIN R |-> Dials[R[r]]]
                 rf == [r \in DOMAIN R |-> up[R[r]]]
                 L == Len(R)
      <4>1. IsList(R) /\ Elements(R) \subseteq 1..k - 1
        BY <1>1, <3>2, HandlersAssumption
      <4>2. L \in Nat /\ DOMAIN R = 1..L
        BY <4>1, ListIsSeq
      <4>3. \A r \in 1..L : Fits(R[r])
        BY <1>3, <4>1, <4>2 DEF Elements
      <4> HIDE DEF R, L
      <4>4. rs \in [1..L -> Seq(Upstreams)] /\ rf = [r \in 1..L |-> FirstItem(rs[r])]
        BY <4>2, <4>3
      <4>5. DialsOf(h, Dials) = FlattenSeq(rs) /\ UpstreamOf(h, up) = FirstOf(rf)
        BY <3>2 DEF DialsOf, UpstreamOf, R
      <4> HIDE DEF rs, rf
      <4>6. None \notin Upstreams
        BY DEF Upstreams
      <4>. QED
        BY <4>2, <4>4, <4>5, <4>6, FirstOfFlatten
    <3>3. CASE h.handler # "reverse_proxy" /\ h.handler # "subroute"
      <4>1. DialsOf(h, Dials) = <<>> /\ UpstreamOf(h, up) = None
        BY <3>3 DEF DialsOf, UpstreamOf
      <4>. QED
        BY <4>1 DEF FirstItem
    <3>. QED
      BY <3>1, <3>2, <3>3
  <2>4. \A i \in 1..l : H[i] \in Elements(H)
    BY <2>1 DEF Elements
  <2> HIDE DEF H, l
  <2>5. ss \in [1..l -> Seq(Upstreams)] /\ firsts = [i \in 1..l |-> FirstItem(ss[i])]
    BY <2>1, <2>3, <2>4
  <2> HIDE DEF ss, firsts
  <2>6. None \notin Upstreams
    BY DEF Upstreams
  <2>. QED
    BY <2>1, <2>2, <2>5, <2>6, FirstOfFlatten
<1>4. ASSUME NEW m \in 0..n - 1, m \in S PROVE m + 1 \in S
  <2>1. m + 1 \in 1..n /\ m + 1 \in 0..n /\ (m + 1) - 1 = m /\ 1..m + 1 = 1..m \cup {m + 1}
    BY <1>1
  <2>2. \A k \in 1..m : Fits(k)
    BY <1>4
  <2> HIDE DEF Fits
  <2>3. Fits(m + 1)
    BY <1>3, <2>1, <2>2
  <2>. QED
    BY <2>1, <2>2, <2>3
<1>5. \A m \in 0..n : m \in S
  <2> HIDE DEF S, n
  <2>. QED
    BY <1>1, <1>2, <1>4, UpTo
<1>6. n \in 0..n
  BY <1>1
<1>. QED
  BY <1>1, <1>5, <1>6

-----------------------------------------------------------------------------
(* Caddy's sites.                                                           *)

\* A walk of the map meets each server.
LEMMA WalkIs ==
    ASSUME NEW D, IsFiniteSet(D), NEW w \in SetToSeqs(D)
    PROVE  /\ w \in [1..Cardinality(D) -> D] /\ Cardinality(D) \in Nat
           /\ \A d \in D : \E i \in 1..Cardinality(D) : w[i] = d
<1> DEFINE n == Cardinality(D)
<1>1. n \in Nat
  BY FS_CardinalityType
<1>2. w \in [1..n -> D] /\ \A i, j \in 1..n : i # j => w[i] # w[j]
  BY DEF SetToSeqs
<1>3. w \in Injection(1..n, D)
  BY <1>2 DEF Injection, IsInjective
<1>4. IsFiniteSet(1..n) /\ Cardinality(1..n) = n
  BY <1>1, FS_Interval
<1>5. w \in Surjection(1..n, D)
  BY <1>3, <1>4, FS_Injection
<1>. QED
  BY <1>1, <1>2, <1>5 DEF Surjection

\* The site of a host of a route.
Site(tls, host, handle) == App(<<Scheme(tls), host>>, "online", FindReverseProxyUpstream[handle])

RouteSites(server, route) == {Site(server.tls, host, route.handle) : host \in Elements(route.hosts)}
ServerSites(server) ==
    IF ~server.decodes THEN {} ELSE UNION {RouteSites(server, r) : r \in Elements(server.routes)}

LEMMA CaddyServerIs ==
    ASSUME NEW D, CaddyAssumption(D), NEW s \in D
    PROVE  CaddyServer(s) \in Seq(ServerSites(s)) /\ Elements(CaddyServer(s)) = ServerSites(s)
<1>1. CASE ~s.decodes
  <2>1. CaddyServer(s) = <<>> /\ ServerSites(s) = {}
    BY <1>1 DEF CaddyServer, ServerSites
  <2>2. <<>> \in Seq({}) /\ Elements(<<>>) = {}
    BY DEF Elements
  <2>. QED
    BY <2>1, <2>2
<1>2. CASE s.decodes
  <2> DEFINE R == s.routes
             T == ServerSites(s)
             ss == [i \in DOMAIN R |-> CaddyRoute(s.tls, R[i])]
             n == Len(R)
  <2>1. IsList(R) /\ \A r \in Elements(R) : IsList(r.hosts)
    BY <1>2 DEF CaddyAssumption
  <2>2. n \in Nat /\ DOMAIN R = 1..n /\ Elements(R) = {R[i] : i \in 1..n}
    BY <2>1, ListIsSeq
  <2>3. T = UNION {RouteSites(s, r) : r \in Elements(R)}
    BY <1>2 DEF ServerSites
  <2>4. CaddyServer(s) = FlattenSeq(ss)
    BY <1>2 DEF CaddyServer
  <2> HIDE DEF R, n, T
  <2>5. ASSUME NEW i \in 1..n
        PROVE  ss[i] \in Seq(T) /\ Elements(ss[i]) = RouteSites(s, R[i])
    <3> DEFINE r == R[i]
               c == CaddyRoute(s.tls, r)
               m == Len(r.hosts)
    <3>1. r \in Elements(R)
      BY <2>2
    <3>2. IsList(r.hosts)
      BY <2>1, <3>1
    <3>3. m \in Nat /\ DOMAIN r.hosts = 1..m /\ Elements(r.hosts) = {r.hosts[j] : j \in 1..m}
      BY <3>2, ListIsSeq
    <3> HIDE DEF r, m
    <3>4. c = [j \in 1..m |-> Site(s.tls, r.hosts[j], r.handle)]
      BY <3>3 DEF CaddyRoute, Site
    <3>5. RouteSites(s, r) = {Site(s.tls, r.hosts[j], r.handle) : j \in 1..m}
      BY <3>3 DEF RouteSites
    <3> HIDE DEF c
    <3>6. Elements(c) = RouteSites(s, r)
      BY <3>4, <3>5 DEF Elements
    <3>7. RouteSites(s, r) \subseteq T
      BY <2>3, <3>1
    <3>8. c \in [1..m -> T]
      BY <3>4, <3>5, <3>7
    <3>9. c \in Seq(T)
      BY <3>3, <3>8, SeqDef
    <3>. QED
      BY <2>2, <3>6, <3>9 DEF c, r
  <2>6. ss \in [1..n -> Seq(T)]
    BY <2>2, <2>5
  <2> HIDE DEF ss
  <2>7. ss \in Seq(Seq(T)) /\ Len(ss) = n
    <3>1. \A A : ss \in [1..n -> A] => ss \in Seq(A) /\ Len(ss) = n
      BY <2>2, SeqDef
    <3>. QED
      BY <2>6, <3>1
  <2>8. FlattenSeq(ss) \in Seq(T) /\ Elements(FlattenSeq(ss)) = UNION {Elements(ss[i]) : i \in 1..n}
    BY <2>7, FlattenIs
  <2>9. UNION {Elements(ss[i]) : i \in 1..n} = T
    BY <2>2, <2>3, <2>5
  <2>. QED
    BY <2>4, <2>8, <2>9 DEF T
<1>. QED
  BY <1>1, <1>2

\* All there is to be published, again and again.
LEMMA CaddySitesIs ==
    ASSUME NEW D, CaddyAssumption(D), NEW w \in SetToSeqs(D)
    PROVE  LET sites == FlattenSeq([i \in DOMAIN w |-> CaddyServer(w[i])])
               all == UNION {ServerSites(s) : s \in D}
           IN  sites \in Seq(all) /\ Elements(sites) = all
<1> DEFINE all == UNION {ServerSites(s) : s \in D}
           n == Cardinality(D)
           ss == [i \in DOMAIN w |-> CaddyServer(w[i])]
<1>1. /\ n \in Nat /\ w \in [1..n -> D] /\ \A d \in D : \E i \in 1..n : w[i] = d
  <2>1. IsFiniteSet(D)
    BY DEF CaddyAssumption
  <2>. QED
    BY <2>1, WalkIs
<1> HIDE DEF n
<1>2. ASSUME NEW i \in 1..n
      PROVE  ss[i] \in Seq(all) /\ Elements(ss[i]) = ServerSites(w[i])
  <2>1. w[i] \in D /\ ss[i] = CaddyServer(w[i])
    BY <1>1
  <2>2. ss[i] \in Seq(ServerSites(w[i])) /\ Elements(ss[i]) = ServerSites(w[i])
    BY <2>1, CaddyServerIs
  <2>3. ServerSites(w[i]) \subseteq all
    BY <2>1
  <2> HIDE DEF ss, all
  <2>. QED
    BY <2>2, <2>3, SeqMonotonic
<1>3. ss \in [1..n -> Seq(all)]
  BY <1>1, <1>2
<1>4. UNION {Elements(ss[i]) : i \in 1..n} = all
  <2>1. UNION {Elements(ss[i]) : i \in 1..n} \subseteq all
    <3> SUFFICES ASSUME NEW i \in 1..n PROVE Elements(ss[i]) \subseteq all
      OBVIOUS
    <3>. QED
      BY <1>1, <1>2
  <2>2. ASSUME NEW s \in D PROVE ServerSites(s) \subseteq UNION {Elements(ss[i]) : i \in 1..n}
    <3>1. PICK i \in 1..n : w[i] = s
      BY <1>1
    <3>2. Elements(ss[i]) = ServerSites(s)
      BY <1>2, <3>1
    <3> HIDE DEF ss
    <3>. QED
      BY <3>2
  <2>. QED
    BY <2>1, <2>2
<1> HIDE DEF ss, all
<1>5. ss \in Seq(Seq(all)) /\ Len(ss) = n
  <2>1. \A A : ss \in [1..n -> A] => ss \in Seq(A) /\ Len(ss) = n
    BY <1>1, SeqDef
  <2>. QED
    BY <1>3, <2>1
<1>6. FlattenSeq(ss) \in Seq(all) /\ Elements(FlattenSeq(ss)) = UNION {Elements(ss[i]) : i \in 1..n}
  BY <1>5, FlattenIs
<1>. QED
  BY <1>4, <1>6 DEF ss, all

\* The list of Caddy has each host once, whichever way its servers are walked.
LEMMA CaddyRight ==
    ASSUME input.source = "caddy", CaddyAssumption(input.data),
           NEW w \in SetToSeqs(input.data), output = CaddyApps(w)
    PROVE  ListIsRight
<1> DEFINE D == input.data
           all == UNION {ServerSites(s) : s \in D}
           sites == FlattenSeq([i \in DOMAIN w |-> CaddyServer(w[i])])
           Host(i) == sites[i].url[2]
           keep == {i \in DOMAIN sites : Host(i) # None /\ \A j \in 1..i - 1 : Host(j) # Host(i)}
           routes == CaddyRoutes(D)
           n == Len(sites)
<1>1. sites \in Seq(all) /\ Elements(sites) = all
  BY CaddySitesIs
<1>2. output = Kept(sites, keep)
  BY DEF CaddyApps
<1> HIDE DEF sites
<1>3. n \in Nat /\ DOMAIN sites = 1..n /\ all = {sites[i] : i \in 1..n}
  <2>1. n \in Nat /\ DOMAIN sites = 1..n
    BY <1>1, LenProperties
  <2>. QED
    BY <1>1, <2>1 DEF Elements
<1>4. keep \in SUBSET (1..n)
  BY <1>3
<1>5. output \in Seq(all) /\ Enumerates(output, sites, keep)
  <2> HIDE DEF all, keep
  <2>. QED
    BY <1>1, <1>2, <1>4, KeptEnumerates
<1>6. Elements(output) = {sites[i] : i \in keep}
  <2> HIDE DEF all, keep
  <2>1. Elements(Kept(sites, keep)) = {sites[i] : i \in keep}
    BY <1>1, <1>4, KeptIs
  <2>. QED
    BY <1>2, <2>1
\* A site is of a host of a route, or of no host.
<1>7. ASSUME NEW site \in all
      PROVE  \E s \in D : \E r \in Elements(s.routes) : \E host \in Elements(r.hosts) :
                /\ s.decodes
                /\ site.url[1] = Scheme(s.tls) /\ site.url[2] = host
                /\ site.upstream = FirstItem(Dials[r.handle])
  <2>1. PICK s \in D : site \in ServerSites(s)
    OBVIOUS
  <2>2. s.decodes /\ \E r \in Elements(s.routes) : site \in RouteSites(s, r)
    BY <2>1 DEF ServerSites
  <2>3. PICK r \in Elements(s.routes) : site \in RouteSites(s, r)
    BY <2>2
  <2>4. PICK host \in Elements(r.hosts) : site = Site(s.tls, host, r.handle)
    BY <2>3 DEF RouteSites
  <2>5. r.handle \in DOMAIN HandlerLists
    BY <2>2 DEF CaddyAssumption
  <2>6. FindReverseProxyUpstream[r.handle] = FirstItem(Dials[r.handle])
    BY <2>5, UpstreamIsFirst
  <2>7. /\ site.url[1] = Scheme(s.tls) /\ site.url[2] = host
        /\ site.upstream = FindReverseProxyUpstream[r.handle]
    BY <2>4, AppFields DEF Site
  <2>. QED
    BY <2>2, <2>6, <2>7
<1>8. ASSUME NEW s \in D, s.decodes, NEW r \in Elements(s.routes), NEW host \in Elements(r.hosts)
      PROVE  \E i \in 1..n : Host(i) = host
  <2>1. Site(s.tls, host, r.handle) \in all
    BY <1>8 DEF ServerSites, RouteSites
  <2>2. PICK i \in 1..n : sites[i] = Site(s.tls, host, r.handle)
    BY <1>3, <2>1
  <2>3. Host(i) = host
    BY <2>2, AppFields DEF Site
  <2>. QED
    BY <2>3
<1> DEFINE Route(s, r) == [tls |-> s.tls, hosts |-> Elements(r.hosts) \ {None},
                          dials |-> Dials[r.handle]]
<1>9. /\ \A s \in D : s.decodes => \A r \in Elements(s.routes) : Route(s, r) \in routes
      /\ \A rt \in routes : \E s \in D : \E r \in Elements(s.routes) : s.decodes /\ rt = Route(s, r)
  <2> HIDE DEF D
  <2>1. routes = UNION {{Route(s, r) : r \in Elements(s.routes)} : s \in {t \in D : t.decodes}}
    BY DEF CaddyRoutes
  <2> HIDE DEF Route, routes
  <2>2. ASSUME NEW s \in D, s.decodes, NEW r \in Elements(s.routes) PROVE Route(s, r) \in routes
    BY <2>1, <2>2
  <2>3. ASSUME NEW rt \in routes
        PROVE  \E s \in D : \E r \in Elements(s.routes) : s.decodes /\ rt = Route(s, r)
    BY <2>1
  <2>. QED
    BY <2>2, <2>3
<1>10. ASSUME NEW s, NEW r
       PROVE  /\ Route(s, r).tls = s.tls /\ Route(s, r).hosts = Elements(r.hosts) \ {None}
              /\ Route(s, r).dials = Dials[r.handle]
  OBVIOUS
<1> HIDE DEF Route, routes, all
<1>11. ASSUME NEW i \in keep
       PROVE  \E rt \in routes :
                 /\ sites[i].url[2] \in rt.hosts /\ sites[i].url[1] = Scheme(rt.tls)
                 /\ sites[i].upstream = FirstItem(rt.dials)
  <2>1. sites[i] \in all /\ Host(i) # None
    BY <1>3
  <2>0. PICK s \in D : \E r \in Elements(s.routes) : \E host \in Elements(r.hosts) :
           /\ s.decodes
           /\ sites[i].url[1] = Scheme(s.tls) /\ sites[i].url[2] = host
           /\ sites[i].upstream = FirstItem(Dials[r.handle])
    BY <1>7, <2>1
  <2>2. PICK r \in Elements(s.routes) : \E host \in Elements(r.hosts) :
           /\ s.decodes
           /\ sites[i].url[1] = Scheme(s.tls) /\ sites[i].url[2] = host
           /\ sites[i].upstream = FirstItem(Dials[r.handle])
    BY <2>0
  <2>3. Route(s, r) \in routes
    BY <1>9, <2>2
  <2>. QED
    BY <1>10, <2>1, <2>2, <2>3
<1>12. ASSUME NEW rt \in routes, NEW host \in rt.hosts
       PROVE  \E i \in keep : Host(i) = host
  <2>0. PICK s \in D : \E r \in Elements(s.routes) : s.decodes /\ rt = Route(s, r)
    BY <1>9
  <2>1. PICK r \in Elements(s.routes) : s.decodes /\ rt = Route(s, r)
    BY <2>0
  <2>2. host \in Elements(r.hosts) /\ host # None
    BY <1>10, <2>1
  <2> DEFINE have == {i \in 1..n : Host(i) = host}
  <2>7. \E i \in 1..n : Host(i) = host
    <3> HIDE DEF n
    <3>. QED
      BY <1>8, <2>1, <2>2
  <2>8. have # {}
    BY <2>7
  <2>9. have \subseteq Nat
    BY <1>3
  <2>4. PICK i \in have : \A j \in have : i <= j
    <3> HIDE DEF have
    <3>. QED
      BY <2>8, <2>9, LeastNat
  <2>5. \A j \in 1..i - 1 : j \in 1..n /\ ~(i <= j)
    BY <1>3
  <2>6. \A j \in 1..i - 1 : Host(j) # Host(i)
    BY <2>4, <2>5
  <2>. QED
    BY <1>3, <2>2, <2>6
<1> HIDE DEF keep
<1>13. {app.url[2] : app \in Elements(output)} = UNION {r.hosts : r \in routes}
  <2>1. ASSUME NEW app \in Elements(output) PROVE \E r \in routes : app.url[2] \in r.hosts
    <3>1. PICK i \in keep : app = sites[i]
      BY <1>6
    <3>. QED
      BY <1>11, <3>1
  <2>2. ASSUME NEW r \in routes, NEW host \in r.hosts
        PROVE  \E app \in Elements(output) : app.url[2] = host
    <3>1. PICK i \in keep : Host(i) = host
      BY <1>12
    <3>2. sites[i] \in Elements(output)
      BY <1>6
    <3>. QED
      BY <3>1, <3>2
  <2>. QED
    BY <2>1, <2>2
<1>14. ASSUME NEW i \in DOMAIN output, NEW j \in DOMAIN output, output[i].url[2] = output[j].url[2]
       PROVE  i = j
  <2>1. PICK at \in [1..Len(output) -> keep] :
           /\ \A k, l \in 1..Len(output) : k < l => at[k] < at[l]
           /\ \A k \in 1..Len(output) : output[k] = sites[at[k]]
    BY <1>5 DEF Enumerates
  <2>2. Len(output) \in Nat /\ DOMAIN output = 1..Len(output)
    BY <1>5, LenProperties
  <2>3. ASSUME NEW k \in 1..Len(output), NEW l \in 1..Len(output), k < l
        PROVE  output[k].url[2] # output[l].url[2]
    <3>1. at[k] \in keep /\ at[l] \in keep /\ at[k] < at[l]
      BY <2>1, <2>3
    <3>0. at[k] \in 1..n /\ at[l] \in 1..n
      BY <1>4, <3>1
    <3>2. at[k] \in 1..at[l] - 1
      BY <1>3, <3>0, <3>1
    <3>3. Host(at[k]) # Host(at[l])
      BY <3>1, <3>2 DEF keep
    <3>. QED
      BY <2>1, <3>3
  <2>4. i < j \/ j < i \/ i = j
    BY <2>2
  <2>. QED
    BY <1>14, <2>2, <2>3, <2>4
<1>15. CaddyIsRight(D)
  <2>1. ASSUME NEW app \in Elements(output)
        PROVE  \E r \in routes : /\ app.url[2] \in r.hosts /\ app.url[1] = Scheme(r.tls)
                                 /\ app.upstream = FirstItem(r.dials)
    <3>1. PICK i \in keep : app = sites[i]
      BY <1>6
    <3>. QED
      BY <1>11, <3>1
  <2>. QED
    BY <1>13, <1>14, <2>1 DEF CaddyIsRight, routes
<1>. QED
  BY <1>15 DEF ListIsRight

-----------------------------------------------------------------------------
(* Nginx's server blocks.                                                   *)

UrlsIn(apps) == {app.url : app \in Elements(apps)}
Once(apps) == \A i, j \in DOMAIN apps : apps[i].url = apps[j].url => i = j
OnlineAt(U) == {App(u, "online", None) : u \in U}
UrlAt(b, path) == <<Scheme(b.tls), ValidHost(b), path>>
Paths(b) == {l.path : l \in Elements(Locations(b))}

LEMMA AddOnceIs ==
    ASSUME NEW U, NEW u \in U, NEW apps \in Seq(OnlineAt(U))
    PROVE  /\ AddOnce(apps, u) \in Seq(OnlineAt(U))
           /\ UrlsIn(AddOnce(apps, u)) = UrlsIn(apps) \cup {u}
           /\ Once(apps) => Once(AddOnce(apps, u))
<1>1. Len(apps) \in Nat /\ DOMAIN apps = 1..Len(apps)
  BY LenProperties
<1>2. CASE Listed(apps, u)
  <2>1. AddOnce(apps, u) = apps
    BY <1>2 DEF AddOnce
  <2>2. u \in UrlsIn(apps)
    BY <1>2 DEF Listed, UrlsIn, Elements
  <2>. QED
    BY <2>1, <2>2
<1>3. CASE ~Listed(apps, u)
  <2> DEFINE n == Len(apps)
             app == App(u, "online", None)
             more == Append(apps, app)
  <2>1. AddOnce(apps, u) = more /\ app \in OnlineAt(U) /\ app.url = u
    BY <1>3, AppFields DEF AddOnce, OnlineAt
  <2> HIDE DEF app
  <2>2. /\ more \in Seq(OnlineAt(U)) /\ Len(more) = n + 1 /\ more[n + 1] = app
        /\ \A i \in 1..n : more[i] = apps[i]
    BY <2>1, AppendProperties
  <2>3. DOMAIN more = 1..n + 1
    BY <2>2, LenProperties
  <2>4. \A i \in 1..n + 1 : i = n + 1 \/ i \in 1..n
    BY <1>1
  <2>5. n + 1 \in 1..n + 1 /\ \A i \in 1..n : i \in 1..n + 1
    BY <1>1
  <2> HIDE DEF more, n
  <2>6. UrlsIn(more) = UrlsIn(apps) \cup {u}
    <3>1. ASSUME NEW i \in 1..n + 1 PROVE more[i].url \in UrlsIn(apps) \cup {u}
      BY <1>1, <2>1, <2>2, <2>4 DEF UrlsIn, Elements, n
    <3>2. ASSUME NEW i \in 1..n PROVE apps[i].url \in UrlsIn(more)
      BY <2>2, <2>3, <2>5 DEF UrlsIn, Elements
    <3>3. u \in UrlsIn(more)
      BY <2>1, <2>2, <2>3, <2>5 DEF UrlsIn, Elements
    <3>4. UrlsIn(more) = {more[i].url : i \in 1..n + 1} /\ UrlsIn(apps) = {apps[i].url : i \in 1..n}
      BY <1>1, <2>3 DEF UrlsIn, Elements, n
    <3>5. UrlsIn(more) \subseteq UrlsIn(apps) \cup {u}
      BY <3>1, <3>4
    <3>6. UrlsIn(apps) \subseteq UrlsIn(more)
      BY <3>2, <3>4
    <3>. QED
      BY <3>3, <3>5, <3>6
  <2>7. ASSUME Once(apps) PROVE Once(more)
    <3>1. \A i \in 1..n : more[i].url # u
      BY <1>1, <1>3, <2>2 DEF Listed, n
    <3>2. more[n + 1].url = u
      BY <2>1, <2>2
    <3>3. \A i, j \in 1..n : more[i].url = more[j].url => i = j
      BY <1>1, <2>2, <2>7 DEF Once, n
    <3>4. \A i, j \in 1..n + 1 : more[i].url = more[j].url => i = j
      BY <2>4, <3>1, <3>2, <3>3
    <3>. QED
      BY <2>3, <3>4 DEF Once
  <2>. QED
    BY <2>1, <2>2, <2>6, <2>7
<1>. QED
  BY <1>2, <1>3

LEMMA LocationsAre ==
    ASSUME NEW b, IsList(b.locations)
    PROVE  /\ Len(Locations(b)) \in Nat /\ DOMAIN Locations(b) = 1..Len(Locations(b))
           /\ Paths(b) = {Locations(b)[i].path : i \in 1..Len(Locations(b))}
           /\ Paths(b) # {} => ProxiedSomewhere(b)
<1> DEFINE keep == {i \in DOMAIN b.locations :
                       b.locations[i].path \notin SkippedPaths /\ b.locations[i].proxied}
           found == Kept(b.locations, keep)
<1>1. found = Locations(b)
  BY DEF Locations
<1>2. /\ DOMAIN found = 1..Len(found) /\ Len(found) \in Nat
      /\ \A n \in DOMAIN found : \E i \in keep : found[n] = b.locations[i]
  <2>1. keep \in SUBSET DOMAIN b.locations
    OBVIOUS
  <2> HIDE DEF keep
  <2>. QED
    BY <2>1, MadeOf
<1> HIDE DEF found
<1>3. Paths(b) = {found[i].path : i \in 1..Len(found)}
  BY <1>1, <1>2 DEF Paths, Elements
<1>4. ASSUME Paths(b) # {} PROVE ProxiedSomewhere(b)
  <2>1. \E n \in DOMAIN found : TRUE
    BY <1>2, <1>3, <1>4
  <2>2. \E i \in keep : TRUE
    BY <1>2, <2>1
  <2>. QED
    BY <2>2 DEF ProxiedSomewhere
<1>. QED
  BY <1>1, <1>2, <1>3, <1>4

\* AddLocations is the loop it is written as.
LEMMA AddLocationsLoop ==
    ASSUME NEW U, NEW apps \in Seq(OnlineAt(U)), NEW b, IsList(b.locations),
           \A path \in Paths(b) : UrlAt(b, path) \in U
    PROVE  LET L == Locations(b)
           IN  \E f \in [0..Len(L) -> Seq(OnlineAt(U))] :
                  /\ f[0] = apps /\ AddLocations(apps, b) = f[Len(L)]
                  /\ \A i \in 1..Len(L) : /\ f[i] = AddOnce(f[i - 1], UrlAt(b, L[i].path))
                                          /\ UrlAt(b, L[i].path) \in U
<1> DEFINE L == Locations(b)
           N == Len(L)
           A == Seq(OnlineAt(U))
           u(i) == UrlAt(b, L[i].path)
           step == [i \in 1..N |-> [x \in A |-> AddOnce(x, u(i))]]
           IsLoop(f) == f = [n \in 0..N |-> IF n = 0 THEN apps ELSE AddOnce(f[n - 1], u(n))]
<1>1. N \in Nat
  BY LocationsAre
<1>0. \A i \in 1..N : u(i) \in U
  <2>1. Paths(b) = {L[i].path : i \in 1..N}
    BY LocationsAre
  <2> HIDE DEF L, N
  <2>. QED
    BY <2>1
<1> HIDE DEF u
<1>2. step \in [1..N -> [A -> A]]
  <2>1. ASSUME NEW i \in 1..N, NEW x \in A PROVE AddOnce(x, u(i)) \in A
    BY <1>0, AddOnceIs
  <2>. QED
    BY <2>1
<1>3. PICK f \in Loops(A, N, apps, step) : TRUE
  <2> HIDE DEF step, A, N
  <2>1. apps \in A
    BY DEF A
  <2>2. Loops(A, N, apps, step) # {}
    BY <1>1, <1>2, <2>1, LoopExists
  <2>. QED
    BY <2>2
<1>4. f \in [0..N -> A] /\ f[0] = apps
  BY <1>3 DEF Loops
<1>5. ASSUME NEW i \in 1..N PROVE f[i] = AddOnce(f[i - 1], u(i))
  <2>1. f[i] = step[i][f[i - 1]]
    BY <1>3 DEF Loops
  <2>2. f[i - 1] \in A
    <3>1. i - 1 \in 0..N
      BY <1>1
    <3> HIDE DEF N, A
    <3>. QED
      BY <1>4, <3>1
  <2>. QED
    BY <2>1, <2>2
<1> HIDE DEF A, step
<1>6. IsLoop(f)
  <2>1. \A n \in 0..N : n = 0 \/ n \in 1..N
    BY <1>1
  <2>2. 0 \notin 1..N
    BY <1>1
  <2> HIDE DEF N
  <2>3. \A n \in 0..N : f[n] = IF n = 0 THEN apps ELSE AddOnce(f[n - 1], u(n))
    BY <1>4, <1>5, <2>1, <2>2
  <2>. QED
    BY <1>4, <2>3
<1>7. ASSUME NEW g, IsLoop(g) PROVE g[N] = f[N]
  <2>0. \A n \in 0..N : g[n] = IF n = 0 THEN apps ELSE AddOnce(g[n - 1], u(n))
    BY <1>7
  <2>1. g[0] = apps /\ \A i \in 1..N : g[i] = AddOnce(g[i - 1], u(i))
    <3>1. 0 \in 0..N /\ \A n \in 1..N : n \in 0..N /\ n # 0
      BY <1>1
    <3> HIDE DEF N
    <3>. QED
      BY <2>0, <3>1
  <2>2. GoAlike(g, f, N)
    BY <1>4, <1>5, <2>1 DEF GoAlike
  <2>. QED
    BY <1>1, <2>2, EndAlike
<1>8. AddLocations(apps, b) = f[N]
  <2>1. AddLocations(apps, b) = (CHOOSE g : IsLoop(g))[N]
    BY DEF AddLocations, u, UrlAt
  <2> HIDE DEF IsLoop, N
  <2>. QED
    BY <1>6, <1>7, <2>1
<1>. QED
  BY <1>0, <1>4, <1>5, <1>8 DEF A, u

\* AddLocations lists the locations, once each.
LEMMA AddLocationsIs ==
    ASSUME NEW U, NEW apps \in Seq(OnlineAt(U)), NEW b, IsList(b.locations),
           \A path \in Paths(b) : UrlAt(b, path) \in U
    PROVE  LET found == AddLocations(apps, b)
           IN  /\ found \in Seq(OnlineAt(U))
               /\ UrlsIn(found) = UrlsIn(apps) \cup {UrlAt(b, path) : path \in Paths(b)}
               /\ Once(apps) => Once(found)
               /\ Paths(b) = {} => found = apps
<1> DEFINE L == Locations(b)
           N == Len(L)
           u(i) == UrlAt(b, L[i].path)
<1>1. N \in Nat /\ Paths(b) = {L[i].path : i \in 1..N}
  BY LocationsAre
<1>2. PICK f \in [0..N -> Seq(OnlineAt(U))] :
         /\ f[0] = apps /\ AddLocations(apps, b) = f[N]
         /\ \A i \in 1..N : f[i] = AddOnce(f[i - 1], u(i)) /\ u(i) \in U
  BY AddLocationsLoop
<1> DEFINE S == {n \in 0..N : /\ UrlsIn(f[n]) = UrlsIn(apps) \cup {u(i) : i \in 1..n}
                              /\ Once(apps) => Once(f[n])}
<1> HIDE DEF u
<1>3. 0 \in S
  <2>1. 0 \in 0..N /\ 1..0 = {}
    BY <1>1
  <2> HIDE DEF N
  <2>. QED
    BY <1>2, <2>1
<1>4. ASSUME NEW m \in 0..N - 1, m \in S PROVE m + 1 \in S
  <2> DEFINE n == m + 1
  <2>1. n \in 1..N /\ n \in 0..N /\ n - 1 = m /\ m \in 0..N /\ 1..n = (1..m) \cup {n}
    BY <1>1
  <2> HIDE DEF n, N
  <2>2. f[m] \in Seq(OnlineAt(U)) /\ f[n] = AddOnce(f[m], u(n)) /\ u(n) \in U
    BY <1>2, <2>1
  <2>3. /\ UrlsIn(f[n]) = UrlsIn(f[m]) \cup {u(n)}
        /\ Once(f[m]) => Once(f[n])
    <3>1. \A x \in Seq(OnlineAt(U)), v \in U : /\ UrlsIn(AddOnce(x, v)) = UrlsIn(x) \cup {v}
                                               /\ Once(x) => Once(AddOnce(x, v))
      BY AddOnceIs
    <3>. QED
      BY <2>2, <3>1
  <2>4. {u(i) : i \in 1..n} = {u(i) : i \in 1..m} \cup {u(n)}
    BY <2>1
  <2>5. UrlsIn(f[m]) = UrlsIn(apps) \cup {u(i) : i \in 1..m} /\ (Once(apps) => Once(f[m]))
    BY <1>4
  <2>6. UrlsIn(f[n]) = UrlsIn(apps) \cup {u(i) : i \in 1..n} /\ (Once(apps) => Once(f[n]))
    BY <2>3, <2>4, <2>5
  <2>. QED
    BY <2>1, <2>6 DEF n
<1>5. \A n \in 0..N : n \in S
  <2> HIDE DEF S, N
  <2>. QED
    BY <1>1, <1>3, <1>4, UpTo
<1>6. N \in 0..N
  BY <1>1
<1>7. UrlsIn(f[N]) = UrlsIn(apps) \cup {u(i) : i \in 1..N} /\ (Once(apps) => Once(f[N]))
  BY <1>5, <1>6
<1>8. {u(i) : i \in 1..N} = {UrlAt(b, path) : path \in Paths(b)}
  <2>1. ASSUME NEW i \in 1..N PROVE u(i) \in {UrlAt(b, path) : path \in Paths(b)}
    BY <1>1 DEF u
  <2>2. ASSUME NEW path \in Paths(b) PROVE UrlAt(b, path) \in {u(i) : i \in 1..N}
    BY <1>1 DEF u
  <2>. QED
    BY <2>1, <2>2
<1>9. ASSUME Paths(b) = {} PROVE f[N] = apps
  <2>1. 1..N = {}
    BY <1>1, <1>9
  <2>2. N = 0
    BY <1>1, <2>1
  <2>. QED
    BY <1>2, <2>2
<1>. QED
  BY <1>2, <1>6, <1>7, <1>8, <1>9

\* What a list owes to the blocks it is made of.
UrlsOf(b) == {UrlAt(b, path) : path \in Paths(b) \cup {None}}
Named(B) == {b \in B : ValidHost(b) # None}
Allowed(B) == UNION {UrlsOf(b) : b \in {c \in Named(B) : ProxiedSomewhere(c)}}

Serves(apps, B) ==
    /\ Once(apps)
    /\ \A b \in Named(B) :
          /\ \A path \in Paths(b) : UrlAt(b, path) \in UrlsIn(apps)
          /\ ProxiedSomewhere(b) => \E url \in UrlsOf(b) : url \in UrlsIn(apps)
    /\ UrlsIn(apps) \subseteq Allowed(B)

\* A block pays its own part.
LEMMA NginxBlockServes ==
    ASSUME NEW U, NEW B, NEW apps \in Seq(OnlineAt(U)), Serves(apps, B),
           NEW b, IsList(b.locations), UrlsOf(b) \subseteq U
    PROVE  NginxBlock(apps, b) \in Seq(OnlineAt(U)) /\ Serves(NginxBlock(apps, b), B \cup {b})
<1> DEFINE found == AddLocations(apps, b)
           own == UrlAt(b, None)
           r == NginxBlock(apps, b)
           C == B \cup {b}
<1>1. \A path \in Paths(b) : UrlAt(b, path) \in U
  BY DEF UrlsOf
<1>2. own \in U /\ own \in UrlsOf(b)
  BY DEF UrlsOf
<1>3. /\ found \in Seq(OnlineAt(U))
      /\ UrlsIn(found) = UrlsIn(apps) \cup {UrlAt(b, path) : path \in Paths(b)}
      /\ Once(apps) => Once(found)
      /\ Paths(b) = {} => found = apps
  BY <1>1, AddLocationsIs
<1>4. /\ AddOnce(apps, own) \in Seq(OnlineAt(U))
      /\ UrlsIn(AddOnce(apps, own)) = UrlsIn(apps) \cup {own}
      /\ Once(apps) => Once(AddOnce(apps, own))
  BY <1>2, AddOnceIs
<1>5. r = IF ValidHost(b) = None THEN apps
          ELSE IF found # apps \/ ~ProxiedSomewhere(b) THEN found
          ELSE AddOnce(apps, own)
  BY DEF NginxBlock, UrlAt
<1>6. Once(apps) /\ UrlsIn(apps) \subseteq Allowed(B)
  BY DEF Serves
<1>7. Paths(b) # {} => ProxiedSomewhere(b)
  BY LocationsAre
<1>8. Allowed(B) \subseteq Allowed(C) /\ Named(B) \subseteq Named(C)
  BY DEF Allowed, Named
<1>9. ValidHost(b) # None /\ ProxiedSomewhere(b) => UrlsOf(b) \subseteq Allowed(C)
  BY DEF Allowed, Named
<1>10. {UrlAt(b, path) : path \in Paths(b)} \subseteq UrlsOf(b)
  BY DEF UrlsOf
<1> HIDE DEF found, own, r, C
<1>11. r \in Seq(OnlineAt(U)) /\ Once(r) /\ UrlsIn(apps) \subseteq UrlsIn(r)
  BY <1>3, <1>4, <1>5, <1>6
<1>12. UrlsIn(r) \subseteq Allowed(C)
  <2>1. CASE ValidHost(b) = None
    BY <1>5, <1>6, <1>8, <2>1
  <2>2. CASE ValidHost(b) # None /\ r = found
    <3>1. CASE Paths(b) = {}
      BY <1>3, <1>6, <1>8, <2>2, <3>1
    <3>2. CASE Paths(b) # {}
      BY <1>3, <1>6, <1>7, <1>8, <1>9, <1>10, <2>2, <3>2
    <3>. QED
      BY <3>1, <3>2
  <2>3. CASE ValidHost(b) # None /\ ProxiedSomewhere(b) /\ r = AddOnce(apps, own)
    BY <1>2, <1>4, <1>6, <1>8, <1>9, <2>3
  <2>. QED
    BY <1>5, <2>1, <2>2, <2>3
<1>13. ASSUME ValidHost(b) # None
       PROVE  /\ \A path \in Paths(b) : UrlAt(b, path) \in UrlsIn(r)
              /\ ProxiedSomewhere(b) => \E url \in UrlsOf(b) : url \in UrlsIn(r)
  <2>1. \A path \in Paths(b) : UrlAt(b, path) \in UrlsIn(found)
    BY <1>3
  <2>2. CASE r = found /\ found # apps
    <3>1. \E path \in Paths(b) : TRUE
      BY <1>3, <2>2
    <3>. QED
      BY <1>10, <2>1, <2>2, <3>1
  <2>3. CASE r = found /\ ~ProxiedSomewhere(b)
    BY <2>1, <2>3
  <2>4. CASE r = AddOnce(apps, own) /\ found = apps
    BY <1>2, <1>4, <2>1, <2>4
  <2>. QED
    BY <1>5, <1>13, <2>2, <2>3, <2>4
<1>14. ASSUME NEW c \in Named(C)
       PROVE  /\ \A path \in Paths(c) : UrlAt(c, path) \in UrlsIn(r)
              /\ ProxiedSomewhere(c) => \E url \in UrlsOf(c) : url \in UrlsIn(r)
  <2>1. CASE c = b
    BY <1>13, <1>14, <2>1 DEF Named
  <2>2. CASE c \in Named(B)
    BY <1>11, <2>2 DEF Serves
  <2>3. c = b \/ c \in Named(B)
    BY <1>14 DEF Named, C
  <2>. QED
    BY <2>1, <2>2, <2>3
<1>15. Serves(r, C)
  BY <1>11, <1>12, <1>14 DEF Serves
<1>. QED
  BY <1>11, <1>15 DEF r, C

\* What a list owes to all blocks together.
LEMMA ServesIsRight ==
    ASSUME NEW files, output = NginxApps(files),
           Serves(output, {x \in UNION {Elements(files[f].items) : f \in Reached(files)} :
                              x.kind = "server"})
    PROVE  NginxIsRight(files)
<1> DEFINE B == {x \in UNION {Elements(files[f].items) : f \in Reached(files)} : x.kind = "server"}
           blocks == {b \in UNION {Elements(files[f].items) : f \in Reached(files)} :
                         b.kind = "server" /\ ValidHost(b) # None}
           proxying == {b \in blocks : ProxiedSomewhere(b)}
<1>1. blocks = Named(B)
  BY DEF Named
<1>2. UrlsIn(output) = Addresses
  BY DEF UrlsIn, Addresses
<1> HIDE DEF B, blocks
<1>3. \A i, j \in DOMAIN output : output[i].url = output[j].url => i = j
  BY DEF Serves, Once, B
<1>4. \A b \in blocks : \A path \in Paths(b) : UrlAt(b, path) \in Addresses
  BY <1>1, <1>2 DEF Serves, B
<1>5. \A b \in proxying : \E path \in Paths(b) \cup {None} : UrlAt(b, path) \in Addresses
  BY <1>1, <1>2 DEF Serves, B, UrlsOf
<1>6. Addresses \subseteq UNION {{UrlAt(b, path) : path \in Paths(b) \cup {None}} : b \in proxying}
  BY <1>1, <1>2 DEF Serves, B, Allowed, UrlsOf
<1>. QED
  BY <1>3, <1>4, <1>5, <1>6 DEF NginxIsRight, blocks, Paths, UrlAt

-----------------------------------------------------------------------------
(* Nginx's includes.                                                        *)

\* The server blocks of some files, the files they include, and what is had of them.
Own(files, X) == {x \in UNION {Elements(files[f].items) : f \in X} : x.kind = "server"}
Included(files, X) ==
    (UNION {{item.file : item \in {x \in Elements(files[f].items) : x.kind = "include"}} : f \in X})
    \ {0}
Had(blocks, X) == UNION {Elements(blocks[f]) : f \in X}

\* A level of ResolveIncludes, given the one below.
Spliced(files, stop, inner) ==
    [f \in DOMAIN files |->
        FlattenSeq([i \in DOMAIN files[f].items |->
            LET item == files[f].items[i]
            IN  IF item.kind = "server" THEN <<item>>
                ELSE IF item.file = 0 \/ stop THEN <<>>
                ELSE inner[item.file]])]

LEMMA SplicedIs ==
    ASSUME NEW files, NginxAssumption(files), 0 \notin DOMAIN files,
           NEW stop \in BOOLEAN, NEW f \in DOMAIN files, NEW inner,
           ~stop => inner \in [DOMAIN files -> Seq(Own(files, DOMAIN files))]
    PROVE  /\ Spliced(files, stop, inner)[f] \in Seq(Own(files, DOMAIN files))
           /\ Elements(Spliced(files, stop, inner)[f])
              = Own(files, {f}) \cup IF stop THEN {} ELSE Had(inner, Included(files, {f}))
<1> DEFINE T == Own(files, DOMAIN files)
           items == files[f].items
           n == Len(items)
           Of(item) == IF item.kind = "server" THEN <<item>>
                       ELSE IF item.file = 0 \/ stop THEN <<>>
                       ELSE inner[item.file]
           ss == [i \in DOMAIN items |-> Of(items[i])]
           more == IF stop THEN {} ELSE Had(inner, Included(files, {f}))
<1>1. /\ DOMAIN items = 1..n /\ n \in Nat
      /\ Elements(items) = {items[i] : i \in 1..n}
  <2>1. files[f] \in Elements(files)
    BY DEF Elements
  <2>2. IsList(items)
    BY <2>1 DEF NginxAssumption
  <2> HIDE DEF items
  <2>. QED
    BY <2>2, ListIsSeq
<1>2. ASSUME NEW x \in Elements(items)
      PROVE  x.kind = "server" \/ (x.kind = "include" /\ x.file \in DOMAIN files \cup {0})
  <2>1. files[f] \in Elements(files)
    BY DEF Elements
  <2>. QED
    BY <1>2, <2>1 DEF NginxAssumption
<1>13. Included(files, {f})
       = {item.file : item \in {x \in Elements(items) : x.kind = "include"}} \ {0}
  <2> DEFINE In(g) == {item.file : item \in {x \in Elements(files[g].items) : x.kind = "include"}}
  <2>1. UNION {In(g) : g \in {f}} = In(f)
    <3> HIDE DEF In
    <3>1. {In(g) : g \in {f}} = {In(f)}
      OBVIOUS
    <3>2. UNION {In(f)} = In(f)
      OBVIOUS
    <3>. QED
      BY <3>1, <3>2
  <2>. QED
    BY <2>1 DEF Included
<1>3. ASSUME NEW x \in Elements(items), x.kind = "server"
      PROVE  Of(x) = <<x>> /\ x \in Own(files, {f}) /\ Of(x) \in Seq(T) /\ Elements(Of(x)) = {x}
  <2>1. Of(x) = <<x>>
    BY <1>3
  <2>2. x \in Own(files, {f}) /\ x \in T
    BY <1>3 DEF Own
  <2>3. <<x>> \in Seq(T) /\ Elements(<<x>>) = {x}
    <3> HIDE DEF T
    <3>1. Elements(<<x>>) = {x}
      BY DEF Elements
    <3>. QED
      BY <2>2, <3>1
  <2>. QED
    BY <2>1, <2>2, <2>3
<1>4. ASSUME NEW x \in Elements(items), x.kind # "server"
      PROVE  Of(x) \in Seq(T) /\ Elements(Of(x)) \subseteq more
  <2>0. <<>> \in Seq(T) /\ Elements(<<>>) = {}
    BY DEF Elements
  <2>1. CASE x.file = 0 \/ stop
    <3>1. Of(x) = <<>>
      BY <1>4, <2>1
    <3>. QED
      BY <2>0, <3>1
  <2>2. CASE x.file # 0 /\ ~stop
    <3>1. Of(x) = inner[x.file] /\ x.file \in DOMAIN files /\ x.kind = "include"
      BY <1>2, <1>4, <2>2
    <3>2. x.file \in Included(files, {f})
      BY <1>13, <1>4, <2>2, <3>1
    <3>3. inner[x.file] \in Seq(T)
      BY <2>2, <3>1
    <3>4. Elements(inner[x.file]) \subseteq more
      BY <2>2, <3>2 DEF Had
    <3>. QED
      BY <3>1, <3>3, <3>4
  <2>. QED
    BY <2>1, <2>2
<1>5. ASSUME NEW x \in Own(files, {f}) PROVE x \in Elements(items) /\ x.kind = "server"
  BY <1>5 DEF Own
<1>6. ASSUME NEW x \in more
      PROVE  \E y \in Elements(items) : y.kind # "server" /\ x \in Elements(Of(y))
  <2>1. ~stop
    BY <1>6
  <2>2. PICK g \in Included(files, {f}) : x \in Elements(inner[g])
    BY <1>6, <2>1 DEF Had
  <2>3. PICK y \in Elements(items) : y.kind = "include" /\ y.file = g /\ g # 0
    BY <1>13, <2>2
  <2>4. Of(y) = inner[g]
    BY <2>1, <2>3
  <2>. QED
    BY <2>2, <2>3, <2>4
<1>7. ss \in [1..n -> Seq(T)] /\ \A i \in 1..n : ss[i] = Of(items[i])
  <2>1. ASSUME NEW i \in 1..n PROVE Of(items[i]) \in Seq(T)
    <3>1. items[i] \in Elements(items)
      BY <1>1
    <3> HIDE DEF Of
    <3>. QED
      BY <1>3, <1>4, <3>1
  <2> HIDE DEF Of, n, items, T
  <2>. QED
    BY <1>1, <2>1
<1>8. ss \in Seq(Seq(T)) /\ Len(ss) = n
  <2>1. \A A : ss \in [1..n -> A] => ss \in Seq(A) /\ Len(ss) = n
    BY <1>1, SeqDef
  <2>. QED
    BY <1>7, <2>1
<1>9. Spliced(files, stop, inner)[f] = FlattenSeq(ss)
  BY DEF Spliced
<1> HIDE DEF ss, T, more, Of, n, items
<1>10. /\ FlattenSeq(ss) \in Seq(T)
       /\ Elements(FlattenSeq(ss)) = UNION {Elements(ss[i]) : i \in 1..n}
  <2>1. /\ FlattenSeq(ss) \in Seq(T)
        /\ Elements(FlattenSeq(ss)) = UNION {Elements(ss[i]) : i \in 1..Len(ss)}
    BY <1>8, FlattenIs
  <2>. QED
    BY <1>8, <2>1
<1>11. UNION {Elements(ss[i]) : i \in 1..n} = UNION {Elements(Of(x)) : x \in Elements(items)}
  <2>1. ASSUME NEW i \in 1..n PROVE \E x \in Elements(items) : ss[i] = Of(x)
    BY <1>1, <1>7
  <2>2. ASSUME NEW x \in Elements(items) PROVE \E i \in 1..n : ss[i] = Of(x)
    BY <1>1, <1>7
  <2>3. \A x : x \in UNION {Elements(ss[i]) : i \in 1..n}
             <=> \E i \in 1..n : x \in Elements(ss[i])
    OBVIOUS
  <2>4. \A x : x \in UNION {Elements(Of(y)) : y \in Elements(items)}
             <=> \E y \in Elements(items) : x \in Elements(Of(y))
    OBVIOUS
  <2>5. \A x : (\E i \in 1..n : x \in Elements(ss[i]))
             <=> \E y \in Elements(items) : x \in Elements(Of(y))
    BY <2>1, <2>2, Zenon
  <2> DEFINE L == UNION {Elements(ss[i]) : i \in 1..n}
             R == UNION {Elements(Of(y)) : y \in Elements(items)}
  <2>6. \A x : x \in L <=> x \in R
    BY <2>3, <2>4, <2>5
  <2> HIDE DEF L, R
  <2>7. L = R
    BY <2>6
  <2>. QED
    BY <2>7 DEF L, R
<1>12. UNION {Elements(Of(x)) : x \in Elements(items)} = Own(files, {f}) \cup more
  <2>1. ASSUME NEW x \in Elements(items) PROVE Elements(Of(x)) \subseteq Own(files, {f}) \cup more
    <3>1. CASE x.kind = "server"
      <4>1. Elements(Of(x)) = {x} /\ x \in Own(files, {f})
        BY <1>3, <3>1
      <4>. QED
        BY <4>1
    <3>2. CASE x.kind # "server"
      BY <1>4, <3>2
    <3>. QED
      BY <3>1, <3>2
  <2>2. ASSUME NEW x \in Own(files, {f}) PROVE \E y \in Elements(items) : x \in Elements(Of(y))
    BY <1>3, <1>5
  <2>3. ASSUME NEW x \in more PROVE \E y \in Elements(items) : x \in Elements(Of(y))
    BY <1>6
  <2>. QED
    BY <2>1, <2>2, <2>3
<1>. QED
  BY <1>9, <1>10, <1>11, <1>12 DEF T, more

\* ResolveIncludes is the loop it is written as.
LEMMA ResolveIncludesLoop ==
    ASSUME NEW files, NginxAssumption(files), 0 \notin DOMAIN files
    PROVE  \E f \in [0..MaxDepth + 1 -> [DOMAIN files -> Seq(Own(files, DOMAIN files))]] :
              /\ ResolveIncludes(files) = f[MaxDepth + 1]
              /\ f[0] = Spliced(files, TRUE, <<>>)
              /\ \A i \in 1..MaxDepth + 1 : f[i] = Spliced(files, FALSE, f[i - 1])
<1> DEFINE N == MaxDepth + 1
           A == [DOMAIN files -> Seq(Own(files, DOMAIN files))]
           base == Spliced(files, TRUE, <<>>)
           step == [i \in 1..N |-> [x \in A |-> Spliced(files, FALSE, x)]]
           IsLoop(f) == f = [left \in 0..N |-> Spliced(files, left = 0, f[left - 1])]
<1>1. N \in Nat
  BY DEF MaxDepth
<1>0. ASSUME NEW stop \in BOOLEAN, NEW x, ~stop => x \in A PROVE Spliced(files, stop, x) \in A
  <2>1. \A f \in DOMAIN files : Spliced(files, stop, x)[f] \in Seq(Own(files, DOMAIN files))
    BY <1>0, SplicedIs
  <2>2. DOMAIN Spliced(files, stop, x) = DOMAIN files
        /\ Spliced(files, stop, x) = [f \in DOMAIN files |-> Spliced(files, stop, x)[f]]
    BY DEF Spliced
  <2>. QED
    BY <2>1, <2>2
<1>8. \A x : Spliced(files, TRUE, x) = base
  BY DEF Spliced
<1> HIDE DEF A, N
<1>2. base \in A /\ step \in [1..N -> [A -> A]]
  <2>1. base \in A
    BY <1>0
  <2>2. ASSUME NEW x \in A PROVE Spliced(files, FALSE, x) \in A
    BY <1>0
  <2>. QED
    BY <2>1, <2>2
<1>3. PICK f \in Loops(A, N, base, step) : TRUE
  <2> HIDE DEF step, base
  <2>2. Loops(A, N, base, step) # {}
    BY <1>1, <1>2, LoopExists
  <2>. QED
    BY <2>2
<1>4. f \in [0..N -> A] /\ f[0] = base
  BY <1>3 DEF Loops
<1>5. ASSUME NEW i \in 1..N PROVE f[i] = Spliced(files, FALSE, f[i - 1])
  <2>1. f[i] = step[i][f[i - 1]]
    BY <1>3 DEF Loops
  <2>2. f[i - 1] \in A
    <3>1. i - 1 \in 0..N
      BY <1>1
    <3>. QED
      BY <1>4, <3>1
  <2>. QED
    BY <2>1, <2>2
<1> HIDE DEF step, base
<1>6. IsLoop(f)
  <2>1. \A n \in 0..N : (n = 0 /\ (n = 0) = TRUE) \/ (n \in 1..N /\ (n = 0) = FALSE)
    BY <1>1
  <2>3. ASSUME NEW n \in 0..N PROVE f[n] = Spliced(files, n = 0, f[n - 1])
    <3>1. CASE n = 0 /\ (n = 0) = TRUE
      BY <1>4, <1>8, <3>1
    <3>2. CASE n \in 1..N /\ (n = 0) = FALSE
      BY <1>5, <3>2
    <3>. QED
      BY <2>1, <3>1, <3>2
  <2>. QED
    BY <1>4, <2>3
<1>7. ASSUME NEW g, IsLoop(g) PROVE g[N] = f[N]
  <2>0. \A n \in 0..N : g[n] = Spliced(files, n = 0, g[n - 1])
    BY <1>7
  <2>1. g[0] = base /\ \A i \in 1..N : g[i] = Spliced(files, FALSE, g[i - 1])
    <3>1. 0 \in 0..N /\ \A n \in 1..N : n \in 0..N /\ (n = 0) = FALSE
      BY <1>1
    <3>2. g[0] = Spliced(files, 0 = 0, g[0 - 1]) /\ (0 = 0) = TRUE
      BY <2>0, <3>1
    <3>3. g[0] = base
      BY <1>8, <3>2
    <3>. QED
      BY <2>0, <3>1, <3>3
  <2>2. GoAlike(g, f, N)
    BY <1>4, <1>5, <2>1 DEF GoAlike
  <2>. QED
    BY <1>1, <2>2, EndAlike
<1>9. ResolveIncludes(files) = f[N]
  <2>1. ResolveIncludes(files) = (CHOOSE g : IsLoop(g))[N]
    BY DEF ResolveIncludes, Spliced, N
  <2> HIDE DEF IsLoop
  <2>. QED
    BY <1>6, <1>7, <2>1
<1>. QED
  BY <1>4, <1>5, <1>9 DEF A, N, base

LEMMA IncludedAreFiles ==
    ASSUME NEW files, NginxAssumption(files), NEW X \in SUBSET DOMAIN files
    PROVE  Included(files, X) \in SUBSET DOMAIN files
<1> SUFFICES ASSUME NEW g \in Included(files, X) PROVE g \in DOMAIN files
  OBVIOUS
<1>1. PICK f \in X :
         g \in {item.file : item \in {x \in Elements(files[f].items) : x.kind = "include"}}
  BY DEF Included
<1>2. g # 0
  BY DEF Included
<1>3. PICK y \in Elements(files[f].items) : y.kind = "include" /\ y.file = g
  BY <1>1
<1>4. files[f] \in Elements(files)
  BY DEF Elements
<1>. QED
  BY <1>2, <1>3, <1>4 DEF NginxAssumption

\* Reached is the loop it is written as.
LEMMA ReachedLoop ==
    ASSUME NEW files, NginxAssumption(files)
    PROVE  \E f \in [0..MaxDepth + 1 -> SUBSET DOMAIN files] :
              /\ Reached(files) = f[MaxDepth + 1]
              /\ f[0] = {x \in DOMAIN files : ~files[x].skipped}
              /\ \A i \in 1..MaxDepth + 1 : f[i] = f[i - 1] \cup Included(files, f[i - 1])
<1> DEFINE N == MaxDepth + 1
           A == SUBSET DOMAIN files
           base == {x \in DOMAIN files : ~files[x].skipped}
           step == [i \in 1..N |-> [X \in A |-> X \cup Included(files, X)]]
           IsLoop(f) == f = [n \in 0..N |-> IF n = 0 THEN base
                                            ELSE f[n - 1] \cup Included(files, f[n - 1])]
<1>1. N \in Nat
  BY DEF MaxDepth
<1>2. base \in A /\ step \in [1..N -> [A -> A]]
  <2>1. ASSUME NEW X \in A PROVE X \cup Included(files, X) \in A
    BY IncludedAreFiles
  <2>. QED
    BY <2>1
<1> HIDE DEF A, N
<1>3. PICK f \in Loops(A, N, base, step) : TRUE
  <2> HIDE DEF step, base
  <2>2. Loops(A, N, base, step) # {}
    BY <1>1, <1>2, LoopExists
  <2>. QED
    BY <2>2
<1>4. f \in [0..N -> A] /\ f[0] = base
  BY <1>3 DEF Loops
<1>5. ASSUME NEW i \in 1..N PROVE f[i] = f[i - 1] \cup Included(files, f[i - 1])
  <2>1. f[i] = step[i][f[i - 1]]
    BY <1>3 DEF Loops
  <2>2. f[i - 1] \in A
    <3>1. i - 1 \in 0..N
      BY <1>1
    <3>. QED
      BY <1>4, <3>1
  <2>. QED
    BY <2>1, <2>2
<1> HIDE DEF step, base
<1>6. IsLoop(f)
  <2>1. \A n \in 0..N : n = 0 \/ (n \in 1..N /\ n # 0)
    BY <1>1
  <2>2. \A n \in 0..N : f[n] = IF n = 0 THEN base ELSE f[n - 1] \cup Included(files, f[n - 1])
    BY <1>4, <1>5, <2>1
  <2>. QED
    BY <1>4, <2>2
<1>7. ASSUME NEW g, IsLoop(g) PROVE g[N] = f[N]
  <2>0. \A n \in 0..N : g[n] = IF n = 0 THEN base ELSE g[n - 1] \cup Included(files, g[n - 1])
    BY <1>7
  <2>1. g[0] = base /\ \A i \in 1..N : g[i] = g[i - 1] \cup Included(files, g[i - 1])
    <3>1. 0 \in 0..N /\ \A n \in 1..N : n \in 0..N /\ n # 0
      BY <1>1
    <3>. QED
      BY <2>0, <3>1
  <2>2. GoAlike(g, f, N)
    BY <1>4, <1>5, <2>1 DEF GoAlike
  <2>. QED
    BY <1>1, <2>2, EndAlike
<1>8. Reached(files) = f[N]
  <2>1. Reached(files) = (CHOOSE g : IsLoop(g))[N]
    BY DEF Reached, Included, N, base
  <2> HIDE DEF IsLoop
  <2>. QED
    BY <1>6, <1>7, <2>1
<1>. QED
  BY <1>4, <1>5, <1>8 DEF A, N, base

\* Level by level, the blocks had of the files read are those of the files reached.
LEMMA HadIsReached ==
    ASSUME NEW files, NginxAssumption(files), 0 \notin DOMAIN files
    PROVE  LET blocks == ResolveIncludes(files)
               read == {f \in DOMAIN files : ~files[f].skipped}
           IN  /\ blocks \in [DOMAIN files -> Seq(Own(files, DOMAIN files))]
               /\ Had(blocks, read) = Own(files, Reached(files))
<1> DEFINE N == MaxDepth + 1
           D == DOMAIN files
           T == Own(files, D)
           O(X) == Own(files, X)
           I(X) == Included(files, X)
           read == {f \in DOMAIN files : ~files[f].skipped}
<1>1. N \in Nat
  BY DEF MaxDepth
<1>2. PICK b \in [0..N -> [D -> Seq(T)]] :
         /\ ResolveIncludes(files) = b[N] /\ b[0] = Spliced(files, TRUE, <<>>)
         /\ \A i \in 1..N : b[i] = Spliced(files, FALSE, b[i - 1])
  BY ResolveIncludesLoop
<1>3. PICK near \in [0..N -> SUBSET D] :
         /\ Reached(files) = near[N] /\ near[0] = read
         /\ \A i \in 1..N : near[i] = near[i - 1] \cup I(near[i - 1])
  BY ReachedLoop
<1> HIDE DEF N
<1>4. \A X \in SUBSET D : I(X) \in SUBSET D
  BY IncludedAreFiles
<1>5. ASSUME NEW X \in SUBSET D
      PROVE  /\ \A x : x \in O(X) <=> \E f \in X : x \in O({f})
             /\ \A x : x \in I(X) <=> \E f \in X : x \in I({f})
  <2> DEFINE Items(f) == Elements(files[f].items)
             In(f) == {item.file : item \in {x \in Items(f) : x.kind = "include"}}
  <2>1. \A Y : O(Y) = {x \in UNION {Items(f) : f \in Y} : x.kind = "server"}
    BY DEF Own
  <2>2. \A Y : I(Y) = (UNION {In(f) : f \in Y}) \ {0}
    BY DEF Included
  <2> HIDE DEF O, I, Items, In
  <2>3. \A x, Y : x \in O(Y) <=> (\E f \in Y : x \in Items(f)) /\ x.kind = "server"
    BY <2>1
  <2>4. \A x, Y : x \in I(Y) <=> (\E f \in Y : x \in In(f)) /\ x # 0
    BY <2>2
  <2>5. \A x, f : x \in O({f}) <=> x \in Items(f) /\ x.kind = "server"
    <3> SUFFICES ASSUME NEW x, NEW f PROVE x \in O({f}) <=> x \in Items(f) /\ x.kind = "server"
      OBVIOUS
    <3>1. (\E g \in {f} : x \in Items(g)) <=> x \in Items(f)
      OBVIOUS
    <3>. QED
      BY <2>3, <3>1
  <2>6. \A x, f : x \in I({f}) <=> x \in In(f) /\ x # 0
    <3> SUFFICES ASSUME NEW x, NEW f PROVE x \in I({f}) <=> x \in In(f) /\ x # 0
      OBVIOUS
    <3>1. (\E g \in {f} : x \in In(g)) <=> x \in In(f)
      OBVIOUS
    <3>. QED
      BY <2>4, <3>1
  <2>7. \A x : x \in O(X) <=> \E f \in X : x \in O({f})
    BY <2>3, <2>5
  <2>8. \A x : x \in I(X) <=> \E f \in X : x \in I({f})
    BY <2>4, <2>6
  <2>. QED
    BY <2>7, <2>8
<1>6. \A X \in SUBSET D : Had(b[0], X) = O(X)
  <2> SUFFICES ASSUME NEW X \in SUBSET D PROVE Had(b[0], X) = O(X)
    OBVIOUS
  <2>1. ASSUME NEW f \in X PROVE Elements(b[0][f]) = O({f})
    <3>1. Elements(Spliced(files, TRUE, <<>>)[f]) = Own(files, {f}) \cup {}
      BY SplicedIs
    <3>. QED
      BY <1>2, <3>1
  <2>2. \A x : x \in O(X) <=> \E f \in X : x \in O({f})
    BY <1>5
  <2> HIDE DEF O
  <2>3. Had(b[0], X) = UNION {Elements(b[0][f]) : f \in X}
    BY DEF Had
  <2>4. {Elements(b[0][f]) : f \in X} = {O({f}) : f \in X}
    BY <2>1
  <2>5. O(X) = UNION {O({f}) : f \in X}
    BY <2>2
  <2>. QED
    BY <2>3, <2>4, <2>5
<1>7. \A n \in 1..N : \A X \in SUBSET D : Had(b[n], X) = O(X) \cup Had(b[n - 1], I(X))
  <2> SUFFICES ASSUME NEW n \in 1..N, NEW X \in SUBSET D
               PROVE  Had(b[n], X) = O(X) \cup Had(b[n - 1], I(X))
    OBVIOUS
  <2> DEFINE inner == b[n - 1]
  <2>1. inner \in [D -> Seq(T)]
    <3>1. n - 1 \in 0..N
      BY <1>1
    <3>. QED
      BY <1>2, <3>1
  <2>2. b[n] = Spliced(files, FALSE, inner)
    BY <1>2
  <2> HIDE DEF inner
  <2>3. \A f \in X : Elements(b[n][f]) = O({f}) \cup Had(inner, I({f}))
    BY <2>1, <2>2, SplicedIs
  <2>4. \A x : x \in Had(b[n], X) <=> \E f \in X : x \in O({f}) \/ x \in Had(inner, I({f}))
    BY <2>3 DEF Had
  <2> HIDE DEF O, I
  <2>5. \A x : x \in Had(inner, I(X)) <=> \E f \in X : x \in Had(inner, I({f}))
    <3>1. \A x, Y : x \in Had(inner, Y) <=> \E g \in Y : x \in Elements(inner[g])
      BY DEF Had
    <3>2. \A g : g \in I(X) <=> \E f \in X : g \in I({f})
      BY <1>5
    <3> HIDE DEF inner
    <3>. QED
      BY <3>1, <3>2
  <2>6. \A x : x \in O(X) <=> \E f \in X : x \in O({f})
    BY <1>5
  <2>7. \A x : x \in Had(b[n], X) <=> x \in O(X) \/ x \in Had(inner, I(X))
    BY <2>4, <2>5, <2>6
  <2>. QED
    BY <2>7 DEF inner
<1> HIDE DEF O, I
<1>8. \A n \in 0..N - 1 : \A X \in SUBSET D : Had(b[n], X) \subseteq Had(b[n + 1], X)
  <2> DEFINE S == {n \in Nat : n + 1 \in 1..N =>
                        \A X \in SUBSET D : Had(b[n], X) \subseteq Had(b[n + 1], X)}
  <2>1. 0 \in S
    <3>1. ASSUME 1 \in 1..N, NEW X \in SUBSET D PROVE Had(b[0], X) \subseteq Had(b[1], X)
      <4>1. Had(b[1], X) = O(X) \cup Had(b[1 - 1], I(X))
        BY <1>7, <3>1
      <4>. QED
        BY <1>6, <4>1
    <3>. QED
      BY <3>1
  <2>2. ASSUME NEW n \in 0..N - 1, n \in S PROVE n + 1 \in S
    <3>1. n \in Nat /\ n + 1 \in Nat
      OBVIOUS
    <3>2. ASSUME (n + 1) + 1 \in 1..N, NEW X \in SUBSET D
          PROVE  Had(b[n + 1], X) \subseteq Had(b[(n + 1) + 1], X)
      <4>1. n + 1 \in 1..N /\ (n + 1) - 1 = n /\ ((n + 1) + 1) - 1 = n + 1
        BY <1>1, <3>2
      <4>2. \A Y \in SUBSET D : Had(b[n], Y) \subseteq Had(b[n + 1], Y)
        BY <2>2, <4>1
      <4>3. Had(b[n], I(X)) \subseteq Had(b[n + 1], I(X))
        BY <1>4, <4>2
      <4>4. Had(b[n + 1], X) = O(X) \cup Had(b[n], I(X))
        BY <1>7, <4>1
      <4>5. Had(b[(n + 1) + 1], X) = O(X) \cup Had(b[n + 1], I(X))
        BY <1>7, <3>2, <4>1
      <4>. QED
        BY <4>3, <4>4, <4>5
    <3>. QED
      BY <3>1, <3>2
  <2>3. \A n \in 0..N : n \in S
    <3> HIDE DEF S
    <3>. QED
      BY <1>1, <2>1, <2>2, UpTo
  <2>4. ASSUME NEW n \in 0..N - 1 
        PROVE  \A X \in SUBSET D : Had(b[n], X) \subseteq Had(b[n + 1], X)
    <3>1. n \in 0..N /\ n + 1 \in 1..N
      BY <1>1
    <3>2. n \in S
      BY <2>3, <3>1
    <3>. QED
      BY <3>1, <3>2
  <2>. QED
    BY <2>4
<1> DEFINE S == {n \in 0..N : Had(b[N - n], near[n]) = Had(b[N], read)}
<1>9. 0 \in S
  <2>1. N - 0 = N /\ 0 \in 0..N
    BY <1>1
  <2>. QED
    BY <1>3, <2>1
<1>10. ASSUME NEW n \in 0..N - 1, n \in S PROVE n + 1 \in S
  <2> DEFINE X == near[n]
             k == N - (n + 1)
  <2>1. k \in 0..N - 1 /\ k + 1 = N - n /\ k + 1 \in 1..N /\ (k + 1) - 1 = k
        /\ n \in 0..N /\ n + 1 \in 1..N /\ n + 1 \in 0..N /\ (n + 1) - 1 = n
    BY <1>1
  <2>2. X \in SUBSET D /\ near[n + 1] = X \cup I(X)
    BY <1>3, <2>1
  <2>3. Had(b[k + 1], X) = Had(b[N], read)
    BY <1>10, <2>1
  <2> HIDE DEF X, k
  <2>4. Had(b[k + 1], X) = O(X) \cup Had(b[k], I(X))
    BY <1>7, <2>1, <2>2
  <2>5. Had(b[k], X) \subseteq Had(b[k + 1], X)
    BY <1>8, <2>1, <2>2
  <2>6. O(X) \subseteq Had(b[k], X)
    <3>1. CASE k = 0
      BY <1>6, <2>2, <3>1
    <3>2. CASE k # 0
      <4>1. k \in 1..N
        BY <1>1, <2>1, <3>2
      <4>2. Had(b[k], X) = O(X) \cup Had(b[k - 1], I(X))
        BY <1>7, <2>2, <4>1
      <4>. QED
        BY <4>2
    <3>. QED
      BY <3>1, <3>2
  <2>7. Had(b[k], near[n + 1]) = Had(b[k], X) \cup Had(b[k], I(X))
    BY <2>2 DEF Had
  <2>8. Had(b[k], near[n + 1]) = Had(b[N], read)
    BY <2>3, <2>4, <2>5, <2>6, <2>7
  <2>. QED
    BY <2>1, <2>8 DEF k
<1>11. \A n \in 0..N : n \in S
  <2> HIDE DEF S
  <2>. QED
    BY <1>1, <1>9, <1>10, UpTo
<1>12. N \in 0..N /\ N - N = 0
  BY <1>1
<1>13. Had(b[0], near[N]) = Had(b[N], read)
  BY <1>11, <1>12
<1>14. Had(b[0], near[N]) = O(near[N])
  BY <1>3, <1>6, <1>12
<1>15. b[N] \in [D -> Seq(T)]
  BY <1>2, <1>12
<1>. QED
  BY <1>2, <1>3, <1>13, <1>14, <1>15 DEF O

LEMMA NginxBlockIsList ==
    ASSUME NEW U, NEW apps \in Seq(OnlineAt(U)), NEW b, IsList(b.locations), UrlsOf(b) \subseteq U
    PROVE  NginxBlock(apps, b) \in Seq(OnlineAt(U))
<1>1. \A path \in Paths(b) : UrlAt(b, path) \in U
  BY DEF UrlsOf
<1>2. UrlAt(b, None) \in U
  BY DEF UrlsOf
<1>3. AddLocations(apps, b) \in Seq(OnlineAt(U))
  BY <1>1, AddLocationsIs
<1>4. AddOnce(apps, UrlAt(b, None)) \in Seq(OnlineAt(U))
  BY <1>2, AddOnceIs
<1>. QED
  BY <1>3, <1>4 DEF NginxBlock, UrlAt

\* The server blocks that the files read come down to, in their order.
ReadBlocks(files) ==
    FlattenSeq([f \in DOMAIN files |->
                   IF files[f].skipped THEN <<>> ELSE ResolveIncludes(files)[f]])

LEMMA ReadBlocksAre ==
    ASSUME NEW files, IsList(files), NginxAssumption(files)
    PROVE  /\ ReadBlocks(files) \in Seq(Own(files, DOMAIN files))
           /\ Elements(ReadBlocks(files)) = Own(files, Reached(files))
<1> DEFINE D == DOMAIN files
           n == Len(files)
           T == Own(files, D)
           blocks == ResolveIncludes(files)
           read == {f \in D : ~files[f].skipped}
           ss == [f \in D |-> IF files[f].skipped THEN <<>> ELSE blocks[f]]
<1>1. D = 1..n /\ n \in Nat /\ 0 \notin D
  BY ListIsSeq
<1>2. blocks \in [D -> Seq(T)] /\ Had(blocks, read) = Own(files, Reached(files))
  BY <1>1, HadIsReached
<1>3. ReadBlocks(files) = FlattenSeq(ss)
  BY DEF ReadBlocks
<1> HIDE DEF blocks, T
<1>4. ss \in [1..n -> Seq(T)]
  BY <1>1, <1>2
<1>5. ss \in Seq(Seq(T)) /\ Len(ss) = n
  <2>1. \A A : ss \in [1..n -> A] => ss \in Seq(A) /\ Len(ss) = n
    BY <1>1, SeqDef
  <2>. QED
    BY <1>4, <2>1
<1>6. \A f \in D : ss[f] = IF files[f].skipped THEN <<>> ELSE blocks[f]
  OBVIOUS
<1> HIDE DEF ss, n
<1>7. /\ FlattenSeq(ss) \in Seq(T)
      /\ Elements(FlattenSeq(ss)) = UNION {Elements(ss[i]) : i \in 1..n}
  <2>1. /\ FlattenSeq(ss) \in Seq(T)
        /\ Elements(FlattenSeq(ss)) = UNION {Elements(ss[i]) : i \in 1..Len(ss)}
    BY <1>5, FlattenIs
  <2>. QED
    BY <1>5, <2>1
<1>8. UNION {Elements(ss[i]) : i \in 1..n} = Had(blocks, read)
  <2>1. \A f \in read : f \in 1..n /\ ss[f] = blocks[f]
    BY <1>1, <1>6
  <2>2. ASSUME NEW f \in 1..n, f \notin read PROVE Elements(ss[f]) = {}
    <3>1. ss[f] = <<>>
      BY <1>1, <1>6, <2>2
    <3>. QED
      BY <3>1 DEF Elements
  <2>3. Had(blocks, read) = UNION {Elements(blocks[f]) : f \in read}
    BY DEF Had
  <2>4. {Elements(blocks[f]) : f \in read} = {Elements(ss[f]) : f \in read}
    BY <2>1
  <2> HIDE DEF read
  <2>5. UNION {Elements(ss[i]) : i \in 1..n} \subseteq UNION {Elements(ss[f]) : f \in read}
    BY <2>2
  <2>6. UNION {Elements(ss[f]) : f \in read} \subseteq UNION {Elements(ss[i]) : i \in 1..n}
    BY <2>1
  <2>. QED
    BY <2>3, <2>4, <2>5, <2>6
<1>. QED
  BY <1>2, <1>3, <1>7, <1>8 DEF T

\* NginxApps is the loop it is written as.
LEMMA NginxAppsLoop ==
    ASSUME NEW files, NEW T, NEW U, ReadBlocks(files) \in Seq(T),
           \A b \in T : IsList(b.locations) /\ UrlsOf(b) \subseteq U
    PROVE  LET read == ReadBlocks(files)
           IN  \E f \in [0..Len(read) -> Seq(OnlineAt(U))] :
                  /\ f[0] = <<>> /\ NginxApps(files) = f[Len(read)]
                  /\ \A i \in 1..Len(read) : f[i] = NginxBlock(f[i - 1], read[i])
<1> DEFINE read == ReadBlocks(files)
           N == Len(read)
           A == Seq(OnlineAt(U))
           base == <<>>
           step == [i \in 1..N |-> [x \in A |-> NginxBlock(x, read[i])]]
           IsLoop(f) == f = [n \in 0..N |-> IF n = 0 THEN base ELSE NginxBlock(f[n - 1], read[n])]
<1>1. N \in Nat /\ \A i \in 1..N : read[i] \in T
  BY LenProperties, ElementOfSeq
<1> HIDE DEF read, N
<1>2. base \in A /\ step \in [1..N -> [A -> A]]
  <2>1. base \in A
    OBVIOUS
  <2>2. ASSUME NEW i \in 1..N, NEW x \in A PROVE NginxBlock(x, read[i]) \in A
    <3>1. IsList(read[i].locations) /\ UrlsOf(read[i]) \subseteq U
      BY <1>1
    <3>. QED
      BY <3>1, NginxBlockIsList
  <2>. QED
    BY <2>1, <2>2
<1> HIDE DEF A
<1>3. PICK f \in Loops(A, N, base, step) : TRUE
  <2> HIDE DEF step, base
  <2>2. Loops(A, N, base, step) # {}
    BY <1>1, <1>2, LoopExists
  <2>. QED
    BY <2>2
<1>4. f \in [0..N -> A] /\ f[0] = base
  BY <1>3 DEF Loops
<1>5. ASSUME NEW i \in 1..N PROVE f[i] = NginxBlock(f[i - 1], read[i])
  <2>1. f[i] = step[i][f[i - 1]]
    BY <1>3 DEF Loops
  <2>2. f[i - 1] \in A
    <3>1. i - 1 \in 0..N
      BY <1>1
    <3>. QED
      BY <1>4, <3>1
  <2>. QED
    BY <2>1, <2>2
<1> HIDE DEF step, base
<1>6. IsLoop(f)
  <2>1. \A n \in 0..N : n = 0 \/ (n \in 1..N /\ n # 0)
    BY <1>1
  <2>2. \A n \in 0..N : f[n] = IF n = 0 THEN base ELSE NginxBlock(f[n - 1], read[n])
    BY <1>4, <1>5, <2>1
  <2>. QED
    BY <1>4, <2>2
<1>7. ASSUME NEW g, IsLoop(g) PROVE g[N] = f[N]
  <2>0. \A n \in 0..N : g[n] = IF n = 0 THEN base ELSE NginxBlock(g[n - 1], read[n])
    BY <1>7
  <2>1. g[0] = base /\ \A i \in 1..N : g[i] = NginxBlock(g[i - 1], read[i])
    <3>1. 0 \in 0..N /\ \A n \in 1..N : n \in 0..N /\ n # 0
      BY <1>1
    <3>. QED
      BY <2>0, <3>1
  <2>2. GoAlike(g, f, N)
    BY <1>4, <1>5, <2>1 DEF GoAlike
  <2>. QED
    BY <1>1, <2>2, EndAlike
<1>8. NginxApps(files) = f[N]
  <2>1. NginxApps(files) = (CHOOSE g : IsLoop(g))[N]
    BY DEF NginxApps, ReadBlocks, N, read, base
  <2> HIDE DEF IsLoop
  <2>. QED
    BY <1>6, <1>7, <2>1
<1>. QED
  BY <1>4, <1>5, <1>8 DEF A, N, base, read

\* The list of Nginx has the locations of the blocks reached, and hosts without any.
LEMMA NginxRight ==
    ASSUME input.source = "nginx", IsList(input.data), NginxAssumption(input.data),
           output = NginxApps(input.data)
    PROVE  ListIsRight
<1> DEFINE files == input.data
           T == Own(files, DOMAIN files)
           U == UNION {UrlsOf(b) : b \in T}
           read == ReadBlocks(files)
           N == Len(read)
<1>1. read \in Seq(T) /\ Elements(read) = Own(files, Reached(files))
  BY ReadBlocksAre
<1>2. \A b \in T : IsList(b.locations) /\ UrlsOf(b) \subseteq U
  <2> SUFFICES ASSUME NEW b \in T PROVE IsList(b.locations) /\ UrlsOf(b) \subseteq U
    OBVIOUS
  <2>1. PICK f \in DOMAIN files : b \in Elements(files[f].items) /\ b.kind = "server"
    BY DEF Own
  <2>2. files[f] \in Elements(files)
    BY DEF Elements
  <2>3. IsList(b.locations)
    BY <2>1, <2>2 DEF NginxAssumption
  <2> HIDE DEF T
  <2>. QED
    BY <2>3
<1> HIDE DEF T, U
<1>3. PICK f \in [0..N -> Seq(OnlineAt(U))] :
         /\ f[0] = <<>> /\ NginxApps(files) = f[N]
         /\ \A i \in 1..N : f[i] = NginxBlock(f[i - 1], read[i])
  BY <1>1, <1>2, NginxAppsLoop
<1>4. N \in Nat /\ DOMAIN read = 1..N /\ \A i \in 1..N : read[i] \in T
  BY <1>1, LenProperties, ElementOfSeq
<1> DEFINE First(n) == {read[i] : i \in 1..n}
           S == {n \in 0..N : Serves(f[n], First(n))}
<1> HIDE DEF read, N
<1>5. 0 \in S
  <2>1. 0 \in 0..N /\ First(0) = {}
    BY <1>4
  <2>2. Serves(<<>>, {})
    BY DEF Serves, Once, Named, UrlsIn, Elements
  <2>. QED
    BY <1>3, <2>1, <2>2
<1>6. ASSUME NEW m \in 0..N - 1, m \in S PROVE m + 1 \in S
  <2> DEFINE n == m + 1
  <2>1. n \in 1..N /\ n \in 0..N /\ n - 1 = m /\ m \in 0..N /\ 1..n = (1..m) \cup {n}
    BY <1>4
  <2> HIDE DEF n
  <2>2. f[m] \in Seq(OnlineAt(U)) /\ f[n] = NginxBlock(f[m], read[n])
    BY <1>3, <2>1
  <2>3. IsList(read[n].locations) /\ UrlsOf(read[n]) \subseteq U
    BY <1>2, <1>4, <2>1
  <2>4. Serves(f[m], First(m))
    BY <1>6
  <2>5. First(n) = First(m) \cup {read[n]}
    BY <2>1
  <2> HIDE DEF First
  <2>6. Serves(NginxBlock(f[m], read[n]), First(m) \cup {read[n]})
    BY <2>2, <2>3, <2>4, NginxBlockServes
  <2>. QED
    BY <2>1, <2>2, <2>5, <2>6 DEF n
<1>7. \A n \in 0..N : n \in S
  <2> HIDE DEF S
  <2>. QED
    BY <1>4, <1>5, <1>6, UpTo
<1>8. N \in 0..N
  BY <1>4
<1>9. Serves(f[N], First(N))
  BY <1>7, <1>8
<1>10. First(N) = Elements(read)
  BY <1>4 DEF Elements
<1>11. Serves(output, Own(files, Reached(files)))
  BY <1>1, <1>3, <1>9, <1>10
<1>12. NginxIsRight(files)
  <2> HIDE DEF files
  <2>1. output = NginxApps(files)
    BY DEF files
  <2>. QED
    BY <1>11, <2>1, ServesIsRight DEF Own
<1>. QED
  BY <1>12 DEF ListIsRight

-----------------------------------------------------------------------------
(* All sources.                                                             *)

\* Whatever is there to be found, the list published for it is right.
LEMMA ParsersAreRight ==
    ASSUME input \in Inputs, output \in Published
    PROVE  ListIsRight
<1>1. /\ input.source \in {"docker", "traefik", "npm", "nginx", "caddy"}
      /\ IF input.source = "caddy" THEN CaddyAssumption(input.data) ELSE IsList(input.data)
      /\ input.source = "traefik" => TraefikAssumption(input.data)
      /\ input.source = "nginx" => NginxAssumption(input.data)
  BY InputsAssumption
<1>2. CASE input.source = "docker"
  <2>1. output = DockerApps(input.data)
    BY <1>2 DEF Published
  <2>. QED
    BY <1>1, <1>2, <2>1, DockerRight
<1>3. CASE input.source = "traefik"
  <2>1. output = TraefikApps(input.data)
    BY <1>3 DEF Published
  <2>. QED
    BY <1>1, <1>3, <2>1, TraefikRight
<1>4. CASE input.source = "npm"
  <2>1. output = NpmApps(input.data)
    BY <1>4 DEF Published
  <2>. QED
    BY <1>1, <1>4, <2>1, NpmRight
<1>5. CASE input.source = "nginx"
  <2>1. output = NginxApps(input.data)
    BY <1>5 DEF Published
  <2>. QED
    BY <1>1, <1>5, <2>1, NginxRight
<1>6. CASE input.source = "caddy"
  <2>1. PICK w \in SetToSeqs(input.data) : output = CaddyApps(w)
    BY <1>6 DEF Published
  <2>. QED
    BY <1>1, <1>6, <2>1, CaddyRight
<1>. QED
  BY <1>1, <1>2, <1>3, <1>4, <1>5, <1>6
=============================================================================
