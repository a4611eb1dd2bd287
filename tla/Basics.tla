------------------------------- MODULE Basics -------------------------------
(***************************************************************************)
(* What the proofs have in common.  The index arithmetic of a ring: packet p *)
(* of the stream lives in slot p % n; the provers know \div and % only by    *)
(* their defining equation, which DivMod states.  Induction over the naturals *)
(* for a set, which needs no operator as a parameter.  And by it, what        *)
(* FlattenSeq, a recursive function, gives for one sequence more.            *)
(***************************************************************************)
EXTENDS Integers, SequencesExt, SequenceTheorems, WellFoundedInduction, TLAPS

(* Division with remainder by a positive number. *)
LEMMA DivMod ==
  ASSUME NEW n \in Nat \ {0}, NEW a \in Nat
  PROVE  /\ a = n * (a \div n) + (a % n)
         /\ a \div n \in Nat
         /\ a % n \in 0 .. n - 1
  BY SMT

(* A positive multiple of n is at least n. *)
LEMMA MultipleAtLeast ==
  ASSUME NEW n \in Nat \ {0}, NEW k \in Nat, k >= 1
  PROVE  n * k >= n /\ n * k \in Nat
  BY SMT

(* Two packets less than n apart are in different slots. *)
LEMMA ModInjective ==
  ASSUME NEW n \in Nat \ {0}, NEW a \in Nat, NEW b \in Nat, a < b, b - a < n
  PROVE  a % n # b % n
<1> SUFFICES ASSUME a % n = b % n PROVE FALSE
  OBVIOUS
<1> DEFINE p == a \div n
           q == b \div n
<1>1. /\ p \in Nat /\ q \in Nat
      /\ a = n * p + (a % n)
      /\ b = n * q + (b % n)
      /\ a % n \in 0 .. n - 1
  BY DivMod
<1> HIDE DEF p, q
<1>2. n * p \in Int /\ n * q \in Int
  BY <1>1, SMT
<1>3. n * (q - p) = n * q - n * p
  BY <1>1, SMT
<1>4. n * (q - p) = b - a
  BY <1>1, <1>2, <1>3, SMT
<1>5. q > p
  <2> SUFFICES ASSUME q <= p PROVE FALSE
    BY <1>1, SMT
  <2>1. n * q <= n * p
    BY <1>1, SMT
  <2> QED
    BY <2>1, <1>1, <1>2, SMT
<1>6. n * (q - p) >= n
  BY <1>5, <1>1, MultipleAtLeast, SMT
<1> QED
  BY <1>4, <1>6, SMT

(* Quotient and remainder are unique. *)
LEMMA DivisionUnique ==
  ASSUME NEW n \in Nat \ {0}, NEW p \in Int, NEW q \in Int,
         NEW r \in 0 .. n - 1, NEW s \in 0 .. n - 1, n * p + r = n * q + s
  PROVE  p = q /\ r = s
<1>0. n * p \in Int /\ n * q \in Int
  BY SMT
<1>1. CASE p = q
  BY <1>0, <1>1, SMT
<1>2. CASE p < q
  <2>1. n * (q - p) >= n
    BY <1>2, MultipleAtLeast, SMT
  <2>2. n * (q - p) = n * q - n * p
    BY SMT
  <2> QED
    BY <2>1, <2>2, <1>0, SMT
<1>3. CASE q < p
  <2>1. n * (p - q) >= n
    BY <1>3, MultipleAtLeast, SMT
  <2>2. n * (p - q) = n * p - n * q
    BY SMT
  <2> QED
    BY <2>1, <2>2, <1>0, SMT
<1> QED
  BY <1>1, <1>2, <1>3, SMT

(* So it is with quotients that are not negative. *)
LEMMA QuotientRemainder ==
  ASSUME NEW n \in Nat \ {0}, NEW p \in Nat, NEW q \in Nat,
         NEW r \in 0 .. n - 1, NEW s \in 0 .. n - 1, n * p + r = n * q + s
  PROVE  p = q /\ r = s
<1>1. p \in Int /\ q \in Int
  OBVIOUS
<1> QED
  BY <1>1, DivisionUnique

(* The next packet's slot is the next slot, or the first after the last. *)
LEMMA ModSuccessor ==
  ASSUME NEW n \in Nat \ {0}, NEW a \in Nat
  PROVE  (a + 1) % n = IF a % n = n - 1 THEN 0 ELSE (a % n) + 1
<1> DEFINE p == a \div n
           q == (a + 1) \div n
           r == a % n
           s == (a + 1) % n
<1>0. a + 1 \in Nat
  BY SMT
<1>1. p \in Nat /\ a = n * p + r /\ r \in 0 .. n - 1
  BY DivMod
<1>2. q \in Nat /\ a + 1 = n * q + s /\ s \in 0 .. n - 1
  BY <1>0, DivMod
<1> SUFFICES s = IF r = n - 1 THEN 0 ELSE r + 1
  OBVIOUS
<1> HIDE DEF p, q, r, s
<1>3. n * p \in Int /\ n * q \in Int
  BY <1>1, <1>2, SMT
<1>4. CASE r = n - 1
  <2> DEFINE p1 == p + 1
  <2>1. n * p1 = n * p + n
    BY <1>1, SMT
  <2>2. n * p1 + 0 = n * q + s
    BY <2>1, <1>1, <1>2, <1>3, <1>4, SMT
  <2>3. p1 \in Nat /\ 0 \in 0 .. n - 1
    BY <1>1, SMT
  <2> HIDE DEF p1
  <2>4. 0 = s
    BY <2>2, <2>3, <1>2, QuotientRemainder
  <2> QED
    BY <2>4, <1>4
<1>5. CASE r # n - 1
  <2> DEFINE r1 == r + 1
  <2>1. n * p + r1 = n * q + s
    BY <1>1, <1>2, <1>3, SMT
  <2>2. r1 \in 0 .. n - 1
    BY <1>1, <1>5, SMT
  <2> HIDE DEF r1
  <2>3. r1 = s
    BY <2>1, <2>2, <1>1, <1>2, QuotientRemainder
  <2> QED
    BY <2>3, <1>5 DEF r1
<1> QED
  BY <1>4, <1>5

(* Indices in the same slot have successors in the same slot. *)
LEMMA ModStep ==
  ASSUME NEW n \in Nat \ {0}, NEW a \in Nat, NEW b \in Nat, a % n = b % n
  PROVE  (a + 1) % n = (b + 1) % n
  BY ModSuccessor

(* Going on without a wrap. *)
LEMMA ModInside ==
  ASSUME NEW n \in Nat \ {0}, NEW a \in Nat, NEW h \in Nat, (a % n) + h < n
  PROVE  (a + h) % n = (a % n) + h
<1> DEFINE p == a \div n
           r == a % n
           q == (a + h) \div n
           s == (a + h) % n
           t == r + h
<1>1. p \in Nat /\ r \in 0 .. n - 1 /\ a = n * p + r
  BY DivMod
<1>2. a + h \in Nat
  OBVIOUS
<1>3. q \in Nat /\ s \in 0 .. n - 1 /\ a + h = n * q + s
  BY <1>2, DivMod
<1>4. t \in 0 .. n - 1
  BY <1>1
<1>5. n * p \in Int /\ n * q \in Int
  <2> HIDE DEF p, q
  <2> QED
    BY <1>1, <1>3, SMT
<1> HIDE DEF p, q, r, s
<1>6. n * p + t = n * q + s
  BY <1>1, <1>3, <1>5
<1> HIDE DEF t
<1>7. t = s
  BY <1>1, <1>3, <1>4, <1>6, QuotientRemainder
<1> QED
  BY <1>7 DEF t, r, s

(* An index inside the ring is its own slot; n itself is slot 0. *)
LEMMA ModSmall ==
  ASSUME NEW n \in Nat \ {0}
  PROVE  /\ \A a \in 0 .. n - 1 : a % n = a
         /\ n % n = 0
<1>1. ASSUME NEW a \in 0 .. n - 1 PROVE a % n = a
  <2> DEFINE p == a \div n
             r == a % n
  <2>1. a \in Nat
    BY SMT
  <2>2. p \in Nat /\ r \in 0 .. n - 1 /\ a = n * p + r
    BY <2>1, DivMod
  <2> HIDE DEF p, r
  <2>3. n * 0 = 0 /\ n * p \in Int /\ 0 \in Nat
    BY <2>2, SMT
  <2>4. n * p + r = n * 0 + a
    BY <2>1, <2>2, <2>3, SMT
  <2>5. r = a
    BY <2>2, <2>3, <2>4, QuotientRemainder
  <2> QED
    BY <2>5 DEF r
<1>2. n % n = 0
  <2>1. (n - 1) \in Nat /\ (n - 1) \in 0 .. n - 1 /\ (n - 1) + 1 = n
    BY SMT
  <2>2. (n - 1) % n = n - 1
    BY <2>1, <1>1
  <2> DEFINE m == n - 1
  <2>3. (m + 1) % n = 0
    BY <2>1, <2>2, ModSuccessor
  <2> QED
    BY <2>1, <2>3
<1> QED
  BY <1>1, <1>2

(* Multiples of n do not matter modulo n. *)
LEMMA ModMultiple ==
  ASSUME NEW n \in Nat \ {0}, NEW k \in Int, NEW a \in Int
  PROVE  (n * k + a) % n = a % n
<1> DEFINE b == n * k + a
           p == a \div n
           q == b \div n
           r == a % n
           s == b % n
<1>1. n * k \in Int /\ b \in Int
  BY SMT
<1>2. p \in Int /\ a = n * p + r /\ r \in 0 .. n - 1
  BY SMT
<1>3. q \in Int /\ b = n * q + s /\ s \in 0 .. n - 1
  <2> HIDE DEF b
  <2> QED
    BY <1>1, SMT
<1> HIDE DEF p, q, r, s
<1>4. n * (k + p) = n * k + n * p /\ n * p \in Int /\ k + p \in Int
  BY <1>2, SMT
<1>5. n * (k + p) + r = n * q + s
  <2> DEFINE x == n * k
             y == n * p
             z == n * q
             w == n * (k + p)
  <2>1. x \in Int /\ y \in Int /\ z \in Int /\ w = x + y /\ z + s = x + (y + r)
    BY <1>1, <1>2, <1>3, <1>4, SMT
  <2> HIDE DEF x, y, z, w
  <2>2. w + r = z + s
    BY <1>2, <1>3, <2>1
  <2> QED
    BY <2>2 DEF w, z
<1> DEFINE t == k + p
<1> HIDE DEF t
<1>6. t \in Int /\ n * t + r = n * q + s
  BY <1>4, <1>5 DEF t
<1>7. r = s
  BY <1>2, <1>3, <1>6, DivisionUnique
<1> QED
  BY <1>7 DEF r, s

(* A remainder may stand for its number in a factor. *)
LEMMA ModFactor ==
  ASSUME NEW n \in Nat \ {0}, NEW x \in Int, NEW y \in Int, NEW c \in Int
  PROVE  ((x % n) * y + c) % n = (x * y + c) % n
<1> DEFINE q == x \div n
           r == x % n
<1>1. q \in Int /\ r \in Int /\ x = n * q + r
  BY SMT
<1> HIDE DEF q, r
<1>2. x * y + c = n * (q * y) + (r * y + c) /\ q * y \in Int /\ r * y + c \in Int
  BY <1>1, SMT
<1> DEFINE k == q * y
           b == r * y + c
<1> HIDE DEF k, b
<1>3. (n * k + b) % n = b % n
  BY <1>2, ModMultiple DEF k, b
<1> QED
  BY <1>2, <1>3 DEF k, b, r

-----------------------------------------------------------------------------
(* Induction *)

(* A set of naturals that is not empty has a least member. *)
LEMMA Least ==
  ASSUME NEW T, T \subseteq Nat, T # {}
  PROVE  \E x \in T : \A y \in T : x <= y
<1> DEFINE R == OpToRel(<, Nat)
<1>1. \A x, y \in Nat : <<y, x>> \in R <=> y < x
  BY DEF OpToRel
<1>2. IsWellFoundedOn(R, Nat)
  BY NatLessThanWellFounded
<1> HIDE DEF R
<1>3. PICK x \in T : \A y \in T : ~ (<<y, x>> \in R)
  BY <1>2, WFMin
<1>4. ASSUME NEW y \in T PROVE x <= y
  <2>1. ~(y < x)
    BY <1>1, <1>3
  <2> QED
    BY <2>1
<1> QED
  BY <1>3, <1>4

(* A set that has 0, and n + 1 with every n, has every natural number. *)
LEMMA Induct ==
  ASSUME NEW S, 0 \in S, \A n \in Nat : n \in S => n + 1 \in S
  PROVE  Nat \subseteq S
<1> SUFFICES ASSUME Nat \ S # {} PROVE FALSE
  OBVIOUS
<1>1. PICK x \in Nat \ S : \A y \in Nat \ S : x <= y
  BY Least
<1>2. x # 0 /\ x - 1 \in Nat
  BY <1>1
<1>3. x - 1 \in S
  BY <1>1, <1>2
<1>4. (x - 1) + 1 = x
  BY <1>1
<1> QED
  BY <1>1, <1>2, <1>3, <1>4

(* A function by recursion from 0 to N: a is its first value, and G tells each of *)
(* the others by its argument and the value before it.                        *)
RecursiveBy(f, N, V, a, G) ==
  f \in [0 .. N -> V] /\ f[0] = a /\ \A n \in 1 .. N : f[n] = G[<<n, f[n - 1]>>]

(* There is one. *)
LEMMA RecursionExists ==
  ASSUME NEW N \in Nat, NEW V, NEW a \in V, NEW G \in [(1 .. N) \X V -> V]
  PROVE  \E f : RecursiveBy(f, N, V, a, G)
<1> DEFINE Upto(n) == \E f \in [0 .. n -> V] :
                        f[0] = a /\ \A k \in 1 .. n : f[k] = G[<<k, f[k - 1]>>]
           S == {n \in Nat : n <= N => Upto(n)}
<1>1. 0 \in S
  <2> DEFINE f == [k \in 0 .. 0 |-> a]
  <2>1. f \in [0 .. 0 -> V] /\ f[0] = a /\ \A k \in 1 .. 0 : FALSE
    OBVIOUS
  <2> QED
    BY <2>1
<1>2. ASSUME NEW n \in Nat, n \in S PROVE n + 1 \in S
  <2> SUFFICES ASSUME n + 1 <= N PROVE Upto(n + 1)
    OBVIOUS
  <2>1. PICK f \in [0 .. n -> V] :
          f[0] = a /\ \A k \in 1 .. n : f[k] = G[<<k, f[k - 1]>>]
    BY <1>2
  <2> DEFINE m == n + 1
             g == [k \in 0 .. m |-> IF k = m THEN G[<<m, f[n]>>] ELSE f[k]]
  <2>2. \A k \in 0 .. n : g[k] = f[k] /\ g[k] \in V
    BY <2>1
  <2>3. g[m] = G[<<m, f[n]>>] /\ g[m] \in V
    <3>1. m \in 1 .. N /\ f[n] \in V /\ m \in 0 .. m
      BY <2>1
    <3> HIDE DEF m
    <3> QED
      BY <3>1
  <2>4. g \in [0 .. m -> V]
    <3>1. \A k \in 0 .. m : g[k] \in V
      <4>1. \A k \in 0 .. m : k = m \/ k \in 0 .. n
        OBVIOUS
      <4> HIDE DEF g
      <4> QED
        BY <2>2, <2>3, <4>1
    <3>2. g = [k \in 0 .. m |-> g[k]]
      OBVIOUS
    <3> HIDE DEF g
    <3> QED
      BY <3>1, <3>2
  <2> HIDE DEF g
  <2>5. ASSUME NEW k \in 1 .. m PROVE g[k] = G[<<k, g[k - 1]>>]
    <3>1. CASE k = m
      <4>1. n \in 0 .. n /\ k - 1 = n
        BY <3>1
      <4> QED
        BY <2>2, <2>3, <3>1, <4>1
    <3>2. CASE k # m
      <4>1. k \in 1 .. n /\ k \in 0 .. n /\ k - 1 \in 0 .. n
        BY <3>2
      <4> QED
        BY <2>1, <2>2, <4>1
    <3> QED
      BY <3>1, <3>2
  <2>6. g[0] = a
    BY <2>1, <2>2
  <2> QED
    BY <2>4, <2>5, <2>6
<1> HIDE DEF S
<1>3. N \in S
  BY <1>1, <1>2, Induct
<1> HIDE DEF Upto
<1>4. Upto(N)
  BY <1>3 DEF S
<1> QED
  BY <1>4 DEF Upto, RecursiveBy

-----------------------------------------------------------------------------
(* Sequences put together *)

(* One round of the recursive function that FlattenSeq is defined by, for the     *)
(* first n sequences.                                                         *)
FlattenRounds(g, q, n) == [i \in 1 .. n |-> IF i = 1 THEN q[i] ELSE g[i - 1] \o q[i]]

(* The function exists. *)
LEMMA FlattenExists ==
  ASSUME NEW q, NEW N \in Nat
  PROVE  \E g : g = FlattenRounds(g, q, N)
<1> DEFINE S == {n \in Nat : \E g : g = FlattenRounds(g, q, n)}
<1>1. 0 \in S
  <2> DEFINE g == [i \in 1 .. 0 |-> 0]
  <2>1. g = FlattenRounds(g, q, 0)
    BY DEF FlattenRounds
  <2> QED
    BY <2>1
<1>2. ASSUME NEW n \in Nat, n \in S PROVE n + 1 \in S
  <2>1. PICK g : g = FlattenRounds(g, q, n)
    BY <1>2
  <2> DEFINE m == n + 1
             h == [i \in 1 .. m |-> IF i = 1 THEN q[i]
                                    ELSE IF i = m THEN g[n] \o q[m] ELSE g[i]]
  <2>2. ASSUME NEW i \in 1 .. m
        PROVE  h[i] = IF i = 1 THEN q[i] ELSE h[i - 1] \o q[i]
    <3>1. CASE i = 1
      BY <3>1
    <3>2. CASE i # 1 /\ i = m
      <4>1. h[n] = g[n] /\ i - 1 = n
        <5>1. n \in 1 .. m /\ n \in 1 .. n /\ n # m
          BY <3>2
        <5>2. n = 1 => g[n] = q[n]
          BY <2>1, <5>1 DEF FlattenRounds
        <5> QED
          BY <3>2, <5>1, <5>2
      <4>2. h[i] = g[n] \o q[i]
        BY <3>2
      <4> HIDE DEF h, m
      <4> QED
        BY <3>2, <4>1, <4>2
    <3>3. CASE i # 1 /\ i # m
      <4>1. i \in 1 .. n /\ i - 1 \in 1 .. n /\ i - 1 \in 1 .. m /\ i - 1 # m
        BY <3>3
      <4>2. g[i] = g[i - 1] \o q[i]
        BY <2>1, <3>3, <4>1 DEF FlattenRounds
      <4>3. i - 1 = 1 => g[i - 1] = q[i - 1]
        BY <2>1, <4>1 DEF FlattenRounds
      <4>4. h[i] = g[i] /\ h[i - 1] = g[i - 1]
        BY <3>3, <4>1, <4>3
      <4> HIDE DEF h, m
      <4> QED
        BY <3>3, <4>2, <4>4
    <3> QED
      BY <3>1, <3>2, <3>3
  <2>3. h = FlattenRounds(h, q, m)
    <3>1. h = [i \in 1 .. m |-> h[i]]
      OBVIOUS
    <3> HIDE DEF h
    <3> QED
      BY <2>2, <3>1 DEF FlattenRounds
  <2> QED
    BY <2>3
<1> HIDE DEF S
<1>3. Nat \subseteq S
  BY <1>1, <1>2, Induct
<1> QED
  BY <1>3 DEF S

(* What has been put together after each of the sequences. *)
LEMMA FlattenByRounds ==
  ASSUME NEW R, NEW q \in Seq(R), q # << >>
  PROVE  \E d : /\ d[1] = q[1]
                /\ \A n \in 1 .. Len(q) - 1 : d[n + 1] = d[n] \o q[n + 1]
                /\ FlattenSeq(q) = d[Len(q)]
<1> DEFINE N == Len(q)
           f == CHOOSE g : g = FlattenRounds(g, q, N)
<1>1. N \in Nat /\ N # 0
  OBVIOUS
<1>2. f = FlattenRounds(f, q, N)
  BY <1>1, FlattenExists
<1>3. FlattenSeq(q) = f[N]
  BY <1>1 DEF FlattenSeq, FlattenRounds
<1> HIDE DEF f
<1>4. f[1] = q[1]
  BY <1>1, <1>2 DEF FlattenRounds
<1>5. ASSUME NEW n \in 1 .. N - 1 PROVE f[n + 1] = f[n] \o q[n + 1]
  <2>1. n + 1 \in 1 .. N /\ n + 1 # 1 /\ (n + 1) - 1 = n
    BY <1>1
  <2> DEFINE m == n + 1
  <2> HIDE DEF m, N
  <2>2. f[m] = f[m - 1] \o q[m]
    BY <1>2, <2>1 DEF FlattenRounds, m
  <2> QED
    BY <2>1, <2>2 DEF m
<1> QED
  BY <1>3, <1>4, <1>5

(* One more sequence is put behind the others.                                 *)
LEMMA FlattenAppend ==
  ASSUME NEW T, NEW q \in Seq(Seq(T)), NEW t \in Seq(T)
  PROVE  FlattenSeq(q) \in Seq(T) /\ FlattenSeq(Append(q, t)) = FlattenSeq(q) \o t
<1> DEFINE N == Len(q)
           a == Append(q, t)
<1>1. /\ N \in Nat /\ Len(a) = N + 1 /\ a \in Seq(Seq(T)) /\ a # << >> /\ a[N + 1] = t
      /\ \A i \in 1 .. N : a[i] = q[i] /\ q[i] \in Seq(T)
  BY AppendProperties, ElementOfSeq
<1>2. PICK b : /\ b[1] = a[1]
               /\ \A n \in 1 .. N : b[n + 1] = b[n] \o a[n + 1]
               /\ FlattenSeq(a) = b[N + 1]
  <2> HIDE DEF N, a
  <2>1. (N + 1) - 1 = N
    BY <1>1
  <2> QED
    BY <1>1, <2>1, FlattenByRounds
<1>3. CASE q = << >>
  <2>1. FlattenSeq(q) = << >> /\ N = 0
    BY <1>3 DEF FlattenSeq
  <2>2. FlattenSeq(a) = t
    BY <1>1, <1>2, <2>1
  <2> HIDE DEF a
  <2> QED
    BY <2>1, <2>2 DEF a
<1>4. CASE q # << >>
  <2>1. PICK d : /\ d[1] = q[1]
                 /\ \A n \in 1 .. N - 1 : d[n + 1] = d[n] \o q[n + 1]
                 /\ FlattenSeq(q) = d[N]
    BY <1>4, FlattenByRounds
  <2> HIDE DEF a
  <2>2. N >= 1 /\ 1 \in 1 .. N
    BY <1>1, <1>4
  <2> DEFINE S == {n \in Nat : n + 1 <= N => b[n + 1] = d[n + 1] /\ d[n + 1] \in Seq(T)}
  <2>3. 0 \in S
    BY <1>1, <1>2, <2>1, <2>2
  <2>4. ASSUME NEW n \in Nat, n \in S PROVE n + 1 \in S
    <3> SUFFICES ASSUME n + 2 <= N PROVE b[n + 2] = d[n + 2] /\ d[n + 2] \in Seq(T)
      OBVIOUS
    <3> DEFINE m == n + 1
    <3>1. m \in 1 .. N - 1 /\ m \in 1 .. N /\ m + 1 \in 1 .. N /\ m + 1 = n + 2
      BY <1>1
    <3>2. b[m] = d[m] /\ d[m] \in Seq(T)
      BY <1>1, <2>4
    <3> HIDE DEF m
    <3>3. b[m + 1] = b[m] \o q[m + 1] /\ d[m + 1] = d[m] \o q[m + 1] /\ q[m + 1] \in Seq(T)
      BY <1>1, <1>2, <2>1, <3>1
    <3>4. b[m + 1] = d[m + 1] /\ d[m + 1] \in Seq(T)
      BY <3>2, <3>3, ConcatProperties
    <3> QED
      BY <3>1, <3>4
  <2> HIDE DEF S
  <2>5. Nat \subseteq S
    BY <2>3, <2>4, Induct
  <2>6. N - 1 \in S /\ (N - 1) + 1 = N
    BY <1>1, <2>2, <2>5
  <2>7. b[N] = d[N] /\ d[N] \in Seq(T)
    BY <1>1, <2>2, <2>6 DEF S
  <2>8. N \in 1 .. N
    BY <1>1, <2>2
  <2>9. b[N + 1] = b[N] \o t
    BY <1>1, <1>2, <2>8
  <2> QED
    BY <1>2, <2>1, <2>7, <2>9 DEF a
<1> QED
  BY <1>3, <1>4

(* Sequences put together are a sequence of their elements. *)
LEMMA FlattenTyped ==
  ASSUME NEW T, NEW q \in Seq(Seq(T))
  PROVE  FlattenSeq(q) \in Seq(T)
<1>1. << >> \in Seq(T)
  OBVIOUS
<1> QED
  BY <1>1, FlattenAppend

=============================================================================
