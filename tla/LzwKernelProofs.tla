-------------------------- MODULE LzwKernelProofs --------------------------
(***************************************************************************)
(* Proofs about the LZW kernel and its decoder, for every chunk, every hash   *)
(* and every size of the tables.                                             *)
(***************************************************************************)
EXTENDS LzwKernel, Basics, FiniteSetTheorems

-----------------------------------------------------------------------------
(* Powers of two, and bits *)

(* A product of a sum. *)
LEMMA Distributes ==
  ASSUME NEW a \in Nat, NEW b \in Nat, NEW c \in Nat
  PROVE  a * (b + c) = a * b + a * c /\ a * b \in Nat /\ a * c \in Nat
  BY SMT

(* The powers of two are what their recursive definition says. *)
LEMMA Powers ==
  /\ PowerOf2[0] = 1
  /\ \A n \in 1 .. CODE_LENGTH + BYTE_BITS : PowerOf2[n] = 2 * PowerOf2[n - 1]
  /\ \A n \in 0 .. CODE_LENGTH + BYTE_BITS : PowerOf2[n] \in Nat \ {0}
<1> DEFINE N == CODE_LENGTH + BYTE_BITS
           V == Nat \ {0}
           G == [x \in (1 .. N) \X V |-> 2 * x[2]]
<1>1. N \in Nat /\ 1 \in V
  BY CodeAssumption
<1>2. G \in [(1 .. N) \X V -> V]
  OBVIOUS
<1> HIDE DEF N
<1>3. PICK f : RecursiveBy(f, N, V, 1, G)
  <2> HIDE DEF G, V
  <2> QED
    BY <1>1, <1>2, RecursionExists
<1>4. /\ f \in [0 .. N -> V] /\ f[0] = 1
      /\ \A n \in 1 .. N : f[n] = G[<<n, f[n - 1]>>]
  BY <1>3 DEF RecursiveBy
<1>5. ASSUME NEW n \in 1 .. N PROVE f[n] = 2 * f[n - 1]
  <2>1. n - 1 \in 0 .. N
    BY <1>1
  <2>2. f[n - 1] \in V
    BY <1>4, <2>1
  <2> QED
    BY <1>4, <2>2
<1>6. f = [n \in 0 .. N |-> IF n = 0 THEN 1 ELSE 2 * f[n - 1]]
  <2>1. f = [n \in 0 .. N |-> f[n]]
    BY <1>4
  <2>2. \A n \in 0 .. N : f[n] = IF n = 0 THEN 1 ELSE 2 * f[n - 1]
    <3>1. \A n \in 0 .. N : n = 0 \/ n \in 1 .. N
      BY <1>1
    <3> QED
      BY <1>4, <1>5, <3>1
  <2> QED
    BY <2>1, <2>2
<1>7. PowerOf2 = [n \in 0 .. N |-> IF n = 0 THEN 1 ELSE 2 * PowerOf2[n - 1]]
  BY <1>6 DEF PowerOf2, N
<1> DEFINE S == {n \in Nat : n <= N => PowerOf2[n] \in V}
<1>8. ASSUME NEW n \in 1 .. N PROVE PowerOf2[n] = 2 * PowerOf2[n - 1]
  <2>1. n \in 0 .. N /\ n # 0
    BY <1>1
  <2> QED
    BY <1>7, <2>1
<1>9. PowerOf2[0] = 1
  <2>1. 0 \in 0 .. N
    BY <1>1
  <2> QED
    BY <1>7, <2>1
<1>10. 0 \in S
  BY <1>9
<1>11. ASSUME NEW n \in Nat, n \in S PROVE n + 1 \in S
  <2> SUFFICES ASSUME n + 1 <= N PROVE PowerOf2[n + 1] \in V
    OBVIOUS
  <2> DEFINE m == n + 1
  <2>1. m \in 1 .. N /\ m - 1 = n /\ PowerOf2[n] \in V
    BY <1>1, <1>11
  <2> HIDE DEF m
  <2>2. PowerOf2[m] = 2 * PowerOf2[n]
    BY <1>8, <2>1
  <2> QED
    BY <2>1, <2>2 DEF m
<1> HIDE DEF S
<1>12. Nat \subseteq S
  BY <1>10, <1>11, Induct
<1>13. \A n \in 0 .. N : PowerOf2[n] \in V
  BY <1>1, <1>12 DEF S
<1> QED
  BY <1>8, <1>9, <1>13 DEF N

(* Dividing twice. *)
LEMMA DivTwice ==
  ASSUME NEW n \in Nat, NEW a \in Nat \ {0}, NEW b \in Nat \ {0}
  PROVE  n \div (a * b) = (n \div a) \div b
<1> DEFINE q == n \div a
           r == n % a
           u == q \div b
           v == q % b
           c == a * b
           x == n \div c
           y == n % c
<1>1. q \in Nat /\ r \in 0 .. a - 1 /\ n = a * q + r
  BY DivMod
<1> HIDE DEF q, r
<1>2. u \in Nat /\ v \in 0 .. b - 1 /\ q = b * u + v
  BY <1>1, DivMod
<1> HIDE DEF u, v
<1>3. c \in Nat \ {0}
  BY SMT
<1>4. c * u = a * (b * u)
  BY <1>2, SMT
<1> HIDE DEF c
<1>5. x \in Nat /\ y \in 0 .. c - 1 /\ n = c * x + y
  BY <1>3, DivMod
<1> HIDE DEF x, y
<1> DEFINE z == a * v + r
<1>6. a * q = a * (b * u) + a * v
  BY <1>1, <1>2, SMT
<1>7. a * v <= a * (b - 1) /\ a * v \in Nat
  BY <1>2, SMT
<1>8. a * (b - 1) = c - a
  BY SMT DEF c
<1>9. z \in 0 .. c - 1
  BY <1>1, <1>3, <1>7, <1>8
<1>10. c * u \in Int /\ c * x \in Int
  BY <1>2, <1>3, <1>5, SMT
<1>11. n = c * u + z
  <2>1. a * q \in Int /\ a * (b * u) \in Int
    BY <1>1, <1>2, SMT
  <2> QED
    BY <1>1, <1>4, <1>6, <1>7, <1>10, <2>1
<1> HIDE DEF z
<1>12. u = x
  BY <1>2, <1>3, <1>5, <1>9, <1>11, QuotientRemainder
<1> QED
  BY <1>12 DEF x, u, q, c

(* Nothing is left of a number behind its bits. *)
LEMMA DivLess ==
  ASSUME NEW a \in Nat \ {0}, NEW n \in 0 .. a - 1
  PROVE  n \div a = 0
<1> DEFINE q == n \div a
           r == n % a
<1>0. n \in Nat
  OBVIOUS
<1>1. q \in Nat /\ r \in 0 .. a - 1 /\ n = a * q + r
  BY <1>0, DivMod
<1> HIDE DEF q, r
<1>2. a * 0 = 0 /\ a * q \in Int
  BY <1>1, SMT
<1>3. a * 0 + n = a * q + r
  BY <1>1, <1>2
<1>4. q = 0
  BY <1>1, <1>3, QuotientRemainder
<1> QED
  BY <1>4 DEF q

-----------------------------------------------------------------------------
(* Folds.  FoldLeft is a recursive function on the sets of indices; it exists,   *)
(* and on the sets of the first n indices it goes on element by element.        *)

(* Of a set of indices up to n + 1 that has n + 1, this is the last. *)
LEMMA MaxOfNext ==
  ASSUME NEW n \in Nat, NEW s \in SUBSET (1 .. n + 1), n + 1 \in s
  PROVE  Max(s) = n + 1
<1>1. \A y \in s : y \in Nat /\ n + 1 >= y
  OBVIOUS
<1>2. \A x \in s : (\A y \in s : x >= y) => x = n + 1
  BY <1>1
<1> QED
  BY <1>1, <1>2 DEF Max

(* The last of some indices is one of them. *)
LEMMA MaxInside ==
  ASSUME NEW N \in Nat, NEW s \in SUBSET (0 .. N), s # {}
  PROVE  Max(s) \in s
<1> DEFINE T == {N - x : x \in s}
<1>0. \A x \in s : x \in 0 .. N
  OBVIOUS
<1>1. T \subseteq Nat /\ T # {}
  <2>1. \A x \in s : N - x \in Nat
    BY <1>0
  <2>2. PICK x \in s : TRUE
    OBVIOUS
  <2>3. N - x \in T
    OBVIOUS
  <2>4. T \subseteq Nat
    BY <2>1, Zenon
  <2> QED
    BY <2>3, <2>4, Zenon
<1>2. PICK y \in T : \A z \in T : y <= z
  BY <1>1, Least
<1>3. PICK x \in s : y = N - x
  BY <1>2
<1>4. ASSUME NEW z \in s PROVE x >= z
  <2>1. x \in Nat /\ z \in Nat
    BY <1>0
  <2>2. y <= N - z
    BY <1>2, Zenon
  <2> QED
    BY <1>3, <2>1, <2>2
<1> QED
  BY <1>3, <1>4 DEF Max

(* So it is with indices from 1. *)
LEMMA MaxIndex ==
  ASSUME NEW N \in Nat, NEW s \in SUBSET (1 .. N), s # {}
  PROVE  Max(s) \in 1 .. N
<1>1. s \in SUBSET (0 .. N)
  OBVIOUS
<1> QED
  BY <1>1, MaxInside

(* A function on sets of indices, from its value for none and one more index.    *)
FoldBy(f, N, V, a, G) ==
  /\ f \in [SUBSET (1 .. N) -> V]
  /\ f[{}] = a
  /\ \A s \in SUBSET (1 .. N) : s # {} => f[s] = G[<<Max(s), f[s \ {Max(s)}]>>]

(* What is folded over 1 .. N one index at a time is there, for every N: the *)
(* definitions of FoldLeft's rounds have a solution.                         *)
LEMMA FoldExists ==
  ASSUME NEW N \in Nat, NEW V, NEW a \in V, NEW G \in [(1 .. N) \X V -> V]
  PROVE  \E f : FoldBy(f, N, V, a, G)
<1> DEFINE Upto(n) == \E f : FoldBy(f, n, V, a, G)
           S == {n \in Nat : n <= N => Upto(n)}
<1>1. 0 \in S
  <2> DEFINE f == [s \in SUBSET (1 .. 0) |-> a]
  <2>1. \A s \in SUBSET (1 .. 0) : s = {}
    OBVIOUS
  <2>2. FoldBy(f, 0, V, a, G)
    BY <2>1 DEF FoldBy
  <2> QED
    BY <2>2
<1>2. ASSUME NEW n \in Nat, n \in S PROVE n + 1 \in S
  <2> SUFFICES ASSUME n + 1 <= N PROVE Upto(n + 1)
    OBVIOUS
  <2>1. PICK f : FoldBy(f, n, V, a, G)
    BY <1>2
  <2> DEFINE m == n + 1
             h == [s \in SUBSET (1 .. m) |-> IF m \in s THEN G[<<m, f[s \ {m}]>>] ELSE f[s]]
  <2>2. m \in 1 .. N /\ \A s \in SUBSET (1 .. m) : s \ {m} \in SUBSET (1 .. n)
    OBVIOUS
  <2>3. ASSUME NEW s \in SUBSET (1 .. m)
        PROVE  h[s] \in V /\ (s # {} => h[s] = G[<<Max(s), h[s \ {Max(s)}]>>])
    <3>1. CASE m \in s
      <4>1. Max(s) = m
        BY <3>1, MaxOfNext
      <4>2. s \ {m} \in SUBSET (1 .. m) /\ m \notin s \ {m}
        OBVIOUS
      <4>3. h[s \ {m}] = f[s \ {m}]
        BY <4>2
      <4>4. h[s] = G[<<m, f[s \ {m}]>>]
        BY <3>1
      <4>5. f[s \ {m}] \in V
        BY <2>1, <2>2 DEF FoldBy
      <4>6. G[<<m, f[s \ {m}]>>] \in V
        <5> HIDE DEF m
        <5> QED
          BY <2>2, <4>5
      <4> HIDE DEF h, m
      <4> QED
        BY <4>1, <4>3, <4>4, <4>6
    <3>2. CASE m \notin s
      <4>1. s \in SUBSET (1 .. n)
        BY <3>2
      <4> DEFINE t == s \ {Max(s)}
      <4>2. h[s] = f[s] /\ h[t] = f[t]
        BY <3>2
      <4>3. f[s] \in V /\ (s # {} => f[s] = G[<<Max(s), f[t]>>])
        BY <2>1, <4>1 DEF FoldBy
      <4> HIDE DEF h, m
      <4> QED
        BY <4>2, <4>3
    <3> QED
      BY <3>1, <3>2
  <2>4. h[{}] = a
    <3>1. {} \in SUBSET (1 .. m) /\ m \notin {}
      OBVIOUS
    <3> QED
      BY <2>1, <3>1 DEF FoldBy
  <2>5. h \in [SUBSET (1 .. m) -> V]
    <3>1. h = [s \in SUBSET (1 .. m) |-> h[s]]
      OBVIOUS
    <3> HIDE DEF h, m
    <3> QED
      BY <2>3, <3>1
  <2>6. FoldBy(h, m, V, a, G)
    <3> HIDE DEF h, m
    <3> QED
      BY <2>3, <2>4, <2>5 DEF FoldBy
  <2> QED
    BY <2>6
<1> HIDE DEF S
<1>3. N \in S
  BY <1>1, <1>2, Induct
<1> QED
  BY <1>3 DEF S

(* The sets of the first indices. *)
LEMMA FirstIndices ==
  ASSUME NEW N \in Nat, NEW n \in 0 .. N - 1
  PROVE  /\ 1 .. n + 1 \in SUBSET (1 .. N) /\ 1 .. n + 1 # {}
         /\ Max(1 .. n + 1) = n + 1 /\ (1 .. n + 1) \ {n + 1} = 1 .. n
<1>1. n \in Nat /\ n + 1 \in 1 .. n + 1 /\ 1 .. n + 1 \in SUBSET (1 .. n + 1)
  OBVIOUS
<1>2. Max(1 .. n + 1) = n + 1
  BY <1>1, MaxOfNext
<1>3. \A x \in 1 .. n + 1 : x \in 1 .. N
  OBVIOUS
<1>4. (1 .. n + 1) \ {n + 1} = 1 .. n
  OBVIOUS
<1> QED
  BY <1>1, <1>2, <1>3, <1>4

-----------------------------------------------------------------------------
(* The hash *)

Bytes == 0 .. FIRST_CODE - 1
Words == Seq(Bytes) \ {<< >>}

HashRounds(g, s, n) ==
  [t \in SUBSET (1 .. n) |->
     IF t = {} THEN 0 ELSE XorByte((g[t \ {Max(t)}] * FNV_PRIME) % HASH_RANGE, s[Max(t)])]

(* A hash is a word. *)
LEMMA HashType ==
  ASSUME NEW s \in Seq(Bytes)
  PROVE  FNVHash(s) \in 0 .. HASH_RANGE - 1
<1> DEFINE N == Len(s)
           V == 0 .. HASH_RANGE - 1
           G == [x \in (1 .. N) \X V |-> XorByte((x[2] * FNV_PRIME) % HASH_RANGE, s[x[1]])]
<1>1. N \in Nat /\ DOMAIN s = 1 .. N /\ \A k \in 1 .. N : s[k] \in Bytes
  OBVIOUS
<1>2. ASSUME NEW v \in V, NEW b \in Bytes PROVE XorByte((v * FNV_PRIME) % HASH_RANGE, b) \in V
  <2>1. v * FNV_PRIME \in Int
    BY HashAssumption, SMT
  <2> DEFINE x == v * FNV_PRIME
  <2> HIDE DEF x
  <2>2. x % HASH_RANGE \in V
    BY <2>1, HashAssumption DEF x
  <2> QED
    BY <2>2, HashAssumption DEF x, Bytes
<1>3. G \in [(1 .. N) \X V -> V]
  <2> HIDE DEF N, V
  <2> QED
    BY <1>1, <1>2
<1>4. 0 \in V
  BY HashAssumption
<1>5. PICK f : FoldBy(f, N, V, 0, G)
  <2> HIDE DEF N, V, G
  <2> QED
    BY <1>1, <1>3, <1>4, FoldExists
<1>6. f = HashRounds(f, s, N)
  <2>1. f = [t \in SUBSET (1 .. N) |-> f[t]]
    BY <1>5 DEF FoldBy
  <2>2. ASSUME NEW t \in SUBSET (1 .. N)
        PROVE  f[t] = IF t = {} THEN 0
                      ELSE XorByte((f[t \ {Max(t)}] * FNV_PRIME) % HASH_RANGE, s[Max(t)])
    <3>1. CASE t = {}
      BY <1>5, <3>1 DEF FoldBy
    <3>2. CASE t # {}
      <4>1. Max(t) \in 1 .. N
        BY <1>1, <3>2, MaxIndex
      <4>2. t \ {Max(t)} \in SUBSET (1 .. N)
        OBVIOUS
      <4>3. f[t \ {Max(t)}] \in V /\ f[t] = G[<<Max(t), f[t \ {Max(t)}]>>]
        BY <1>5, <3>2, <4>2 DEF FoldBy
      <4> QED
        BY <3>2, <4>1, <4>3
    <3> QED
      BY <3>1, <3>2
  <2> QED
    BY <2>1, <2>2 DEF HashRounds
<1> DEFINE h == CHOOSE g : g = HashRounds(g, s, N)
<1>7. h = HashRounds(h, s, N)
  <2> HIDE DEF N
  <2> QED
    BY <1>6
<1>8. FNVHash(s) = h[1 .. N]
  BY <1>1 DEF FNVHash, FoldLeft, MapThenFoldSet, HashRounds
<1> HIDE DEF h
<1> DEFINE S == {n \in Nat : n <= N => h[1 .. n] \in V}
<1>9. 0 \in S
  <2>1. 1 .. 0 = {} /\ {} \in SUBSET (1 .. N)
    OBVIOUS
  <2>2. h[{}] = 0
    BY <1>7, <2>1 DEF HashRounds
  <2> QED
    BY <1>4, <2>1, <2>2
<1>10. ASSUME NEW n \in Nat, n \in S PROVE n + 1 \in S
  <2> SUFFICES ASSUME n + 1 <= N PROVE h[1 .. n + 1] \in V
    OBVIOUS
  <2> DEFINE m == n + 1
             t == 1 .. m
  <2>1. n \in 0 .. N - 1 /\ h[1 .. n] \in V /\ m \in 1 .. N
    BY <1>1, <1>10
  <2>2. t \in SUBSET (1 .. N) /\ t # {} /\ Max(t) = m /\ t \ {m} = 1 .. n
    <3> HIDE DEF N
    <3> QED
      BY <1>1, <2>1, FirstIndices
  <2> HIDE DEF t, m
  <2>3. h[t] = XorByte((h[t \ {Max(t)}] * FNV_PRIME) % HASH_RANGE, s[Max(t)])
    BY <1>7, <2>2 DEF HashRounds
  <2>4. h[t] \in V
    <3> HIDE DEF V, N
    <3> QED
      BY <1>1, <1>2, <2>1, <2>2, <2>3
  <2> QED
    BY <2>4 DEF t, m
<1> HIDE DEF S
<1>11. N \in S
  BY <1>1, <1>9, <1>10, Induct
<1> QED
  BY <1>1, <1>8, <1>11 DEF S

-----------------------------------------------------------------------------
(* bit_pack() *)

Bits     == 0 .. 1
ByteBits == {b \in Seq(Bits) : Len(b) = BYTE_BITS}
Packs    == [bytes : Seq(ByteBits), rest : {r \in Seq(Bits) : Len(r) < BYTE_BITS}]

(* Sizes as the provers need them. *)
LEMMA Sizes ==
  /\ BYTE_BITS \in Nat \ {0} /\ CODE_LENGTH \in Nat \ {0} /\ CODE_LENGTH > BYTE_BITS
  /\ FIRST_CODE \in Nat \ {0} /\ FIRST_CODE <= PowerOf2[CODE_LENGTH]
  /\ BYTE_BITS \in Int /\ CODE_LENGTH \in Int
  BY CodeAssumption

(* The bits of a number. *)
LEMMA BitsOfType ==
  ASSUME NEW n \in Int, NEW w \in 0 .. CODE_LENGTH + BYTE_BITS
  PROVE  /\ BitsOf(n, w) \in Seq(Bits) /\ Len(BitsOf(n, w)) = w
         /\ \A k \in 1 .. w : BitsOf(n, w)[k] = (n \div PowerOf2[w - k]) % 2
<1>1. w \in Nat /\ w <= CODE_LENGTH + BYTE_BITS
  BY Sizes
<1>2. ASSUME NEW k \in 1 .. w PROVE (n \div PowerOf2[w - k]) % 2 \in Bits
  <2>1. w - k \in 0 .. CODE_LENGTH + BYTE_BITS
    BY <1>1, Sizes
  <2>2. PowerOf2[w - k] \in Nat \ {0}
    BY <2>1, Powers
  <2> DEFINE a == PowerOf2[w - k]
             q == n \div a
  <2> HIDE DEF a
  <2>3. q \in Int
    BY <2>2 DEF a
  <2> HIDE DEF q
  <2>4. q % 2 \in 0 .. 1
    BY <2>3
  <2> QED
    BY <2>4 DEF q, a, Bits
<1> DEFINE f == [k \in 1 .. w |-> (n \div PowerOf2[w - k]) % 2]
<1>3. f \in Seq(Bits) /\ Len(f) = w
  <2>1. f \in [1 .. w -> Bits]
    BY <1>2
  <2> HIDE DEF f
  <2> QED
    BY <1>1, <2>1
<1> QED
  BY <1>3 DEF BitsOf

(* The bits left over, and behind them those of the code. *)
Data(b, c) ==
  LET w == Len(b.rest) + CODE_LENGTH IN
    [k \in 1 .. w |-> IF k <= Len(b.rest) THEN Max({BitsOf(c, w)[k], b.rest[k]})
                                          ELSE BitsOf(c, w)[k]]

Whole(b) == (Len(b.rest) + CODE_LENGTH) \div BYTE_BITS

(* The bits left over and those of a code are bits, as many as both          *)
(* together.                                                                 *)
LEMMA DataType ==
  ASSUME NEW b \in Packs, NEW c \in Int
  PROVE  /\ Len(b.rest) \in 0 .. BYTE_BITS - 1
         /\ Len(b.rest) + CODE_LENGTH \in 0 .. CODE_LENGTH + BYTE_BITS
         /\ Data(b, c) \in Seq(Bits) /\ Len(Data(b, c)) = Len(b.rest) + CODE_LENGTH
<1> DEFINE R == Len(b.rest)
           w == R + CODE_LENGTH
           s == BitsOf(c, w)
<1>1. b.rest \in Seq(Bits) /\ R \in 0 .. BYTE_BITS - 1
  BY Sizes DEF Packs
<1> HIDE DEF R
<1>2. w \in 0 .. CODE_LENGTH + BYTE_BITS /\ w \in Nat
  BY <1>1, Sizes
<1>3. s \in Seq(Bits) /\ Len(s) = w
  BY <1>2, BitsOfType
<1> HIDE DEF s, w
<1>4. ASSUME NEW x \in Bits, NEW y \in Bits PROVE Max({x, y}) \in Bits
  <2>1. {x, y} \in SUBSET (0 .. 1) /\ {x, y} # {} /\ 1 \in Nat
    BY DEF Bits
  <2>2. Max({x, y}) \in {x, y}
    BY <2>1, MaxInside
  <2> QED
    BY <2>2
<1>5. ASSUME NEW k \in 1 .. w
      PROVE  (IF k <= R THEN Max({s[k], b.rest[k]}) ELSE s[k]) \in Bits
  <2>1. s[k] \in Bits
    BY <1>2, <1>3
  <2>2. k <= R => b.rest[k] \in Bits
    BY <1>1, <1>2 DEF R
  <2> QED
    BY <1>4, <2>1, <2>2
<1> DEFINE f == [k \in 1 .. w |-> IF k <= R THEN Max({s[k], b.rest[k]}) ELSE s[k]]
<1>6. f \in [1 .. w -> Bits]
  BY <1>5
<1>7. Data(b, c) = f
  BY DEF Data, w, R, s
<1> HIDE DEF f
<1>8. f \in Seq(Bits) /\ Len(f) = w
  BY <1>2, <1>6
<1> QED
  BY <1>1, <1>2, <1>7, <1>8 DEF w, R

(* What one code adds. *)
LEMMA PackCodeIs ==
  ASSUME NEW b \in Packs, NEW c \in Int
  PROVE  PackCode(b, c) =
           [bytes |-> b.bytes \o [k \in 1 .. Whole(b) |->
                                    SubSeq(Data(b, c), (k - 1) * BYTE_BITS + 1, k * BYTE_BITS)],
            rest  |-> SubSeq(Data(b, c), Whole(b) * BYTE_BITS + 1, Len(b.rest) + CODE_LENGTH)]
<1> DEFINE w == Len(b.rest) + CODE_LENGTH
           s == BitsOf(c, w)
<1>1. w \in 0 .. CODE_LENGTH + BYTE_BITS
  BY DataType
<1>2. DOMAIN s = 1 .. w
  BY DEF BitsOf
<1>3. Data(b, c) = [k \in DOMAIN s |-> IF k <= Len(b.rest) THEN Max({s[k], b.rest[k]}) ELSE s[k]]
  BY <1>2 DEF Data
<1>4. Len(Data(b, c)) = w
  BY DataType
<1> HIDE DEF w, s
<1> QED
  BY <1>3, <1>4 DEF PackCode, Whole, w, s

(* The whole bytes of the data go out, what is behind them is left over. *)
PackedTo(b, c, d) ==
  /\ d \in Packs /\ Whole(b) \in Nat
  /\ Len(d.bytes) = Len(b.bytes) + Whole(b)
  /\ Len(d.rest) = (Len(b.rest) + CODE_LENGTH) - BYTE_BITS * Whole(b)
  /\ \A q \in 0 .. Len(b.bytes) - 1 : d.bytes[q + 1] = b.bytes[q + 1]
  /\ \A y \in 0 .. Whole(b) - 1, r \in 0 .. BYTE_BITS - 1 :
       d.bytes[Len(b.bytes) + y + 1][r + 1] = Data(b, c)[BYTE_BITS * y + r + 1]
  /\ \A k \in 1 .. Len(d.rest) : d.rest[k] = Data(b, c)[BYTE_BITS * Whole(b) + k]

(* PackCode() turns the leftover bits and a code into whole bytes and a new  *)
(* rest.                                                                     *)
LEMMA PackStep ==
  ASSUME NEW b \in Packs, NEW c \in Int
  PROVE  PackedTo(b, c, PackCode(b, c))
<1> DEFINE w == Len(b.rest) + CODE_LENGTH
           h == Whole(b)
           a == Data(b, c)
           n == Len(b.bytes)
           new == [k \in 1 .. h |-> SubSeq(a, (k - 1) * BYTE_BITS + 1, k * BYTE_BITS)]
           left == SubSeq(a, h * BYTE_BITS + 1, w)
<1>1. a \in Seq(Bits) /\ Len(a) = w /\ w \in Nat
  BY DataType
<1>2. h \in Nat /\ w = BYTE_BITS * h + (w % BYTE_BITS) /\ w % BYTE_BITS \in 0 .. BYTE_BITS - 1
  BY <1>1, Sizes, DivMod DEF Whole
<1>3. b.bytes \in Seq(ByteBits) /\ n \in Nat
  BY DEF Packs
<1>4. PackCode(b, c) = [bytes |-> b.bytes \o new, rest |-> left]
  BY PackCodeIs
<1> HIDE DEF w, h, a, n
<1>5. ASSUME NEW k \in 1 .. h
      PROVE  /\ (k - 1) * BYTE_BITS \in Nat /\ k * BYTE_BITS \in Nat
             /\ k * BYTE_BITS = (k - 1) * BYTE_BITS + BYTE_BITS
             /\ k * BYTE_BITS <= w
             /\ (k - 1) * BYTE_BITS = BYTE_BITS * (k - 1)
  <2>1. k - 1 \in Nat /\ h - k \in Nat
    BY <1>2
  <2>2. (k - 1) * BYTE_BITS \in Nat /\ (k - 1) * BYTE_BITS = BYTE_BITS * (k - 1)
    BY <2>1, Sizes, SMT
  <2>3. k * BYTE_BITS = (k - 1) * BYTE_BITS + BYTE_BITS
    BY Sizes, SMT
  <2>4. BYTE_BITS * h = k * BYTE_BITS + (h - k) * BYTE_BITS
    BY <1>2, Sizes, SMT
  <2>5. (h - k) * BYTE_BITS \in Nat
    BY <2>1, Sizes, SMT
  <2>6. k * BYTE_BITS \in Nat
    BY Sizes, SMT
  <2> DEFINE x == k * BYTE_BITS
             y == (h - k) * BYTE_BITS
             z == BYTE_BITS * h
  <2>7. x <= w
    <3>1. x \in Nat /\ y \in Nat /\ z = x + y /\ w = z + (w % BYTE_BITS) /\ w % BYTE_BITS \in Nat
      BY <1>2, <2>4, <2>5, <2>6, Sizes
    <3> HIDE DEF x, y, z
    <3> QED
      BY <3>1
  <2> QED
    BY <2>2, <2>3, <2>6, <2>7
<1>6. ASSUME NEW k \in 1 .. h
      PROVE  /\ new[k] \in ByteBits
             /\ \A r \in 0 .. BYTE_BITS - 1 : new[k][r + 1] = a[BYTE_BITS * (k - 1) + r + 1]
  <2> DEFINE x == (k - 1) * BYTE_BITS
             y == k * BYTE_BITS
             s == SubSeq(a, x + 1, y)
  <2>1. x \in Nat /\ y = x + BYTE_BITS /\ y <= w /\ x = BYTE_BITS * (k - 1)
    BY <1>5
  <2>2. new[k] = s
    OBVIOUS
  <2> HIDE DEF x, y
  <2>3. x + 1 \in 1 .. w + 1 /\ y \in x .. w
    BY <1>1, <2>1, Sizes
  <2>4. /\ s \in Seq(Bits) /\ Len(s) = BYTE_BITS
        /\ \A r \in 1 .. BYTE_BITS : s[r] = a[x + r]
    <3>1. s = [m \in 1 .. BYTE_BITS |-> a[x + m]]
      BY <1>1, <2>1, Sizes
    <3>2. \A m \in 1 .. BYTE_BITS : a[x + m] \in Bits
      BY <1>1, <2>1, Sizes
    <3> HIDE DEF s
    <3>3. s \in [1 .. BYTE_BITS -> Bits]
      BY <3>1, <3>2
    <3>4. s \in Seq(Bits) /\ Len(s) = BYTE_BITS
      BY <3>3, Sizes
    <3> QED
      BY <3>1, <3>4
  <2> HIDE DEF s, new
  <2>5. ASSUME NEW r \in 0 .. BYTE_BITS - 1 PROVE s[r + 1] = a[x + r + 1]
    <3>1. r + 1 \in 1 .. BYTE_BITS /\ x + (r + 1) = x + r + 1
      BY <2>1, Sizes
    <3> QED
      BY <2>4, <3>1
  <2> QED
    BY <2>1, <2>2, <2>4, <2>5 DEF ByteBits
<1>7. new \in Seq(ByteBits) /\ Len(new) = h
  <2>1. new \in [1 .. h -> ByteBits]
    <3>1. new = [k \in 1 .. h |-> new[k]]
      OBVIOUS
    <3> HIDE DEF new
    <3> QED
      BY <1>6, <3>1
  <2> HIDE DEF new
  <2> QED
    BY <1>2, <2>1
<1> DEFINE u == BYTE_BITS * h
<1>8. u \in Nat /\ h * BYTE_BITS = u /\ w - u \in 0 .. BYTE_BITS - 1 /\ u <= w
  <2>1. u \in Nat /\ h * BYTE_BITS = u
    BY <1>2, Sizes, SMT
  <2> HIDE DEF u
  <2> QED
    BY <1>1, <1>2, <2>1, Sizes DEF u
<1>9. left = SubSeq(a, u + 1, w)
  BY <1>8
<1> HIDE DEF left, u, new
<1>10. /\ left \in Seq(Bits) /\ Len(left) = w - u
       /\ \A k \in 1 .. Len(left) : left[k] = a[u + k]
  <2>1. left = [m \in 1 .. w - u |-> a[u + m]]
    BY <1>1, <1>8, <1>9
  <2>2. \A m \in 1 .. w - u : a[u + m] \in Bits
    BY <1>1, <1>8
  <2>3. left \in [1 .. w - u -> Bits]
    BY <2>1, <2>2
  <2>4. left \in Seq(Bits) /\ Len(left) = w - u
    BY <1>1, <1>8, <2>3
  <2> QED
    BY <2>1, <2>4
<1> DEFINE d == [bytes |-> b.bytes \o new, rest |-> left]
<1>11. /\ b.bytes \o new \in Seq(ByteBits) /\ Len(b.bytes \o new) = n + h
       /\ \A k \in 1 .. n : (b.bytes \o new)[k] = b.bytes[k]
       /\ \A k \in 1 .. h : (b.bytes \o new)[n + k] = new[k]
  <2>1. /\ b.bytes \o new \in Seq(ByteBits) /\ Len(b.bytes \o new) = n + h
        /\ \A k \in 1 .. n + h : (b.bytes \o new)[k] = IF k <= n THEN b.bytes[k] ELSE new[k - n]
    BY <1>3, <1>7, ConcatProperties DEF n
  <2>2. \A k \in 1 .. n : k \in 1 .. n + h /\ k <= n
    BY <1>2, <1>3
  <2>3. \A k \in 1 .. h : n + k \in 1 .. n + h /\ ~(n + k <= n) /\ (n + k) - n = k
    BY <1>2, <1>3
  <2> QED
    BY <2>1, <2>2, <2>3
<1>12. d \in Packs
  BY <1>1, <1>8, <1>10, <1>11, Sizes DEF Packs
<1>13. ASSUME NEW q \in 0 .. n - 1 PROVE (b.bytes \o new)[q + 1] = b.bytes[q + 1]
  <2>1. q + 1 \in 1 .. n
    BY <1>3
  <2> QED
    BY <1>11, <2>1
<1>14. ASSUME NEW y \in 0 .. h - 1, NEW r \in 0 .. BYTE_BITS - 1
       PROVE  (b.bytes \o new)[n + y + 1][r + 1] = a[BYTE_BITS * y + r + 1]
  <2> DEFINE k == y + 1
  <2>1. k \in 1 .. h /\ n + k = n + y + 1 /\ k - 1 = y
    BY <1>2, <1>3
  <2> HIDE DEF k
  <2>2. (b.bytes \o new)[n + k] = new[k]
    BY <1>11, <2>1
  <2>3. new[k][r + 1] = a[BYTE_BITS * (k - 1) + r + 1]
    BY <1>6, <2>1 DEF new
  <2> QED
    BY <2>1, <2>2, <2>3
<1> HIDE DEF d
<1>15. PackCode(b, c) = d /\ d.bytes = b.bytes \o new /\ d.rest = left
  BY <1>4 DEF d, new, left
<1>16. Len(left) = w - BYTE_BITS * h /\ \A k \in 1 .. Len(left) : left[k] = a[BYTE_BITS * h + k]
  BY <1>10 DEF u
<1>17. PackedTo(b, c, d)
  <2>1. Len(d.bytes) = n + h /\ Len(d.rest) = w - BYTE_BITS * h
    BY <1>11, <1>15, <1>16
  <2>2. \A q \in 0 .. n - 1 : d.bytes[q + 1] = b.bytes[q + 1]
    BY <1>13, <1>15
  <2>3. \A y \in 0 .. h - 1, r \in 0 .. BYTE_BITS - 1 :
          d.bytes[n + y + 1][r + 1] = a[BYTE_BITS * y + r + 1]
    BY <1>14, <1>15
  <2>4. \A k \in 1 .. Len(d.rest) : d.rest[k] = a[BYTE_BITS * h + k]
    BY <1>15, <1>16
  <2>5. d \in Packs /\ h \in Nat
    BY <1>2, <1>12, <1>15
  <2>6. /\ Len(d.bytes) = Len(b.bytes) + Whole(b)
        /\ Len(d.rest) = (Len(b.rest) + CODE_LENGTH) - BYTE_BITS * Whole(b)
    BY <2>1, Zenon DEF w, h, n
  <2>7. \A q \in 0 .. Len(b.bytes) - 1 : d.bytes[q + 1] = b.bytes[q + 1]
    BY <2>2 DEF n
  <2>8. \A y \in 0 .. Whole(b) - 1, r \in 0 .. BYTE_BITS - 1 :
          d.bytes[Len(b.bytes) + y + 1][r + 1] = Data(b, c)[BYTE_BITS * y + r + 1]
    BY <2>3 DEF h, n, a
  <2>9. \A k \in 1 .. Len(d.rest) : d.rest[k] = Data(b, c)[BYTE_BITS * Whole(b) + k]
    BY <2>4 DEF h, a
  <2> QED
    BY <2>5, <2>6, <2>7, <2>8, <2>9, Zenon DEF PackedTo, h
<1> QED
  BY <1>15, <1>17

(* Packing is a fold over the codes. *)
NoBits == [bytes |-> << >>, rest |-> << >>]

PackRounds(g, c, n) ==
  [t \in SUBSET (1 .. n) |->
     IF t = {} THEN NoBits ELSE PackCode(g[t \ {Max(t)}], c[Max(t)])]

(* Pack() as a function of the number of codes written, from its definition  *)
(* by a fold.                                                                *)
LEMMA PackByRounds ==
  ASSUME NEW c \in Seq(Int)
  PROVE  \E d : /\ d[0] = NoBits
                /\ \A n \in 0 .. Len(c) - 1 : d[n + 1] = PackCode(d[n], c[n + 1])
                /\ Pack(c) = d[Len(c)].bytes \o Padding(d[Len(c)].rest)
<1> DEFINE N == Len(c)
           G == [x \in (1 .. N) \X Packs |-> PackCode(x[2], c[x[1]])]
           h == CHOOSE g : g = PackRounds(g, c, N)
           d == [n \in 0 .. N |-> h[1 .. n]]
<1>1. N \in Nat /\ DOMAIN c = 1 .. N /\ \A k \in 1 .. N : c[k] \in Int
  OBVIOUS
<1>2. G \in [(1 .. N) \X Packs -> Packs]
  <2>1. \A b \in Packs, k \in 1 .. N : PackCode(b, c[k]) \in Packs
    BY <1>1, PackStep DEF PackedTo
  <2> HIDE DEF N
  <2> QED
    BY <2>1
<1>3. NoBits \in Packs
  BY Sizes DEF NoBits, Packs
<1>4. PICK f : FoldBy(f, N, Packs, NoBits, G)
  <2> HIDE DEF N, G
  <2> QED
    BY <1>1, <1>2, <1>3, FoldExists
<1>5. f = PackRounds(f, c, N)
  <2>1. f = [t \in SUBSET (1 .. N) |-> f[t]]
    BY <1>4 DEF FoldBy
  <2>2. ASSUME NEW t \in SUBSET (1 .. N)
        PROVE  f[t] = IF t = {} THEN NoBits ELSE PackCode(f[t \ {Max(t)}], c[Max(t)])
    <3>1. CASE t = {}
      BY <1>4, <3>1 DEF FoldBy
    <3>2. CASE t # {}
      <4>1. Max(t) \in 1 .. N
        BY <1>1, <3>2, MaxIndex
      <4>2. t \ {Max(t)} \in SUBSET (1 .. N)
        OBVIOUS
      <4>3. f[t \ {Max(t)}] \in Packs /\ f[t] = G[<<Max(t), f[t \ {Max(t)}]>>]
        BY <1>4, <3>2, <4>2 DEF FoldBy
      <4> QED
        BY <3>2, <4>1, <4>3
    <3> QED
      BY <3>1, <3>2
  <2> QED
    BY <2>1, <2>2 DEF PackRounds
<1>6. h = PackRounds(h, c, N)
  <2> HIDE DEF N
  <2> QED
    BY <1>5
<1>7. Pack(c) = h[1 .. N].bytes \o Padding(h[1 .. N].rest)
  BY <1>1 DEF Pack, FoldLeft, MapThenFoldSet, PackRounds, NoBits
<1> HIDE DEF h
<1>8. d[0] = NoBits
  <2>1. 1 .. 0 = {} /\ {} \in SUBSET (1 .. N)
    OBVIOUS
  <2>2. h[{}] = NoBits
    BY <1>6, <2>1 DEF PackRounds
  <2> QED
    BY <1>1, <2>1, <2>2
<1>9. ASSUME NEW n \in 0 .. N - 1 PROVE d[n + 1] = PackCode(d[n], c[n + 1])
  <2> DEFINE m == n + 1
             t == 1 .. m
  <2>1. t \in SUBSET (1 .. N) /\ t # {} /\ Max(t) = m /\ t \ {m} = 1 .. n
    <3> HIDE DEF N
    <3> QED
      BY <1>1, FirstIndices
  <2>2. d[m] = h[t] /\ d[n] = h[1 .. n]
    BY <1>1
  <2> HIDE DEF t, m, d
  <2>3. h[t] = PackCode(h[t \ {Max(t)}], c[Max(t)])
    BY <1>6, <2>1 DEF PackRounds
  <2> QED
    BY <2>1, <2>2, <2>3 DEF m
<1>10. d[N] = h[1 .. N]
  BY <1>1
<1> HIDE DEF d
<1> QED
  BY <1>7, <1>8, <1>9, <1>10

(* The bit at x of the codes, as if each were written with CODE_LENGTH bits. *)
StreamBit(c, x) == BitsOf(c[(x \div CODE_LENGTH) + 1], CODE_LENGTH)[(x % CODE_LENGTH) + 1]

(* The bits of the k-th code in the stream are those that BitsOf gives. *)
LEMMA StreamBitAt ==
  ASSUME NEW c, NEW k \in Nat, NEW j \in 1 .. CODE_LENGTH
  PROVE  StreamBit(c, CODE_LENGTH * k + (j - 1)) = BitsOf(c[k + 1], CODE_LENGTH)[j]
<1> DEFINE y == j - 1
           x == CODE_LENGTH * k + y
           q == x \div CODE_LENGTH
           r == x % CODE_LENGTH
<1>1. y \in 0 .. CODE_LENGTH - 1 /\ y + 1 = j
  BY Sizes
<1>2. x \in Nat
  <2>1. CODE_LENGTH * k \in Nat
    BY Sizes, SMT
  <2> QED
    BY <1>1, <2>1
<1> HIDE DEF x, y
<1>3. q \in Nat /\ r \in 0 .. CODE_LENGTH - 1 /\ x = CODE_LENGTH * q + r
  BY <1>2, Sizes, DivMod
<1> HIDE DEF q, r
<1>4. q = k /\ r = y
  <2>1. CODE_LENGTH * k + y = CODE_LENGTH * q + r
    BY <1>3 DEF x
  <2> QED
    BY <1>1, <1>3, <2>1, Sizes, QuotientRemainder
<1>5. StreamBit(c, x) = BitsOf(c[q + 1], CODE_LENGTH)[r + 1]
  BY DEF StreamBit, q, r
<1> QED
  BY <1>1, <1>4, <1>5 DEF x, y

(* No bits are lost: k codes have been written, in bytes and the rest. *)
CountsBits(d, k) == d \in Packs /\ BYTE_BITS * Len(d.bytes) + Len(d.rest) = CODE_LENGTH * k

(* A code more keeps the count of the bits. *)
LEMMA CountsNext ==
  ASSUME NEW k \in Nat, NEW d, CountsBits(d, k), NEW c \in Int
  PROVE  CountsBits(PackCode(d, c), k + 1)
<1> DEFINE e == PackCode(d, c)
<1>1. PackedTo(d, c, e)
  BY PackStep DEF CountsBits
<1> HIDE DEF e
<1>2. /\ e \in Packs /\ Len(e.bytes) = Len(d.bytes) + Whole(d)
      /\ Len(e.rest) = (Len(d.rest) + CODE_LENGTH) - BYTE_BITS * Whole(d) /\ Whole(d) \in Nat
  BY <1>1 DEF PackedTo
<1>3. Len(d.bytes) \in Nat /\ Len(d.rest) \in Nat
  BY DEF CountsBits, Packs
<1> DEFINE n == Len(d.bytes)
           w == Whole(d)
           x == BYTE_BITS * n
           y == BYTE_BITS * w
           z == CODE_LENGTH * k
<1>4. BYTE_BITS * (n + w) = x + y /\ x \in Nat /\ y \in Nat
  BY <1>2, <1>3, Sizes, SMT
<1>5. CODE_LENGTH * (k + 1) = z + CODE_LENGTH /\ z \in Nat
  BY Sizes, SMT
<1>6. x + Len(d.rest) = z
  BY DEF CountsBits
<1>7. Len(e.rest) = (Len(d.rest) + CODE_LENGTH) - y
  BY <1>2
<1> DEFINE a == Len(d.rest)
           b == Len(e.rest)
<1>8. (x + y) + b = z + CODE_LENGTH
  <2>1. /\ a \in Nat /\ x \in Nat /\ y \in Nat /\ z \in Nat
        /\ x + a = z /\ b = (a + CODE_LENGTH) - y
    BY <1>3, <1>4, <1>5, <1>6, <1>7
  <2> HIDE DEF x, y, z, a, b
  <2> QED
    BY <2>1, Sizes
<1> HIDE DEF x, y, z
<1> QED
  BY <1>2, <1>4, <1>5, <1>8 DEF CountsBits, e

(* A higher power of two is larger. *)
LEMMA PowerGrows ==
  ASSUME NEW m \in 0 .. BYTE_BITS
  PROVE  PowerOf2[CODE_LENGTH] <= PowerOf2[CODE_LENGTH + m]
<1> DEFINE S == {n \in Nat : n <= BYTE_BITS => PowerOf2[CODE_LENGTH] <= PowerOf2[CODE_LENGTH + n]}
<1>1. 0 \in S
  <2>1. CODE_LENGTH + 0 = CODE_LENGTH /\ CODE_LENGTH \in 0 .. CODE_LENGTH + BYTE_BITS
    BY Sizes
  <2>2. PowerOf2[CODE_LENGTH] \in Nat
    BY <2>1, Powers
  <2> QED
    BY <2>1, <2>2
<1>2. ASSUME NEW n \in Nat, n \in S PROVE n + 1 \in S
  <2> SUFFICES ASSUME n + 1 <= BYTE_BITS
               PROVE  PowerOf2[CODE_LENGTH] <= PowerOf2[CODE_LENGTH + (n + 1)]
    OBVIOUS
  <2> DEFINE a == CODE_LENGTH + n
             b == CODE_LENGTH + (n + 1)
  <2>1. /\ b \in 1 .. CODE_LENGTH + BYTE_BITS /\ b - 1 = a /\ n <= BYTE_BITS
        /\ a \in 0 .. CODE_LENGTH + BYTE_BITS /\ CODE_LENGTH \in 0 .. CODE_LENGTH + BYTE_BITS
    BY Sizes
  <2>2. PowerOf2[CODE_LENGTH] <= PowerOf2[a]
    BY <1>2, <2>1
  <2> HIDE DEF a, b
  <2>3. PowerOf2[b] = 2 * PowerOf2[a] /\ PowerOf2[a] \in Nat /\ PowerOf2[CODE_LENGTH] \in Nat
    BY <2>1, Powers
  <2>4. PowerOf2[CODE_LENGTH] <= PowerOf2[b]
    BY <2>2, <2>3
  <2> QED
    BY <2>4 DEF b
<1>3. m \in Nat
  BY Sizes
<1> HIDE DEF S
<1>4. m \in S
  BY <1>1, <1>2, <1>3, Induct
<1> QED
  BY <1>3, <1>4, Sizes DEF S

(* A zero or-ed with a bit is the bit. *)
LEMMA MaxOfBits ==
  ASSUME NEW x \in Bits
  PROVE  Max({0, x}) = x
<1>1. {0, x} \in SUBSET (0 .. 1) /\ {0, x} # {} /\ 1 \in Nat
  BY DEF Bits
<1>2. Max({0, x}) \in {0, x}
  BY <1>1, MaxInside
<1>3. CASE x = 0
  BY <1>2, <1>3
<1>4. CASE x = 1
  <2>1. \A y \in {0, x} : 1 >= y
    BY <1>4
  <2>2. \A z \in {0, x} : (\A y \in {0, x} : z >= y) => z = 1
    BY <1>4
  <2>3. Max({0, x}) = 1
    BY <1>4, <2>1, <2>2 DEF Max
  <2> QED
    BY <1>4, <2>3
<1> QED
  BY <1>3, <1>4 DEF Bits

CodeRange == 0 .. PowerOf2[CODE_LENGTH] - 1

(* A code written with more than CODE_LENGTH bits starts with zeros. *)
LEMMA LeadingZeros ==
  ASSUME NEW n \in CodeRange, NEW R \in 0 .. BYTE_BITS, NEW k \in 1 .. R + CODE_LENGTH
  PROVE  BitsOf(n, R + CODE_LENGTH)[k] = IF k <= R THEN 0 ELSE BitsOf(n, CODE_LENGTH)[k - R]
<1> DEFINE w == R + CODE_LENGTH
<1>1. /\ w \in 0 .. CODE_LENGTH + BYTE_BITS /\ R \in Nat /\ k \in 1 .. w /\ w \in Nat
      /\ CODE_LENGTH \in 0 .. CODE_LENGTH + BYTE_BITS
  BY Sizes
<1>2. PowerOf2[CODE_LENGTH] \in Nat \ {0} /\ n \in Int /\ n \in Nat /\ n < PowerOf2[CODE_LENGTH]
  <2>1. PowerOf2[CODE_LENGTH] \in Nat \ {0}
    BY <1>1, Powers
  <2> QED
    BY <2>1 DEF CodeRange
<1>3. BitsOf(n, w)[k] = (n \div PowerOf2[w - k]) % 2
  BY <1>1, <1>2, BitsOfType
<1>4. CASE k <= R
  <2> DEFINE m == R - k
             a == PowerOf2[w - k]
  <2>1. m \in 0 .. BYTE_BITS /\ w - k = CODE_LENGTH + m /\ w - k \in 0 .. CODE_LENGTH + BYTE_BITS
    BY <1>1, <1>4, Sizes
  <2>2. a \in Nat \ {0}
    BY <2>1, Powers
  <2>3. PowerOf2[CODE_LENGTH] <= a
    <3> HIDE DEF m, w
    <3> QED
      BY <2>1, PowerGrows
  <2> HIDE DEF a, m
  <2>4. n \in 0 .. a - 1
    BY <1>2, <2>2, <2>3
  <2>5. n \div a = 0
    BY <2>2, <2>4, DivLess
  <2> QED
    BY <1>3, <1>4, <2>5 DEF a, w
<1>5. CASE ~(k <= R)
  <2> DEFINE j == k - R
  <2>1. j \in 1 .. CODE_LENGTH /\ CODE_LENGTH - j = w - k
    BY <1>1, <1>5, Sizes
  <2> HIDE DEF j, w
  <2>2. BitsOf(n, CODE_LENGTH)[j] = (n \div PowerOf2[CODE_LENGTH - j]) % 2
    BY <1>1, <1>2, <2>1, BitsOfType
  <2>3. BitsOf(n, CODE_LENGTH)[j] = BitsOf(n, w)[k]
    BY <1>3, <2>1, <2>2
  <2> QED
    BY <1>5, <2>3 DEF j, w
<1> QED
  BY <1>4, <1>5

(* What has been written are the codes' bits, in order. *)
SaysBits(c, d) ==
  /\ \A q \in 0 .. Len(d.bytes) - 1, r \in 0 .. BYTE_BITS - 1 :
       d.bytes[q + 1][r + 1] = StreamBit(c, BYTE_BITS * q + r)
  /\ \A k \in 1 .. Len(d.rest) : d.rest[k] = StreamBit(c, BYTE_BITS * Len(d.bytes) + (k - 1))

(* The bits that are made into bytes with a code are those of the stream. *)
LEMMA DataSays ==
  ASSUME NEW k \in Nat, NEW c, c[k + 1] \in CodeRange,
         NEW d, CountsBits(d, k), SaysBits(c, d), NEW j \in 1 .. Len(d.rest) + CODE_LENGTH
  PROVE  Data(d, c[k + 1])[j] = StreamBit(c, BYTE_BITS * Len(d.bytes) + (j - 1))
<1> DEFINE n == c[k + 1]
           R == Len(d.rest)
           w == R + CODE_LENGTH
           s == BitsOf(n, w)
<1>1. /\ d \in Packs /\ R \in 0 .. BYTE_BITS /\ R \in Nat /\ d.rest \in Seq(Bits)
      /\ Len(d.bytes) \in Nat
  BY Sizes DEF CountsBits, Packs
<1>2. n \in CodeRange
  OBVIOUS
<1>3. s[j] = IF j <= R THEN 0 ELSE BitsOf(n, CODE_LENGTH)[j - R]
  <2> HIDE DEF n, R
  <2> QED
    BY <1>1, <1>2, LeadingZeros DEF R
<1>4. Data(d, n)[j] = IF j <= R THEN Max({s[j], d.rest[j]}) ELSE s[j]
  BY DEF Data
<1>5. CASE j <= R
  <2>1. j \in 1 .. R
    BY <1>1, <1>5, Sizes
  <2>2. d.rest[j] \in Bits
    BY <1>1, <2>1
  <2>3. Data(d, n)[j] = d.rest[j]
    BY <1>3, <1>4, <1>5, <2>2, MaxOfBits
  <2> QED
    BY <2>1, <2>3 DEF SaysBits
<1>6. CASE ~(j <= R)
  <2> DEFINE m == j - R
             x == BYTE_BITS * Len(d.bytes)
             z == CODE_LENGTH * k
  <2>1. m \in 1 .. CODE_LENGTH
    BY <1>1, <1>6, Sizes
  <2>2. x + (j - 1) = z + (m - 1)
    <3>1. x \in Nat /\ x + R = z
      <4>1. x \in Nat
        BY <1>1, Sizes, SMT
      <4> QED
        BY <4>1 DEF CountsBits
    <3> HIDE DEF x, z, R
    <3> QED
      BY <1>1, <3>1, Sizes
  <2> HIDE DEF m
  <2>3. StreamBit(c, CODE_LENGTH * k + (m - 1)) = BitsOf(n, CODE_LENGTH)[m]
    BY <2>1, StreamBitAt
  <2> QED
    BY <1>3, <1>4, <1>6, <2>2, <2>3 DEF m
<1> QED
  BY <1>5, <1>6

(* A code more leaves what has been written the bits of the stream. *)
LEMMA SaysNext ==
  ASSUME NEW k \in Nat, NEW c, c[k + 1] \in CodeRange,
         NEW d, CountsBits(d, k), SaysBits(c, d)
  PROVE  SaysBits(c, PackCode(d, c[k + 1]))
<1> DEFINE a == Data(d, c[k + 1])
           e == PackCode(d, c[k + 1])
           n == Len(d.bytes)
           h == Whole(d)
           R == Len(d.rest)
<1>0. c[k + 1] \in Int /\ d \in Packs
  <2>1. PowerOf2[CODE_LENGTH] \in Nat
    <3>1. CODE_LENGTH \in 0 .. CODE_LENGTH + BYTE_BITS
      BY Sizes
    <3> QED
      BY <3>1, Powers
  <2> QED
    BY <2>1 DEF CountsBits, CodeRange
<1>1. PackedTo(d, c[k + 1], e)
  BY <1>0, PackStep
<1>2. \A j \in 1 .. R + CODE_LENGTH : a[j] = StreamBit(c, BYTE_BITS * n + (j - 1))
  BY DataSays
<1>3. /\ n \in Nat /\ h \in Nat /\ R \in Nat /\ e \in Packs
      /\ Len(e.bytes) = n + h /\ Len(e.rest) = (R + CODE_LENGTH) - BYTE_BITS * h
      /\ Len(e.rest) \in Nat
  <2>1. e \in Packs
    BY <1>1 DEF PackedTo
  <2> QED
    BY <1>0, <1>1, <2>1 DEF Packs, PackedTo
<1>4. /\ \A q \in 0 .. n - 1 : e.bytes[q + 1] = d.bytes[q + 1]
      /\ \A y \in 0 .. h - 1, r \in 0 .. BYTE_BITS - 1 :
           e.bytes[n + y + 1][r + 1] = a[BYTE_BITS * y + r + 1]
      /\ \A j \in 1 .. Len(e.rest) : e.rest[j] = a[BYTE_BITS * h + j]
  BY <1>1 DEF PackedTo
<1> HIDE DEF a, e, h
<1> DEFINE u == BYTE_BITS * n
           v == BYTE_BITS * h
<1>5. u \in Nat /\ v \in Nat /\ v <= R + CODE_LENGTH /\ Len(e.rest) = (R + CODE_LENGTH) - v
  <2> DEFINE l == Len(e.rest)
  <2>1. u \in Nat /\ v \in Nat
    <3> HIDE DEF n
    <3> QED
      BY <1>3, Sizes, Distributes
  <2>2. l = (R + CODE_LENGTH) - v /\ l \in Nat /\ R \in Nat
    BY <1>3
  <2> HIDE DEF v, R, l
  <2>3. v <= R + CODE_LENGTH
    BY <2>1, <2>2, Sizes
  <2> QED
    BY <2>1, <2>2, <2>3 DEF l
<1>6. ASSUME NEW q \in 0 .. Len(e.bytes) - 1, NEW r \in 0 .. BYTE_BITS - 1
      PROVE  e.bytes[q + 1][r + 1] = StreamBit(c, BYTE_BITS * q + r)
  <2>1. CASE q < n
    <3>1. q \in 0 .. n - 1
      BY <1>3, <2>1
    <3> QED
      BY <1>4, <3>1 DEF SaysBits
  <2>2. CASE ~(q < n)
    <3> DEFINE y == q - n
               x == BYTE_BITS * y
               t == (h - 1) - y
    <3>1. y \in 0 .. h - 1 /\ q + 1 = n + y + 1 /\ q = n + y /\ t \in Nat /\ h = y + (1 + t)
      <4> DEFINE l == Len(e.bytes)
      <4>1. n \in Nat /\ h \in Nat /\ l = n + h /\ q \in 0 .. l - 1
        BY <1>3
      <4> HIDE DEF n, l
      <4> QED
        BY <2>2, <4>1
    <3> HIDE DEF y, t
    <3>2. e.bytes[q + 1][r + 1] = a[x + r + 1]
      BY <1>4, <3>1
    <3> DEFINE z == BYTE_BITS * t
    <3>3. x \in Nat /\ z \in Nat /\ v = x + (BYTE_BITS + z)
      <4>1. y \in Nat
        BY <1>3, <3>1
      <4>2. BYTE_BITS * (y + (1 + t)) = BYTE_BITS * y + BYTE_BITS * (1 + t) /\ x \in Nat
        BY <3>1, <4>1, Sizes, Distributes
      <4>3. BYTE_BITS * (1 + t) = BYTE_BITS * 1 + BYTE_BITS * t /\ z \in Nat
        BY <3>1, Sizes, Distributes
      <4>4. BYTE_BITS * 1 = BYTE_BITS
        BY Sizes
      <4> QED
        BY <3>1, <4>2, <4>3, <4>4
    <3>4. x + r + 1 \in 1 .. R + CODE_LENGTH
      <4> HIDE DEF x, v, z, R
      <4> QED
        BY <1>3, <1>5, <3>3, Sizes
    <3>5. BYTE_BITS * q = u + x
      <4>1. y \in Nat
        BY <1>3, <3>1
      <4>2. BYTE_BITS * (n + y) = BYTE_BITS * n + BYTE_BITS * y
        <5> HIDE DEF n
        <5> QED
          BY <1>3, <4>1, Sizes, Distributes
      <4> QED
        BY <3>1, <4>2
    <3> DEFINE j == x + r + 1
    <3>6. u + (j - 1) = (u + x) + r
      <4> HIDE DEF x, u
      <4> QED
        BY <1>5, <3>3, Sizes
    <3>7. a[j] = StreamBit(c, u + (j - 1))
      <4> HIDE DEF j
      <4> QED
        BY <1>2, <3>4 DEF j
    <3> QED
      BY <3>2, <3>5, <3>6, <3>7
  <2> QED
    BY <2>1, <2>2
<1>7. ASSUME NEW m \in 1 .. Len(e.rest)
      PROVE  e.rest[m] = StreamBit(c, BYTE_BITS * Len(e.bytes) + (m - 1))
  <2> DEFINE j == v + m
             l == Len(e.rest)
  <2>1. j \in 1 .. R + CODE_LENGTH
    <3>1. m \in 1 .. l /\ l \in Nat /\ l = (R + CODE_LENGTH) - v
      BY <1>3, <1>5
    <3> HIDE DEF v, R, l
    <3> QED
      BY <1>3, <1>5, <3>1, Sizes
  <2>2. e.rest[m] = a[j]
    BY <1>4
  <2>3. BYTE_BITS * Len(e.bytes) = u + v
    <3>1. BYTE_BITS * (n + h) = u + v
      <4> HIDE DEF n
      <4> QED
        BY <1>3, Sizes, Distributes
    <3> QED
      BY <1>3, <3>1
  <2>4. u + (j - 1) = (u + v) + (m - 1)
    <3> HIDE DEF u, v
    <3> QED
      BY <1>3, <1>5
  <2>5. a[j] = StreamBit(c, u + (j - 1))
    <3> HIDE DEF j
    <3> QED
      BY <1>2, <2>1
  <2> QED
    BY <2>2, <2>3, <2>4, <2>5
<1> QED
  BY <1>6, <1>7 DEF SaysBits, e

(* The last, incomplete byte: there is none when nothing is left over. *)
LEMMA PaddingType ==
  ASSUME NEW r \in Seq(Bits), Len(r) < BYTE_BITS
  PROVE  /\ Padding(r) \in Seq(ByteBits)
         /\ Len(Padding(r)) = IF Len(r) = 0 THEN 0 ELSE 1
         /\ \A k \in 1 .. Len(r) : Padding(r)[1][k] = r[k]
<1>1. CASE r = << >>
  BY <1>1 DEF Padding
<1>2. CASE r # << >>
  <2> DEFINE n == Len(r)
             z == [k \in 1 .. BYTE_BITS - n |-> 0]
             b == r \o z
  <2>1. n \in Nat /\ BYTE_BITS - n \in Nat /\ n # 0
    BY <1>2, Sizes
  <2>2. z \in Seq(Bits) /\ Len(z) = BYTE_BITS - n
    <3> HIDE DEF n
    <3>1. z \in [1 .. BYTE_BITS - n -> Bits]
      BY DEF Bits
    <3> HIDE DEF z
    <3> QED
      BY <2>1, <3>1
  <2> HIDE DEF z
  <2>3. b \in Seq(Bits) /\ Len(b) = BYTE_BITS /\ \A k \in 1 .. n : b[k] = r[k]
    <3>1. /\ b \in Seq(Bits) /\ Len(b) = Len(r) + Len(z)
          /\ \A k \in 1 .. Len(r) + Len(z) : b[k] = IF k <= Len(r) THEN r[k] ELSE z[k - Len(r)]
      BY <2>2, ConcatProperties
    <3>2. Len(r) + Len(z) = BYTE_BITS
      <4> HIDE DEF n
      <4>1. Len(r) = n
        BY DEF n
      <4> QED
        BY <2>1, <2>2, <4>1, Sizes
    <3>3. \A k \in 1 .. n : k \in 1 .. BYTE_BITS /\ k <= n
      <4> HIDE DEF n
      <4> QED
        BY <2>1, Sizes
    <3> QED
      BY <3>1, <3>2, <3>3
  <2> HIDE DEF b
  <2>4. Padding(r) = <<b>>
    BY <1>2 DEF Padding, b, z
  <2>5. b \in ByteBits
    BY <2>3 DEF ByteBits
  <2> QED
    BY <2>1, <2>3, <2>4, <2>5
<1> QED
  BY <1>1, <1>2

(* After all codes no bit is lost, and if each has a code's bits, all are there. *)
LEMMA PackRuns ==
  ASSUME NEW c \in Seq(Int)
  PROVE  \E b : /\ CountsBits(b, Len(c))
                /\ Pack(c) = b.bytes \o Padding(b.rest)
                /\ c \in Seq(CodeRange) => SaysBits(c, b)
<1> DEFINE N == Len(c)
<1>1. PICK d : /\ d[0] = NoBits
               /\ \A n \in 0 .. N - 1 : d[n + 1] = PackCode(d[n], c[n + 1])
               /\ Pack(c) = d[N].bytes \o Padding(d[N].rest)
  BY PackByRounds
<1>2. N \in Nat /\ \A k \in 1 .. N : c[k] \in Int
  OBVIOUS
<1> DEFINE Good(n) == CountsBits(d[n], n) /\ (c \in Seq(CodeRange) => SaysBits(c, d[n]))
           S == {n \in Nat : n <= N => Good(n)}
<1>3. 0 \in S
  <2>1. NoBits \in Packs /\ NoBits.bytes = << >> /\ NoBits.rest = << >>
    BY Sizes DEF NoBits, Packs
  <2>2. CountsBits(NoBits, 0)
    <3>1. BYTE_BITS * 0 + 0 = CODE_LENGTH * 0
      BY Sizes
    <3> QED
      BY <2>1, <3>1 DEF CountsBits
  <2>3. SaysBits(c, NoBits)
    BY <2>1 DEF SaysBits
  <2> QED
    BY <1>1, <2>2, <2>3
<1>4. ASSUME NEW n \in Nat, n \in S PROVE n + 1 \in S
  <2> SUFFICES ASSUME n + 1 <= N PROVE Good(n + 1)
    OBVIOUS
  <2>1. n \in 0 .. N - 1 /\ Good(n) /\ n + 1 \in 1 .. N
    BY <1>2, <1>4
  <2>2. d[n + 1] = PackCode(d[n], c[n + 1]) /\ c[n + 1] \in Int
    BY <1>1, <1>2, <2>1
  <2>3. CountsBits(d[n + 1], n + 1)
    BY <2>1, <2>2, CountsNext
  <2>4. c \in Seq(CodeRange) => SaysBits(c, d[n + 1])
    <3> SUFFICES ASSUME c \in Seq(CodeRange) PROVE SaysBits(c, d[n + 1])
      OBVIOUS
    <3>1. c[n + 1] \in CodeRange
      BY <2>1
    <3> QED
      BY <2>1, <2>2, <3>1, SaysNext
  <2> QED
    BY <2>3, <2>4
<1> HIDE DEF S
<1>5. N \in S
  BY <1>2, <1>3, <1>4, Induct
<1>6. Good(N)
  BY <1>2, <1>5 DEF S
<1> QED
  BY <1>1, <1>6

(* The bytes hold the codes, and less than a byte more. *)
PackedSize(n, k) == CODE_LENGTH * k <= BYTE_BITS * n /\ BYTE_BITS * n < CODE_LENGTH * k + BYTE_BITS

(* Where the packed bytes have a bit of the codes, it is theirs. *)
PackedBits(q, c) ==
  \A x \in 0 .. CODE_LENGTH * Len(c) - 1 :
    /\ x \div BYTE_BITS < Len(q)
    /\ q[(x \div BYTE_BITS) + 1][(x % BYTE_BITS) + 1] = StreamBit(c, x)

(* What bit_pack() makes of codes has their bits in order, and less than a   *)
(* byte of padding.                                                          *)
LEMMA Packing ==
  ASSUME NEW c \in Seq(Int)
  PROVE  /\ Pack(c) \in Seq(ByteBits)
         /\ PackedSize(Len(Pack(c)), Len(c))
         /\ c \in Seq(CodeRange) => PackedBits(Pack(c), c)
<1>1. PICK b : /\ CountsBits(b, Len(c))
               /\ Pack(c) = b.bytes \o Padding(b.rest)
               /\ c \in Seq(CodeRange) => SaysBits(c, b)
  BY PackRuns
<1> DEFINE q == Pack(c)
           z == Padding(b.rest)
           n == Len(b.bytes)
           r == Len(b.rest)
           m == Len(z)
           x == BYTE_BITS * n
           l == CODE_LENGTH * Len(c)
<1>2. /\ b.bytes \in Seq(ByteBits) /\ b.rest \in Seq(Bits) /\ n \in Nat /\ r \in Nat
      /\ r < BYTE_BITS /\ x + r = l
  BY <1>1 DEF CountsBits, Packs
<1>3. /\ z \in Seq(ByteBits) /\ m = IF r = 0 THEN 0 ELSE 1
      /\ \A k \in 1 .. r : z[1][k] = b.rest[k]
  BY <1>2, PaddingType
<1>4. /\ q \in Seq(ByteBits) /\ Len(q) = n + m
      /\ \A k \in 1 .. n + m : q[k] = IF k <= n THEN b.bytes[k] ELSE z[k - n]
  <2> DEFINE y == b.bytes
  <2>1. q = y \o z
    BY <1>1
  <2>2. y \in Seq(ByteBits) /\ z \in Seq(ByteBits) /\ Len(y) = n
    BY <1>2, <1>3
  <2> HIDE DEF y, z, q, n
  <2>3. /\ q \in Seq(ByteBits) /\ Len(q) = Len(y) + Len(z)
        /\ \A k \in 1 .. Len(y) + Len(z) : q[k] = IF k <= Len(y) THEN y[k] ELSE z[k - Len(y)]
    BY <2>1, <2>2, ConcatProperties
  <2> QED
    BY <2>2, <2>3 DEF y
<1>5. x \in Nat /\ m \in Nat /\ l \in Nat /\ BYTE_BITS * (n + m) = x + BYTE_BITS * m
  <2> HIDE DEF n
  <2>1. m \in Nat
    BY <1>3
  <2>2. x \in Nat /\ BYTE_BITS * (n + m) = x + BYTE_BITS * m
    <3> HIDE DEF m
    <3> QED
      BY <1>2, <2>1, Sizes, Distributes
  <2> HIDE DEF x
  <2> QED
    BY <1>2, <2>1, <2>2
<1>6. PackedSize(Len(q), Len(c))
  <2>1. BYTE_BITS * m = IF r = 0 THEN 0 ELSE BYTE_BITS
    <3>1. BYTE_BITS * 0 = 0 /\ BYTE_BITS * 1 = BYTE_BITS
      BY Sizes
    <3> QED
      BY <1>3, <3>1
  <2> DEFINE y == BYTE_BITS * (n + m)
             a == BYTE_BITS * m
  <2>2. y = x + a /\ a = IF r = 0 THEN 0 ELSE BYTE_BITS
    BY <1>5, <2>1
  <2> HIDE DEF y, a, x, l, m, n, r
  <2>3. l <= y /\ y < l + BYTE_BITS
    BY <1>2, <1>5, <2>2, Sizes
  <2> QED
    BY <1>4, <2>3 DEF PackedSize, y, l
<1>7. ASSUME c \in Seq(CodeRange), NEW y \in 0 .. l - 1
      PROVE  /\ y \div BYTE_BITS < Len(q)
             /\ q[(y \div BYTE_BITS) + 1][(y % BYTE_BITS) + 1] = StreamBit(c, y)
  <2> DEFINE u == y \div BYTE_BITS
             v == y % BYTE_BITS
  <2>0. SaysBits(c, b) /\ y \in Nat
    BY <1>1, <1>5, <1>7
  <2>1. u \in Nat /\ v \in 0 .. BYTE_BITS - 1 /\ y = BYTE_BITS * u + v
    BY <2>0, Sizes, DivMod
  <2> HIDE DEF u, v
  <2>2. CASE u < n
    <3>1. u \in 0 .. n - 1 /\ u + 1 \in 1 .. n + m /\ u + 1 <= n /\ u < n + m
      <4> HIDE DEF n, m
      <4> QED
        BY <1>2, <1>5, <2>1, <2>2
    <3>2. q[u + 1] = b.bytes[u + 1]
      BY <1>4, <3>1
    <3>3. b.bytes[u + 1][v + 1] = StreamBit(c, BYTE_BITS * u + v)
      BY <2>0, <2>1, <3>1 DEF SaysBits
    <3> QED
      BY <1>4, <2>1, <3>1, <3>2, <3>3 DEF u, v
  <2>3. CASE ~(u < n)
    <3> DEFINE w == u - n
               t == BYTE_BITS * w
    <3>1. w \in Nat /\ u = n + w
      <4> HIDE DEF n
      <4> QED
        BY <1>2, <2>1, <2>3
    <3> HIDE DEF w
    <3>2. BYTE_BITS * u = x + t /\ t \in Nat /\ (w # 0 => t >= BYTE_BITS)
      <4>1. BYTE_BITS * (n + w) = BYTE_BITS * n + BYTE_BITS * w /\ t \in Nat
        <5> HIDE DEF n
        <5> QED
          BY <1>2, <3>1, Sizes, Distributes
      <4>2. w # 0 => t >= BYTE_BITS
        <5>1. w # 0 => w >= 1
          BY <3>1
        <5> QED
          BY <3>1, <5>1, Sizes, MultipleAtLeast
      <4> QED
        BY <3>1, <4>1, <4>2
    <3>3. w = 0 /\ v + 1 \in 1 .. r /\ r # 0
      <4>1. y = (x + t) + v
        BY <2>1, <3>2
      <4> HIDE DEF x, t, r, l
      <4> QED
        BY <1>2, <1>5, <2>1, <3>1, <3>2, <4>1, Sizes
    <3>4. u = n /\ m = 1 /\ BYTE_BITS * u + v = BYTE_BITS * n + ((v + 1) - 1)
      <4>1. u = n
        BY <1>2, <3>1, <3>3
      <4>2. m = 1
        BY <1>3, <3>3
      <4>3. x + v = x + ((v + 1) - 1)
        <5> HIDE DEF x
        <5> QED
          BY <1>5, <2>1, Sizes
      <4> QED
        BY <4>1, <4>2, <4>3
    <3>5. n + 1 \in 1 .. n + m /\ ~(n + 1 <= n) /\ (n + 1) - n = 1 /\ n < n + m
      <4> HIDE DEF n, m
      <4> QED
        BY <1>2, <3>4
    <3>6. q[u + 1] = z[1]
      BY <1>4, <3>4, <3>5
    <3>7. z[1][v + 1] = b.rest[v + 1]
      BY <1>3, <3>3
    <3>8. b.rest[v + 1] = StreamBit(c, BYTE_BITS * n + ((v + 1) - 1))
      BY <2>0, <3>3 DEF SaysBits
    <3>9. u < Len(q)
      BY <1>4, <3>4, <3>5
    <3>10. q[u + 1][v + 1] = StreamBit(c, y)
      BY <2>1, <3>4, <3>6, <3>7, <3>8
    <3> QED
      BY <3>9, <3>10 DEF u, v
  <2> QED
    BY <2>2, <2>3
<1> QED
  BY <1>4, <1>6, <1>7 DEF PackedBits

-----------------------------------------------------------------------------
(* The decoder's reading of a code *)

(* Every bit is a bit, those past the end too. *)
LEMMA BitAtType ==
  ASSUME bytes \in Seq(ByteBits), NEW x \in Nat
  PROVE  BitAt(x) \in Bits
<1> DEFINE u == x \div BYTE_BITS
           v == x % BYTE_BITS
<1>1. u \in Nat /\ v \in 0 .. BYTE_BITS - 1
  BY Sizes, DivMod
<1> HIDE DEF u, v
<1>2. CASE u < Len(bytes)
  <2>1. u + 1 \in 1 .. Len(bytes)
    BY <1>1, <1>2
  <2>2. bytes[u + 1] \in ByteBits
    BY <2>1
  <2>3. v + 1 \in 1 .. BYTE_BITS
    BY <1>1, Sizes
  <2>4. bytes[u + 1][v + 1] \in Bits
    BY <2>2, <2>3 DEF ByteBits
  <2> QED
    BY <1>2, <2>4 DEF BitAt, u, v
<1>3. CASE ~(u < Len(bytes))
  BY <1>3 DEF BitAt, u, Bits
<1> QED
  BY <1>2, <1>3

ReadRounds(g, s, n) ==
  [t \in SUBSET (1 .. n) |->
     IF t = {} THEN 0 ELSE 2 * g[t \ {Max(t)}] + BitAt(position + s[Max(t)] - 1)]

(* A code is read bit by bit. *)
LEMMA ReadByRounds ==
  ASSUME bytes \in Seq(ByteBits), position \in Nat
  PROVE  \E d : /\ d[0] = 0
                /\ \A n \in 0 .. CODE_LENGTH - 1 :
                     d[n + 1] = 2 * d[n] + BitAt(position + ((n + 1) - 1))
                /\ ReadCode = d[CODE_LENGTH]
<1> DEFINE N == CODE_LENGTH
           s == [k \in 1 .. N |-> k]
           G == [x \in (1 .. N) \X Nat |-> 2 * x[2] + BitAt(position + s[x[1]] - 1)]
           h == CHOOSE g : g = ReadRounds(g, s, N)
           d == [n \in 0 .. N |-> h[1 .. n]]
<1>1. N \in Nat /\ DOMAIN s = 1 .. N /\ \A k \in 1 .. N : s[k] = k
  BY Sizes
<1>2. G \in [(1 .. N) \X Nat -> Nat]
  <2>1. ASSUME NEW v \in Nat, NEW k \in 1 .. N PROVE 2 * v + BitAt(position + s[k] - 1) \in Nat
    <3>1. s[k] = k /\ position + k - 1 \in Nat
      BY <1>1
    <3> DEFINE y == position + k - 1
    <3> HIDE DEF y
    <3>2. BitAt(y) \in Bits
      BY <3>1, BitAtType DEF y
    <3>3. BitAt(y) \in Nat
      BY <3>2 DEF Bits
    <3> QED
      BY <3>1, <3>3 DEF y
  <2> HIDE DEF N, s
  <2> QED
    BY <2>1
<1>3. PICK f : FoldBy(f, N, Nat, 0, G)
  <2> HIDE DEF N, G
  <2> QED
    BY <1>1, <1>2, FoldExists
<1>4. f = ReadRounds(f, s, N)
  <2>1. f = [t \in SUBSET (1 .. N) |-> f[t]]
    BY <1>3 DEF FoldBy
  <2>2. ASSUME NEW t \in SUBSET (1 .. N)
        PROVE  f[t] = IF t = {} THEN 0
                      ELSE 2 * f[t \ {Max(t)}] + BitAt(position + s[Max(t)] - 1)
    <3>1. CASE t = {}
      BY <1>3, <3>1 DEF FoldBy
    <3>2. CASE t # {}
      <4>1. Max(t) \in 1 .. N
        BY <1>1, <3>2, MaxIndex
      <4>2. t \ {Max(t)} \in SUBSET (1 .. N)
        OBVIOUS
      <4>3. f[t \ {Max(t)}] \in Nat /\ f[t] = G[<<Max(t), f[t \ {Max(t)}]>>]
        BY <1>3, <3>2, <4>2 DEF FoldBy
      <4> HIDE DEF s
      <4> QED
        BY <3>2, <4>1, <4>3
    <3> QED
      BY <3>1, <3>2
  <2> HIDE DEF s
  <2> QED
    BY <2>1, <2>2 DEF ReadRounds
<1>5. h = ReadRounds(h, s, N)
  <2> HIDE DEF N, s
  <2> QED
    BY <1>4
<1>6. ReadCode = h[1 .. N]
  <2>1. ReadCode = FoldLeft(LAMBDA n, k : 2 * n + BitAt(position + k - 1), 0, s)
    BY DEF ReadCode
  <2> HIDE DEF s
  <2> QED
    BY <1>1, <2>1 DEF FoldLeft, MapThenFoldSet, ReadRounds
<1> HIDE DEF h, s
<1>7. d[0] = 0
  <2>1. 1 .. 0 = {} /\ {} \in SUBSET (1 .. N)
    OBVIOUS
  <2>2. h[{}] = 0
    BY <1>5, <2>1 DEF ReadRounds
  <2> QED
    BY <1>1, <2>1, <2>2
<1>8. ASSUME NEW n \in 0 .. N - 1
      PROVE  d[n + 1] = 2 * d[n] + BitAt(position + ((n + 1) - 1))
  <2> DEFINE m == n + 1
             t == 1 .. m
  <2>1. t \in SUBSET (1 .. N) /\ t # {} /\ Max(t) = m /\ t \ {m} = 1 .. n /\ m \in 1 .. N
    <3>1. m \in 1 .. N
      BY <1>1
    <3> HIDE DEF N
    <3> QED
      BY <1>1, <3>1, FirstIndices
  <2>2. d[m] = h[t] /\ d[n] = h[1 .. n]
    BY <1>1
  <2> HIDE DEF t, m, d
  <2>3. h[t] = 2 * h[t \ {Max(t)}] + BitAt(position + s[Max(t)] - 1)
    BY <1>5, <2>1 DEF ReadRounds
  <2>4. s[m] = m
    BY <1>1, <2>1
  <2> QED
    BY <2>1, <2>2, <2>3, <2>4 DEF m
<1>9. d[N] = h[1 .. N]
  BY <1>1
<1> HIDE DEF d
<1> QED
  BY <1>6, <1>7, <1>8, <1>9

(* A code that is read is a number. *)
LEMMA ReadType ==
  ASSUME bytes \in Seq(ByteBits), position \in Nat
  PROVE  ReadCode \in Nat
<1>1. PICK d : /\ d[0] = 0
               /\ \A n \in 0 .. CODE_LENGTH - 1 :
                    d[n + 1] = 2 * d[n] + BitAt(position + ((n + 1) - 1))
               /\ ReadCode = d[CODE_LENGTH]
  BY ReadByRounds
<1> DEFINE S == {n \in Nat : n <= CODE_LENGTH => d[n] \in Nat}
<1>2. 0 \in S
  BY <1>1
<1>3. ASSUME NEW n \in Nat, n \in S PROVE n + 1 \in S
  <2> SUFFICES ASSUME n + 1 <= CODE_LENGTH PROVE d[n + 1] \in Nat
    OBVIOUS
  <2>1. n \in 0 .. CODE_LENGTH - 1 /\ d[n] \in Nat /\ position + ((n + 1) - 1) \in Nat
    BY <1>3, Sizes
  <2> DEFINE y == position + ((n + 1) - 1)
  <2> HIDE DEF y
  <2>2. BitAt(y) \in Nat
    <3>1. BitAt(y) \in Bits
      BY <2>1, BitAtType DEF y
    <3> QED
      BY <3>1 DEF Bits
  <2>3. d[n + 1] = 2 * d[n] + BitAt(y)
    BY <1>1, <2>1 DEF y
  <2> QED
    BY <2>1, <2>2, <2>3
<1> HIDE DEF S
<1>4. CODE_LENGTH \in S
  BY <1>2, <1>3, Sizes, Induct
<1> QED
  BY <1>1, <1>4, Sizes DEF S

(* The code that is read is the one that was written there. *)
LEMMA ReadIs ==
  ASSUME bytes \in Seq(ByteBits), NEW c \in Seq(CodeRange), PackedBits(bytes, c),
         NEW t \in 0 .. Len(c) - 1, position = CODE_LENGTH * t
  PROVE  ReadCode = c[t + 1]
<1> DEFINE v == c[t + 1]
           L == CODE_LENGTH
<1>0. t \in Nat /\ t + 1 \in 1 .. Len(c) /\ position \in Nat /\ L \in Nat /\ L \in 0 .. L + BYTE_BITS
  <2>1. t \in Nat /\ t + 1 \in 1 .. Len(c) /\ L \in Nat /\ L \in 0 .. L + BYTE_BITS
    BY Sizes
  <2>2. position \in Nat
    BY <2>1, Distributes
  <2> QED
    BY <2>1, <2>2
<1>1. v \in CodeRange /\ v \in Nat /\ v \in Int
  <2>1. v \in CodeRange
    BY <1>0
  <2>2. PowerOf2[CODE_LENGTH] \in Nat
    BY <1>0, Powers
  <2> QED
    BY <2>1, <2>2 DEF CodeRange
<1>2. PICK d : /\ d[0] = 0
               /\ \A n \in 0 .. L - 1 : d[n + 1] = 2 * d[n] + BitAt(position + ((n + 1) - 1))
               /\ ReadCode = d[L]
  BY <1>0, ReadByRounds
<1> DEFINE S == {n \in Nat : n <= L => d[n] = v \div PowerOf2[L - n]}
<1> HIDE DEF v
<1>3. 0 \in S
  <2>1. L - 0 = L /\ PowerOf2[L] \in Nat \ {0}
    BY <1>0, Powers
  <2>2. v \div PowerOf2[L] = 0
    BY <1>1, <2>1, DivLess DEF CodeRange
  <2> QED
    BY <1>2, <2>1, <2>2
<1>4. ASSUME NEW n \in Nat, n \in S PROVE n + 1 \in S
  <2> SUFFICES ASSUME n + 1 <= L PROVE d[n + 1] = v \div PowerOf2[L - (n + 1)]
    OBVIOUS
  <2> DEFINE k == n + 1
             a == PowerOf2[L - k]
             x == v \div a
             y == L * t + (k - 1)
             z == L * Len(c)
  <2>1. /\ n \in 0 .. L - 1 /\ k \in 1 .. L /\ L - n = (L - k) + 1
        /\ L - k \in 0 .. L + BYTE_BITS /\ L - n \in 1 .. L + BYTE_BITS /\ (L - n) - 1 = L - k
    BY <1>0, Sizes
  <2>2. a \in Nat \ {0} /\ PowerOf2[L - n] = 2 * a /\ 2 * a = a * 2
    <3>1. a \in Nat \ {0} /\ PowerOf2[L - n] = 2 * a
      <4> HIDE DEF k
      <4> QED
        BY <2>1, Powers
    <3> HIDE DEF a
    <3> QED
      BY <3>1
  <2> HIDE DEF a
  <2>3. d[n] = x \div 2
    <3>1. 2 \in Nat \ {0}
      OBVIOUS
    <3>2. v \div (a * 2) = x \div 2
      BY <1>1, <2>2, <3>1, DivTwice
    <3>3. d[n] = v \div PowerOf2[L - n]
      <4>1. n <= L
        BY <1>0, <2>1
      <4> QED
        BY <1>4, <4>1, Zenon
    <3>4. d[n] = v \div (a * 2)
      BY <2>2, <3>3, Zenon
    <3> QED
      BY <3>2, <3>4
  <2>4. x \in Nat
    BY <1>1, <2>2, DivMod
  <2> HIDE DEF x
  <2>5. x = 2 * (x \div 2) + (x % 2)
    <3>1. 2 \in Nat \ {0}
      OBVIOUS
    <3> QED
      BY <2>4, <3>1, DivMod
  <2>6. y \in 0 .. z - 1
    <3> DEFINE r == Len(c) - (t + 1)
               w == L * r
               u == L * t
    <3>1. r \in Nat /\ Len(c) = t + (1 + r)
      BY <1>0
    <3> HIDE DEF r
    <3>2. z = u + L * (1 + r) /\ u \in Nat
      BY <1>0, <3>1, Distributes
    <3>3. L * (1 + r) = L * 1 + w /\ w \in Nat
      BY <1>0, <3>1, Distributes
    <3>4. L * 1 = L
      BY <1>0
    <3>5. z = u + (L + w)
      BY <3>2, <3>3, <3>4
    <3> HIDE DEF z, u, w, k
    <3>6. y = u + (k - 1)
      BY DEF u
    <3> HIDE DEF y
    <3> QED
      BY <1>0, <2>1, <3>2, <3>3, <3>5, <3>6
  <2> HIDE DEF z
  <2>7. y \div BYTE_BITS < Len(bytes) /\ bytes[(y \div BYTE_BITS) + 1][(y % BYTE_BITS) + 1] = StreamBit(c, y)
    <3> HIDE DEF y
    <3> QED
      BY <2>6 DEF PackedBits, z
  <2>8. BitAt(y) = StreamBit(c, y)
    <3> HIDE DEF y
    <3> QED
      BY <2>7 DEF BitAt
  <2>9. StreamBit(c, y) = BitsOf(v, L)[k]
    <3> HIDE DEF k
    <3> QED
      BY <1>0, <2>1, StreamBitAt DEF v
  <2>10. BitsOf(v, L)[k] = x % 2
    <3> HIDE DEF k
    <3> QED
      BY <1>0, <1>1, <2>1, BitsOfType DEF x, a
  <2>11. d[k] = 2 * d[n] + BitAt(y)
    BY <1>2, <2>1
  <2>12. d[k] = x
    <3> HIDE DEF y, k
    <3> QED
      BY <2>3, <2>5, <2>8, <2>9, <2>10, <2>11
  <2> QED
    BY <2>12 DEF x, a
<1> HIDE DEF S
<1>5. L \in S
  BY <1>0, <1>3, <1>4, Induct
<1>6. d[L] = v \div PowerOf2[0]
  <2>1. L - L = 0
    BY <1>0
  <2> QED
    BY <1>0, <1>5, <2>1 DEF S
<1>7. v \div 1 = v
  BY <1>1
<1> QED
  BY <1>2, <1>6, <1>7, Powers DEF v

-----------------------------------------------------------------------------
(* The strings of a chunk: what is behind its first a bytes, up to byte b *)

Slice(s, a, b) == SubSeq(s, a + 1, b)

(* The bytes of a slice of a chunk. *)
LEMMA SliceType ==
  ASSUME NEW s \in Seq(Bytes), NEW a \in Nat, NEW b \in a .. Len(s)
  PROVE  /\ Slice(s, a, b) \in Seq(Bytes) /\ Len(Slice(s, a, b)) = b - a
         /\ \A k \in 1 .. b - a : Slice(s, a, b)[k] = s[a + k]
<1> DEFINE t == [k \in 1 .. b - a |-> s[a + k]]
<1>1. Len(s) \in Nat /\ b - a \in Nat /\ b \in Nat /\ \A k \in 1 .. Len(s) : s[k] \in Bytes
  OBVIOUS
<1>2. ASSUME NEW k \in 1 .. b - a PROVE s[a + k] \in Bytes
  <2>1. a + k \in 1 .. Len(s)
    BY <1>1
  <2> QED
    BY <1>1, <2>1
<1>3. t \in [1 .. b - a -> Bytes]
  BY <1>2
<1>4. Slice(s, a, b) = t
  BY <1>1 DEF Slice
<1> HIDE DEF t
<1>5. t \in Seq(Bytes) /\ Len(t) = b - a
  BY <1>1, <1>3
<1>6. \A k \in 1 .. b - a : t[k] = s[a + k]
  BY DEF t
<1> QED
  BY <1>4, <1>5, <1>6

(* One byte. *)
LEMMA SliceOne ==
  ASSUME NEW s \in Seq(Bytes), NEW a \in 0 .. Len(s) - 1
  PROVE  Slice(s, a, a + 1) = <<s[a + 1]>> /\ s[a + 1] \in Bytes
<1>1. a \in Nat /\ a + 1 \in a .. Len(s) /\ (a + 1) - a = 1 /\ a + 1 \in 1 .. Len(s)
  OBVIOUS
<1>2. /\ Slice(s, a, a + 1) \in Seq(Bytes) /\ Len(Slice(s, a, a + 1)) = 1
      /\ \A k \in 1 .. 1 : Slice(s, a, a + 1)[k] = s[a + k]
  BY <1>1, SliceType
<1>3. s[a + 1] \in Bytes
  BY <1>1
<1> QED
  BY <1>2, <1>3

(* Two strings, the second behind the first. *)
LEMMA SliceJoin ==
  ASSUME NEW s \in Seq(Bytes), NEW a \in Nat, NEW b \in a .. Len(s), NEW c \in b .. Len(s)
  PROVE  Slice(s, a, b) \o Slice(s, b, c) = Slice(s, a, c)
<1>1. a + 1 \in 1 .. Len(s) + 1 /\ b \in (a + 1) - 1 .. Len(s)
  OBVIOUS
<1> QED
  BY <1>1, ConcatAdjacentSubSeq DEF Slice

(* One byte more. *)
LEMMA SliceMore ==
  ASSUME NEW s \in Seq(Bytes), NEW a \in Nat, NEW b \in a .. Len(s) - 1
  PROVE  /\ Slice(s, a, b) \o <<s[b + 1]>> = Slice(s, a, b + 1)
         /\ Append(Slice(s, a, b), s[b + 1]) = Slice(s, a, b + 1)
<1>1. b \in a .. Len(s) /\ b + 1 \in b .. Len(s) /\ b \in 0 .. Len(s) - 1
  OBVIOUS
<1>2. Slice(s, b, b + 1) = <<s[b + 1]>> /\ s[b + 1] \in Bytes
  BY <1>1, SliceOne
<1>3. Slice(s, a, b) \o <<s[b + 1]>> = Slice(s, a, b + 1)
  BY <1>1, <1>2, SliceJoin
<1>4. Slice(s, a, b) \in Seq(Bytes)
  BY <1>1, SliceType
<1> DEFINE t == Slice(s, a, b)
           e == s[b + 1]
<1>5. Append(t, e) = t \o <<e>>
  <2> HIDE DEF t, e
  <2> QED
    BY <1>4, AppendIsConcat DEF t
<1> QED
  BY <1>3, <1>5

(* All but its last byte. *)
LEMMA SliceFront ==
  ASSUME NEW s \in Seq(Bytes), NEW a \in Nat, NEW b \in a .. Len(s) - 1
  PROVE  Front(Slice(s, a, b + 1)) = Slice(s, a, b)
<1> DEFINE t == Slice(s, a, b + 1)
           u == Slice(s, a, b)
           l == b - a
<1>1. b + 1 \in a .. Len(s) /\ b \in a .. Len(s) /\ l \in Nat /\ (b + 1) - a = l + 1
  OBVIOUS
<1>2. /\ t \in Seq(Bytes) /\ Len(t) = l + 1
      /\ \A k \in 1 .. l + 1 : t[k] = s[a + k]
  BY <1>1, SliceType
<1>3. /\ u \in Seq(Bytes) /\ Len(u) = l
      /\ \A k \in 1 .. l : u[k] = s[a + k]
  BY <1>1, SliceType
<1> HIDE DEF t, u, l
<1>4. Front(t) = [k \in 1 .. l |-> t[k]]
  BY <1>1, <1>2 DEF Front
<1>5. \A k \in 1 .. l : t[k] = u[k]
  <2>1. \A k \in 1 .. l : k \in 1 .. l + 1
    BY <1>1
  <2> QED
    BY <1>2, <1>3, <2>1
<1>6. u = [k \in 1 .. l |-> u[k]]
  BY <1>3
<1>7. Front(t) = u
  BY <1>4, <1>5, <1>6
<1> QED
  BY <1>7 DEF t, u

(* The first byte of a slice. *)
LEMMA SliceFirst ==
  ASSUME NEW s \in Seq(Bytes), NEW a \in Nat, NEW b \in a + 1 .. Len(s)
  PROVE  Slice(s, a, b)[1] = s[a + 1] /\ Slice(s, a, b) \in Words
<1>1. b \in a .. Len(s) /\ 1 \in 1 .. b - a /\ b - a \in Nat /\ b - a # 0
  OBVIOUS
<1>2. /\ Slice(s, a, b) \in Seq(Bytes) /\ Len(Slice(s, a, b)) = b - a
      /\ \A k \in 1 .. b - a : Slice(s, a, b)[k] = s[a + k]
  BY <1>1, SliceType
<1>3. Slice(s, a, b) # << >>
  BY <1>1, <1>2
<1> QED
  BY <1>1, <1>2, <1>3 DEF Words

-----------------------------------------------------------------------------
(* What a hash finds *)

(* The first of some indices is one of them. *)
LEMMA MinInside ==
  ASSUME NEW s, s \subseteq Nat, s # {}
  PROVE  Min(s) \in s /\ \A y \in s : Min(s) <= y
  BY Least DEF Min

(* A field of a hash is an address. *)
LEMMA FieldType ==
  ASSUME NEW h \in 0 .. HASH_RANGE - 1, NEW f \in 0 .. 3
  PROVE  Field(f, h) \in 0 .. FIELD - 1
<1>1. ASSUME NEW w \in Nat \ {0} PROVE (h \div w) % FIELD \in 0 .. FIELD - 1
  <2> DEFINE q == h \div w
  <2>1. h \in Nat /\ FIELD \in Nat \ {0}
    BY HashAssumption, TableAssumption
  <2>2. q \in Nat
    BY <2>1, DivMod
  <2> HIDE DEF q
  <2>3. q % FIELD \in 0 .. FIELD - 1
    BY <2>1, <2>2, DivMod
  <2> QED
    BY <2>3 DEF q
<1>2. FIELD \in Nat \ {0} /\ FIELD * FIELD \in Nat \ {0}
  BY TableAssumption, SMT
<1>3. FIELD * FIELD * FIELD \in Nat \ {0}
  <2> DEFINE w == FIELD * FIELD
  <2> HIDE DEF w
  <2>1. w \in Nat \ {0}
    BY <1>2 DEF w
  <2>2. w * FIELD \in Nat \ {0}
    BY <1>2, <2>1, SMT
  <2> QED
    BY <2>2 DEF w
<1>4. f = 0 \/ f = 1 \/ f = 2 \/ f = 3
  OBVIOUS
<1>5. /\ Field(0, h) = (h \div 1) % FIELD
      /\ Field(1, h) = (h \div FIELD) % FIELD
      /\ Field(2, h) = (h \div (FIELD * FIELD)) % FIELD
      /\ Field(3, h) = (h \div (FIELD * FIELD * FIELD)) % FIELD
  BY DEF Field
<1>6. 1 \in Nat \ {0}
  OBVIOUS
<1>7. CASE f = 0
  BY <1>1, <1>5, <1>6, <1>7, Zenon
<1>8. CASE f = 1
  BY <1>1, <1>2, <1>5, <1>8, Zenon
<1>9. CASE f = 2
  BY <1>1, <1>2, <1>5, <1>9, Zenon
<1>10. CASE f = 3
  BY <1>1, <1>3, <1>5, <1>10, Zenon
<1> QED
  BY <1>4, <1>7, <1>8, <1>9, <1>10

(* A remainder and a quotient make a number. *)
LEMMA SameParts ==
  ASSUME NEW n \in Nat \ {0}, NEW a \in Nat, NEW b \in Nat,
         a % n = b % n, a \div n = b \div n
  PROVE  a = b
<1> DEFINE q == a \div n
           r == a % n
           u == b \div n
           v == b % n
<1>1. a = n * q + r /\ b = n * u + v
  BY DivMod
<1>2. q = u /\ r = v
  OBVIOUS
<1> HIDE DEF q, r, u, v
<1> QED
  BY <1>1, <1>2, Zenon

(* Four fields cover a hash. *)
LEMMA FieldsTell ==
  ASSUME NEW g \in 0 .. HASH_RANGE - 1, NEW h \in 0 .. HASH_RANGE - 1,
         \A f \in 0 .. 3 : Field(f, g) = Field(f, h)
  PROVE  g = h
<1> DEFINE F == FIELD
           F2 == FIELD * FIELD
           F3 == FIELD * FIELD * FIELD
           F4 == FIELD * FIELD * FIELD * FIELD
<1>1. F \in Nat \ {0} /\ F2 \in Nat \ {0}
  BY TableAssumption, SMT
<1>2. F3 \in Nat \ {0} /\ F3 = F2 * F
  <2> DEFINE w == FIELD * FIELD
  <2> HIDE DEF w
  <2>1. w \in Nat \ {0}
    BY <1>1 DEF w
  <2>2. w * FIELD \in Nat \ {0}
    BY <1>1, <2>1, SMT
  <2> QED
    BY <2>2 DEF w
<1>3. F4 \in Nat \ {0} /\ F4 = F3 * F
  <2> DEFINE w == F3
  <2> HIDE DEF w
  <2>1. w \in Nat \ {0}
    BY <1>2 DEF w
  <2>2. w * FIELD \in Nat \ {0}
    BY <1>1, <2>1, SMT
  <2> QED
    BY <2>2 DEF w
<1>4. HASH_RANGE <= F4 /\ HASH_RANGE \in Nat
  BY TableAssumption, HashAssumption
<1>5. ASSUME NEW x \in 0 .. HASH_RANGE - 1
      PROVE  /\ x \in Nat /\ x \div F \in Nat /\ x \div F2 \in Nat /\ x \div F3 \in Nat
             /\ x \div F2 = (x \div F) \div F /\ x \div F3 = (x \div F2) \div F
             /\ (x \div F3) \div F = 0
             /\ Field(0, x) = x % F
             /\ Field(1, x) = (x \div F) % F
             /\ Field(2, x) = (x \div F2) % F
             /\ Field(3, x) = (x \div F3) % F
  <2>1. x \in Nat /\ x <= HASH_RANGE - 1
    BY <1>4
  <2>2. x \div 1 = x
    BY <2>1
  <2>3. /\ Field(0, x) = (x \div 1) % F
        /\ Field(1, x) = (x \div F) % F
        /\ Field(2, x) = (x \div F2) % F
        /\ Field(3, x) = (x \div F3) % F
    BY DEF Field
  <2>4. x \in 0 .. F4 - 1
    <3> HIDE DEF F4
    <3> QED
      BY <1>3, <1>4, <2>1
  <2>5. x \div F2 = (x \div F) \div F
    BY <1>1, <2>1, DivTwice
  <2> HIDE DEF F2
  <2>6. x \div F3 = (x \div F2) \div F
    <3>1. x \div (F2 * F) = (x \div F2) \div F
      BY <1>1, <2>1, DivTwice
    <3> QED
      BY <1>2, <3>1, Zenon
  <2> HIDE DEF F3
  <2>7. x \div F4 = (x \div F3) \div F
    <3>1. x \div (F3 * F) = (x \div F3) \div F
      BY <1>1, <1>2, <2>1, DivTwice
    <3> QED
      BY <1>3, <3>1, Zenon
  <2> HIDE DEF F4
  <2>8. x \div F4 = 0
    BY <1>3, <2>4, DivLess
  <2>9. x \div F \in Nat /\ x \div F2 \in Nat /\ x \div F3 \in Nat
    BY <1>1, <1>2, <2>1, DivMod
  <2> QED
    BY <2>1, <2>2, <2>3, <2>5, <2>6, <2>7, <2>8, <2>9, Zenon
<1> HIDE DEF F, F2, F3, F4
<1>6. 0 \in 0 .. 3 /\ 1 \in 0 .. 3 /\ 2 \in 0 .. 3 /\ 3 \in 0 .. 3
  OBVIOUS
<1>7. /\ Field(0, g) = Field(0, h) /\ Field(1, g) = Field(1, h)
      /\ Field(2, g) = Field(2, h) /\ Field(3, g) = Field(3, h)
  BY <1>6, Zenon
<1>8. g \div F3 = h \div F3
  <2>1. (g \div F3) % F = (h \div F3) % F /\ (g \div F3) \div F = (h \div F3) \div F
    BY <1>5, <1>7, Zenon
  <2>2. g \div F3 \in Nat /\ h \div F3 \in Nat
    BY <1>5, Zenon
  <2> QED
    BY <1>1, <2>1, <2>2, SameParts
<1>9. g \div F2 = h \div F2
  <2>1. (g \div F2) % F = (h \div F2) % F /\ (g \div F2) \div F = (h \div F2) \div F
    BY <1>5, <1>7, <1>8, Zenon
  <2>2. g \div F2 \in Nat /\ h \div F2 \in Nat
    BY <1>5, Zenon
  <2> QED
    BY <1>1, <2>1, <2>2, SameParts
<1>10. g \div F = h \div F
  <2>1. (g \div F) % F = (h \div F) % F /\ (g \div F) \div F = (h \div F) \div F
    BY <1>5, <1>7, <1>9, Zenon
  <2>2. g \div F \in Nat /\ h \div F \in Nat
    BY <1>5, Zenon
  <2> QED
    BY <1>1, <2>1, <2>2, SameParts
<1>11. g % F = h % F /\ g \in Nat /\ h \in Nat
  BY <1>5, <1>7, Zenon
<1> QED
  BY <1>1, <1>10, <1>11, SameParts

-----------------------------------------------------------------------------
(* Types *)

Hashes    == 0 .. HASH_RANGE - 1
Entries   == [0 .. HASHMAP_CAPACITY - 1 -> [1 .. BUCKET_SIZE -> [key : Nat, code : Int]]]
AssocMaps == [0 .. 3 -> [0 .. FIELD - 1 -> SUBSET (0 .. ASSOC_SIZE - 1)]]
Values    == [0 .. ASSOC_SIZE - 1 -> Int]

TypeOK ==
  /\ chunk \in Words /\ stale \in Int /\ INT_BITS \in Nat \ {0}
  /\ pc \in {"encode", "pack", "first", "decode", "done", "undefined"}
  /\ i \in 0 .. Len(chunk) /\ p \in Words /\ code \in Nat /\ already_sent \in BOOLEAN
  /\ hash_entries \in Entries /\ assoc \in AssocMaps /\ values \in Values
  /\ counter \in 0 .. ASSOC_SIZE
  /\ codes \in Seq(Int) /\ bytes \in Seq(ByteBits)
  /\ position \in Nat /\ old \in Nat /\ symbol \in Seq(Bytes) /\ output \in Seq(Bytes)
  /\ code_table \in Seq(Words)

(* Get() with the tables as parameters. *)
InBucket(E, h)    == {j \in 1 .. BUCKET_SIZE : E[h % HASHMAP_CAPACITY][j].key = h}
InWords(A, h)     == {b \in A[0][Field(0, h)] : \A f \in 1 .. 3 : b \in A[f][Field(f, h)]}
BucketGet(E, h)   == IF InBucket(E, h) = {} THEN MISS
                     ELSE E[h % HASHMAP_CAPACITY][Min(InBucket(E, h))].code
WordsGet(A, V, h) == IF InWords(A, h) = {} \/ V[Max(InWords(A, h))] = 0 THEN MISS
                     ELSE V[Max(InWords(A, h))]
GetIn(E, A, V, h) == IF BucketGet(E, h) # MISS THEN BucketGet(E, h) ELSE WordsGet(A, V, h)

(* The search of the module is that of its tables. *)
LEMMA GetIs ==
  ASSUME NEW h
  PROVE  Get(h) = GetIn(hash_entries, assoc, values, h)
  BY DEF Get, hashmap_get, associative_lookup, BucketOf, GetIn, BucketGet, WordsGet, InBucket, InWords

(* A bucket for every hash. *)
LEMMA BucketType ==
  ASSUME NEW h \in Hashes
  PROVE  h % HASHMAP_CAPACITY \in 0 .. HASHMAP_CAPACITY - 1
<1>1. h \in Nat /\ HASHMAP_CAPACITY \in Nat \ {0}
  BY HashAssumption, TableAssumption DEF Hashes
<1> QED
  BY <1>1, DivMod

(* What is found, and where. *)
LEMMA BucketFinds ==
  ASSUME NEW E \in Entries, NEW h \in Hashes, BucketGet(E, h) # MISS
  PROVE  \E b \in 0 .. HASHMAP_CAPACITY - 1, j \in 1 .. BUCKET_SIZE :
           E[b][j].key = h /\ E[b][j].code = BucketGet(E, h)
<1> DEFINE hits == InBucket(E, h)
<1>1. hits # {} /\ BucketGet(E, h) = E[h % HASHMAP_CAPACITY][Min(hits)].code
  BY DEF BucketGet
<1>2. hits \subseteq Nat
  BY TableAssumption DEF InBucket
<1>3. Min(hits) \in hits
  <2> HIDE DEF hits
  <2> QED
    BY <1>1, <1>2, MinInside
<1>4. Min(hits) \in 1 .. BUCKET_SIZE /\ E[h % HASHMAP_CAPACITY][Min(hits)].key = h
  BY <1>3 DEF InBucket
<1> HIDE DEF hits
<1> QED
  BY <1>1, <1>4, BucketType

(* What the associative memory finds is a value one of whose bits is set in  *)
(* all four words.                                                           *)
LEMMA WordsFind ==
  ASSUME NEW A \in AssocMaps, NEW V \in Values, NEW h \in Hashes, WordsGet(A, V, h) # MISS
  PROVE  \E x \in 0 .. ASSOC_SIZE - 1 :
           WordsGet(A, V, h) = V[x] /\ \A f \in 0 .. 3 : x \in A[f][Field(f, h)]
<1> DEFINE bits == InWords(A, h)
<1>1. bits # {} /\ WordsGet(A, V, h) = V[Max(bits)]
  BY DEF WordsGet
<1>2. A[0][Field(0, h)] \in SUBSET (0 .. ASSOC_SIZE - 1)
  <2>1. 0 \in 0 .. 3
    OBVIOUS
  <2>2. Field(0, h) \in 0 .. FIELD - 1
    BY <2>1, FieldType DEF Hashes
  <2>3. A[0] \in [0 .. FIELD - 1 -> SUBSET (0 .. ASSOC_SIZE - 1)]
    BY <2>1 DEF AssocMaps
  <2> QED
    BY <2>2, <2>3
<1>3. bits \in SUBSET (0 .. ASSOC_SIZE - 1)
  BY <1>2 DEF InWords
<1>4. ASSOC_SIZE - 1 \in Nat
  BY TableAssumption
<1>5. Max(bits) \in bits
  <2> HIDE DEF bits
  <2> QED
    BY <1>1, <1>3, <1>4, MaxInside
<1>6. Max(bits) \in 0 .. ASSOC_SIZE - 1
  BY <1>3, <1>5
<1>7. /\ Max(bits) \in A[0][Field(0, h)]
      /\ \A f \in 1 .. 3 : Max(bits) \in A[f][Field(f, h)]
  BY <1>5 DEF InWords
<1>8. ASSUME NEW f \in 0 .. 3 PROVE Max(bits) \in A[f][Field(f, h)]
  <2>1. f = 0 \/ f \in 1 .. 3
    OBVIOUS
  <2> QED
    BY <1>7, <2>1, Zenon
<1> HIDE DEF bits
<1> QED
  BY <1>1, <1>6, <1>8

(* A code is an integer. *)
LEMMA GetType ==
  ASSUME NEW E \in Entries, NEW A \in AssocMaps, NEW V \in Values, NEW h \in Hashes
  PROVE  GetIn(E, A, V, h) \in Int
<1>1. BucketGet(E, h) \in Int
  <2>1. CASE BucketGet(E, h) = MISS
    BY <2>1 DEF MISS
  <2>2. CASE BucketGet(E, h) # MISS
    <3>1. PICK b \in 0 .. HASHMAP_CAPACITY - 1, j \in 1 .. BUCKET_SIZE :
            E[b][j].key = h /\ E[b][j].code = BucketGet(E, h)
      BY <2>2, BucketFinds
    <3>2. E[b][j] \in [key : Nat, code : Int]
      BY DEF Entries
    <3> QED
      BY <3>1, <3>2
  <2> QED
    BY <2>1, <2>2
<1>2. WordsGet(A, V, h) \in Int
  <2>1. CASE WordsGet(A, V, h) = MISS
    BY <2>1 DEF MISS
  <2>2. CASE WordsGet(A, V, h) # MISS
    <3>1. PICK x \in 0 .. ASSOC_SIZE - 1 : WordsGet(A, V, h) = V[x]
      BY <2>2, WordsFind
    <3> QED
      BY <3>1 DEF Values
  <2> QED
    BY <2>1, <2>2
<1> QED
  BY <1>1, <1>2, Zenon DEF GetIn

(* The bits of a shifted one are bits of the words. *)
LEMMA WidenedType ==
  ASSUME NEW n \in 0 .. ASSOC_SIZE - 1
  PROVE  Widened(n) \in SUBSET (0 .. ASSOC_SIZE - 1)
  BY TableAssumption DEF Widened

(* What is or-ed into a word is a set of its bits. *)
LEMMA ShiftedType ==
  ASSUME NEW n \in 0 .. ASSOC_SIZE - 1, INT_BITS \in Nat \ {0}, NEW bits \in OneShifted(n)
  PROVE  bits \in SUBSET (0 .. ASSOC_SIZE - 1)
<1>1. CASE n < INT_BITS
  <2>1. bits = Widened(n)
    BY <1>1 DEF OneShifted
  <2> QED
    BY <2>1, WidenedType
<1>2. CASE ~(n < INT_BITS)
  <2> DEFINE m == n % INT_BITS
  <2>1. n \in Nat /\ n < ASSOC_SIZE /\ ASSOC_SIZE \in Nat
    BY TableAssumption
  <2>2. m \in 0 .. INT_BITS - 1
    BY <2>1, DivMod
  <2>3. bits = {} \/ bits = Widened(m)
    BY <1>2 DEF OneShifted
  <2> HIDE DEF m
  <2>4. m \in 0 .. ASSOC_SIZE - 1
    BY <1>2, <2>1, <2>2
  <2> QED
    BY <2>3, <2>4, WidenedType
<1> QED
  BY <1>1, <1>2

(* Keeping a string leaves the tables well-formed. *)
LEMMA PutType ==
  ASSUME TypeOK, NEW h \in Hashes, Put(h)
  PROVE  /\ hash_entries' \in Entries /\ assoc' \in AssocMaps /\ values' \in Values
         /\ counter' \in 0 .. ASSOC_SIZE
<1>0. /\ hash_entries \in Entries /\ assoc \in AssocMaps /\ values \in Values
      /\ counter \in 0 .. ASSOC_SIZE /\ code \in Nat /\ INT_BITS \in Nat \ {0}
      /\ ASSOC_SIZE \in Nat \ {0}
  BY TableAssumption DEF TypeOK
<1> DEFINE B == h % HASHMAP_CAPACITY
           J == Min(EmptyEntries(h))
           e == [key |-> h, code |-> code]
<1>1. ASSUME EmptyEntries(h) # {},
             hash_entries' = [hash_entries EXCEPT ![B][J] = e],
             UNCHANGED <<assoc, values, counter>>
      PROVE  /\ hash_entries' \in Entries /\ assoc' \in AssocMaps /\ values' \in Values
             /\ counter' \in 0 .. ASSOC_SIZE
  <2>1. e \in [key : Nat, code : Int]
    BY <1>0, HashAssumption DEF Hashes
  <2>2. hash_entries' \in Entries
    <3> DEFINE S == [1 .. BUCKET_SIZE -> [key : Nat, code : Int]]
               x == [hash_entries[B] EXCEPT ![J] = e]
    <3> HIDE DEF e, J
    <3>1. hash_entries' = [hash_entries EXCEPT ![B] = x]
      BY <1>1
    <3>2. B \in 0 .. HASHMAP_CAPACITY - 1
      BY BucketType
    <3>3. hash_entries[B] \in S
      BY <1>0, <3>2 DEF Entries
    <3>4. x \in S
      BY <2>1, <3>3
    <3> HIDE DEF x, S, B
    <3>5. hash_entries \in [0 .. HASHMAP_CAPACITY - 1 -> S]
      BY <1>0 DEF Entries, S
    <3>6. hash_entries' \in [0 .. HASHMAP_CAPACITY - 1 -> S]
      BY <3>1, <3>4, <3>5
    <3> QED
      BY <3>6 DEF Entries, S
  <2> QED
    BY <1>0, <1>1, <2>2
<1>2. ASSUME counter < ASSOC_SIZE, NEW bits \in OneShifted(counter),
             assoc' = [f \in 0 .. 3 |-> [assoc[f] EXCEPT ![Field(f, h)] = @ \cup bits]],
             values' = [values EXCEPT ![counter] = code],
             counter' = counter + 1, UNCHANGED hash_entries
      PROVE  /\ hash_entries' \in Entries /\ assoc' \in AssocMaps /\ values' \in Values
             /\ counter' \in 0 .. ASSOC_SIZE
  <2>1. counter \in 0 .. ASSOC_SIZE - 1 /\ counter' \in 0 .. ASSOC_SIZE
    BY <1>0, <1>2
  <2>2. bits \in SUBSET (0 .. ASSOC_SIZE - 1)
    BY <1>0, <1>2, <2>1, ShiftedType
  <2>3. values' \in Values
    BY <1>0, <1>2 DEF Values
  <2> DEFINE S == SUBSET (0 .. ASSOC_SIZE - 1)
             T == [0 .. FIELD - 1 -> S]
  <2>4. ASSUME NEW f \in 0 .. 3 PROVE [assoc[f] EXCEPT ![Field(f, h)] = @ \cup bits] \in T
    <3> DEFINE g == assoc[f]
               x == Field(f, h)
    <3>1. x \in 0 .. FIELD - 1
      BY FieldType DEF Hashes
    <3>2. g \in T
      BY <1>0 DEF AssocMaps
    <3>3. g[x] \cup bits \in S
      BY <2>2, <3>1, <3>2
    <3> HIDE DEF g, x, S
    <3>4. [g EXCEPT ![x] = g[x] \cup bits] \in T
      BY <3>1, <3>2, <3>3
    <3> QED
      BY <3>4 DEF g, x
  <2>5. assoc' \in [0 .. 3 -> T]
    <3> HIDE DEF T
    <3> QED
      BY <1>2, <2>4
  <2> QED
    BY <1>0, <1>2, <2>1, <2>3, <2>5 DEF AssocMaps
<1>3. ASSUME UNCHANGED tables
      PROVE  /\ hash_entries' \in Entries /\ assoc' \in AssocMaps /\ values' \in Values
             /\ counter' \in 0 .. ASSOC_SIZE
  BY <1>0, <1>3 DEF tables
<1> QED
  BY <1>1, <1>2, <1>3, Zenon DEF Put

(* What the loop tries is a string, and so is the byte it goes on with. *)
LEMMA TriedType ==
  ASSUME TypeOK, Encoding
  PROVE  /\ Tried \in Words /\ Byte \in Bytes /\ i \in 0 .. Len(chunk) - 1
         /\ FNVHash(Tried) \in Hashes /\ OutCode \in Int
<1>1. /\ chunk \in Words /\ i \in 0 .. Len(chunk) - 1 /\ p \in Words
      /\ hash_entries \in Entries /\ assoc \in AssocMaps /\ values \in Values
  BY DEF TypeOK, Encoding, Words
<1>2. /\ chunk \in Seq(Bytes) /\ Len(chunk) \in Nat \ {0} /\ p \in Seq(Bytes) /\ p # << >>
      /\ \A k \in 1 .. Len(chunk) : chunk[k] \in Bytes
  BY <1>1 DEF Words
<1>3. Byte \in Bytes
  BY <1>1, <1>2 DEF Byte, LastRound
<1>4. Tried \in Words
  <2>1. CASE LastRound
    BY <1>1, <2>1 DEF Tried
  <2>2. CASE ~LastRound
    <3>1. chunk[i + 2] \in Bytes
      BY <1>1, <1>2, <2>2 DEF LastRound
    <3>2. Append(p, chunk[i + 2]) \in Seq(Bytes) /\ Append(p, chunk[i + 2]) # << >>
      BY <1>2, <3>1, AppendProperties
    <3> QED
      BY <2>2, <3>2 DEF Tried, Words
  <2> QED
    BY <2>1, <2>2
<1> DEFINE t == Tried
<1>5. t \in Seq(Bytes) /\ Len(t) \in Nat \ {0} /\ \A k \in 1 .. Len(t) : t[k] \in Bytes
  BY <1>4 DEF Words
<1> HIDE DEF t
<1>6. FNVHash(t) \in Hashes
  BY <1>5, HashType DEF Hashes
<1>7. t[1] \in Int
  BY <1>5, Sizes DEF Bytes
<1>8. FNVHash(Front(t)) \in Hashes
  <2>1. Front(t) \in Seq(Bytes)
    <3> DEFINE l == Len(t) - 1
    <3>1. 1 \in Int /\ l \in Int /\ \A k \in 1 .. l : t[k] \in Bytes
      BY <1>5
    <3> HIDE DEF l
    <3>2. SubSeq(t, 1, l) \in Seq(Bytes)
      BY <3>1, SubSeqProperties
    <3> QED
      BY <3>2 DEF Front, l
  <2> QED
    BY <2>1, HashType DEF Hashes
<1>9. Get(FNVHash(Front(t))) \in Int
  BY <1>1, <1>8, GetIs, GetType
<1>10. OutCode \in Int
  BY <1>7, <1>9, Zenon DEF OutCode, t
<1> QED
  BY <1>1, <1>3, <1>4, <1>6, <1>10 DEF t

(* The state a chunk starts in has the types. *)
LEMMA TypeInit == Init => TypeOK
<1> SUFFICES ASSUME Init PROVE TypeOK
  OBVIOUS
<1>1. chunk \in Words
  BY ChunksAssumption DEF Init, Words, Bytes
<1>2. stale \in Int /\ INT_BITS \in Nat \ {0}
  BY TableAssumption DEF Init
<1>3. /\ chunk \in Seq(Bytes) /\ Len(chunk) \in Nat /\ chunk[1] \in Bytes
  BY <1>1 DEF Words
<1>4. p \in Words
  BY <1>3 DEF Init, Words
<1>5. hash_entries \in Entries
  BY <1>2 DEF Init, Entries
<1>6. assoc \in AssocMaps
  BY DEF Init, AssocMaps
<1>7. values \in Values
  BY <1>2 DEF Init, Values
<1>8. code_table \in Seq(Words)
  <2>1. code_table = [b \in 1 .. FIRST_CODE |-> <<b - 1>>]
    BY DEF Init
  <2>2. \A b \in 1 .. FIRST_CODE : b - 1 \in Bytes
    BY Sizes DEF Bytes
  <2>3. \A b \in 1 .. FIRST_CODE : <<b - 1>> \in Words
    BY <2>2 DEF Words
  <2>4. code_table \in [1 .. FIRST_CODE -> Words]
    BY <2>1, <2>3
  <2> QED
    BY <2>4, Sizes
<1>9. counter \in 0 .. ASSOC_SIZE /\ code \in Nat
  BY TableAssumption, Sizes DEF Init
<1>10. i \in 0 .. Len(chunk)
  BY <1>3 DEF Init
<1>11. codes \in Seq(Int) /\ bytes \in Seq(ByteBits) /\ symbol \in Seq(Bytes) /\ output \in Seq(Bytes)
  BY DEF Init
<1>12. /\ pc \in {"encode", "pack", "first", "decode", "done", "undefined"}
       /\ already_sent \in BOOLEAN /\ position \in Nat /\ old \in Nat
  BY DEF Init
<1> QED
  BY <1>1, <1>2, <1>4, <1>5, <1>6, <1>7, <1>8, <1>9, <1>10, <1>11, <1>12, Zenon DEF TypeOK

(* Every step keeps the types. *)
LEMMA TypeStep == TypeOK /\ [Next]_vars => TypeOK'
<1> SUFFICES ASSUME TypeOK, [Next]_vars PROVE TypeOK'
  OBVIOUS
<1>1. CASE Match
  <2>1. Tried \in Words /\ i \in 0 .. Len(chunk) - 1
    BY <1>1, TriedType DEF Match
  <2>2. i + 1 \in 0 .. Len(chunk)
    BY <2>1 DEF TypeOK, Words
  <2> QED
    BY <1>1, <2>1, <2>2 DEF Match, TypeOK, given, tables, decoder
<1>2. CASE Emit
  <2>1. /\ Tried \in Words /\ Byte \in Bytes /\ i \in 0 .. Len(chunk) - 1
        /\ FNVHash(Tried) \in Hashes /\ OutCode \in Int
    BY <1>2, TriedType DEF Emit
  <2>2. i + 1 \in 0 .. Len(chunk)
    BY <2>1 DEF TypeOK, Words
  <2>3. Put(FNVHash(Tried))
    BY <1>2 DEF Emit
  <2>4. /\ hash_entries' \in Entries /\ assoc' \in AssocMaps /\ values' \in Values
        /\ counter' \in 0 .. ASSOC_SIZE
    <3> DEFINE h == FNVHash(Tried)
    <3> HIDE DEF h
    <3> QED
      BY <2>1, <2>3, PutType DEF h
  <2>5. codes' \in Seq(Int)
    <3>1. codes' = Append(codes, OutCode) /\ codes \in Seq(Int)
      BY <1>2 DEF Emit, TypeOK
    <3> QED
      BY <2>1, <3>1, AppendProperties
  <2>6. <<Byte>> \in Words
    BY <2>1 DEF Words
  <2>7. Sent \in BOOLEAN
    BY DEF Sent
  <2>8. code' \in Nat /\ already_sent' \in BOOLEAN /\ p' \in Words /\ i' \in 0 .. Len(chunk)
    BY <1>2, <2>2, <2>6, <2>7 DEF Emit, TypeOK
  <2> QED
    BY <1>2, <2>4, <2>5, <2>8 DEF Emit, TypeOK, given, decoder
<1>3. CASE EncodeEnds
  <2>1. /\ hash_entries \in Entries /\ assoc \in AssocMaps /\ values \in Values
        /\ p \in Seq(Bytes) /\ codes \in Seq(Int)
    BY DEF TypeOK, Words
  <2>2. Get(FNVHash(p)) \in Int
    <3>1. FNVHash(p) \in Hashes
      BY <2>1, HashType DEF Hashes
    <3> QED
      BY <2>1, <3>1, GetIs, GetType
  <2>3. codes' \in Seq(Int)
    BY <1>3, <2>1, <2>2, AppendProperties DEF EncodeEnds
  <2> QED
    BY <1>3, <2>3 DEF EncodeEnds, TypeOK, given, tables, decoder
<1>4. CASE PackBytes
  <2>1. bytes' \in Seq(ByteBits)
    BY <1>4, Packing DEF PackBytes, TypeOK
  <2> QED
    BY <1>4, <2>1 DEF PackBytes, TypeOK, given, encoder, tables, decoder
<1>5. CASE DecodeFirst
  <2>1. ReadCode \in Nat
    BY ReadType DEF TypeOK
  <2>2. ReadCode % FIRST_CODE \in Bytes
    BY <2>1, Sizes, DivMod DEF Bytes
  <2>3. symbol' \in Seq(Bytes) /\ output' \in Seq(Bytes)
    BY <1>5, <2>2 DEF DecodeFirst
  <2>4. position' \in Nat
    BY <1>5, Sizes DEF DecodeFirst, TypeOK
  <2> QED
    BY <1>5, <2>1, <2>3, <2>4 DEF DecodeFirst, TypeOK, given, encoder, tables
<1>6. CASE DecodeNext
  <2> DEFINE new == ReadCode
             e == code_table[old + 1]
             s == Symbols(new)
  <2>1. new \in Nat
    BY ReadType DEF TypeOK
  <2> HIDE DEF new
  <2>2. code_table \in Seq(Words) /\ old \in Nat /\ old < Len(code_table) /\ symbol \in Seq(Bytes)
    BY <1>6 DEF DecodeNext, IsCode, TypeOK
  <2>3. e \in Words
    <3>1. old + 1 \in 1 .. Len(code_table)
      BY <2>2
    <3> QED
      BY <2>2, <3>1, ElementOfSeq
  <2>4. s \in Words
    <3>1. CASE IsCode(new)
      <4>1. new + 1 \in 1 .. Len(code_table)
        BY <2>1, <2>2, <3>1 DEF IsCode
      <4>2. code_table[new + 1] \in Words
        BY <2>2, <4>1, ElementOfSeq
      <4> QED
        BY <3>1, <4>2 DEF Symbols
    <3>2. CASE ~IsCode(new)
      <4>1. s = e \o symbol
        BY <3>2 DEF Symbols
      <4> HIDE DEF e, s
      <4>2. e \in Seq(Bytes) /\ Len(e) \in Nat \ {0}
        BY <2>3 DEF Words
      <4>3. s \in Seq(Bytes) /\ Len(s) = Len(e) + Len(symbol)
        BY <2>2, <4>1, <4>2, ConcatProperties
      <4>4. s # << >>
        BY <2>2, <4>2, <4>3
      <4> QED
        BY <4>3, <4>4 DEF Words
    <3> QED
      BY <3>1, <3>2
  <2>5. s[1] \in Bytes /\ <<s[1]>> \in Seq(Bytes)
    <3> HIDE DEF s
    <3> QED
      BY <2>4 DEF Words
  <2>6. output \o s \in Seq(Bytes)
    <3> HIDE DEF s
    <3> QED
      BY <2>4, ConcatProperties DEF TypeOK, Words
  <2>7. Append(code_table, e \o <<s[1]>>) \in Seq(Words)
    <3> DEFINE t == e \o <<s[1]>>
               u == <<s[1]>>
    <3> HIDE DEF e, s
    <3>1. e \in Seq(Bytes) /\ Len(e) \in Nat \ {0} /\ u \in Seq(Bytes) /\ Len(u) = 1
      BY <2>3, <2>5 DEF Words
    <3> HIDE DEF u
    <3>2. e \o u \in Seq(Bytes) /\ Len(e \o u) = Len(e) + Len(u)
      BY <3>1, ConcatProperties
    <3>3. e \o u # << >>
      BY <3>1, <3>2
    <3>4. t \in Words
      BY <3>2, <3>3 DEF Words, u
    <3> HIDE DEF t
    <3> QED
      BY <2>2, <3>4, AppendProperties DEF t
  <2>8. /\ output' = output \o s /\ symbol' = <<s[1]>>
        /\ code_table' = Append(code_table, e \o <<s[1]>>)
        /\ old' = new /\ position' = position + CODE_LENGTH
        /\ UNCHANGED <<given, pc, encoder, bytes>>
    BY <1>6 DEF DecodeNext, new
  <2> HIDE DEF s, e
  <2>9. position' \in Nat
    BY <2>8, Sizes DEF TypeOK
  <2> QED
    BY <2>1, <2>5, <2>6, <2>7, <2>8, <2>9 DEF TypeOK, given, encoder, tables
<1>7. CASE DecodeUndefined
  BY <1>7 DEF DecodeUndefined, TypeOK, given, encoder, tables, decoder
<1>8. CASE DecodeEnds
  BY <1>8 DEF DecodeEnds, TypeOK, given, encoder, tables, decoder
<1>9. CASE UNCHANGED vars
  BY <1>9 DEF vars, TypeOK, given, encoder, tables, decoder
<1> QED
  BY <1>1, <1>2, <1>3, <1>4, <1>5, <1>6, <1>7, <1>8, <1>9 DEF Next

(* Every state of the kernel and its decoder is well-formed: the codes and the   *)
(* tables hold integers, every packed byte has its bits, every string of the     *)
(* decoder's table has a byte (Decompress() reads its first).                   *)
THEOREM TypeCorrect == Spec => []TypeOK
<1>1. Init => TypeOK
  BY TypeInit
<1>2. TypeOK /\ [Next]_vars => TypeOK'
  BY TypeStep
<1> QED
  BY <1>1, <1>2, PTL DEF Spec

-----------------------------------------------------------------------------
(* The decoder in step with the packed codes *)

(* Factors and order. *)
LEMMA FactorLess ==
  ASSUME NEW a \in Nat, NEW b \in Nat, NEW c \in Nat
  PROVE  /\ b <= c => a * b <= a * c
         /\ a * b < a * c => b < c
<1>1. ASSUME NEW x \in Nat, NEW y \in Nat, x <= y PROVE a * x <= a * y
  <2> DEFINE d == y - x
             u == a * x
             v == a * d
  <2>1. d \in Nat /\ y = x + d
    BY <1>1
  <2> HIDE DEF d
  <2>2. a * y = u + v /\ u \in Nat /\ v \in Nat
    BY <2>1, Distributes
  <2> HIDE DEF u, v
  <2>3. u <= a * y
    BY <2>2
  <2> QED
    BY <2>3 DEF u
<1>2. ASSUME a * b < a * c PROVE b < c
  <2> SUFFICES ASSUME ~(b < c) PROVE FALSE
    OBVIOUS
  <2>1. c <= b
    OBVIOUS
  <2>2. a * c <= a * b
    BY <1>1, <2>1
  <2> DEFINE u == a * b
             v == a * c
  <2>3. u \in Nat /\ v \in Nat
    BY Distributes
  <2>4. u < v /\ v <= u
    BY <1>2, <2>2
  <2> HIDE DEF u, v
  <2> QED
    BY <2>3, <2>4
<1> QED
  BY <1>1, <1>2

(* There is more to read exactly when a code is left: a code is longer than a     *)
(* byte, and what fills the last byte is shorter.                              *)
LEMMA CodesLeft ==
  ASSUME NEW n \in Nat, NEW t \in 1 .. n, NEW L \in Nat, PackedSize(L, n)
  PROVE  ((CODE_LENGTH * t) \div BYTE_BITS < L - 1) <=> t < n
<1> DEFINE x == CODE_LENGTH * t
           q == x \div BYTE_BITS
           r == x % BYTE_BITS
           z == CODE_LENGTH * n
           y == BYTE_BITS * L
           w == BYTE_BITS * q
<1>1. x \in Nat /\ z \in Nat /\ y \in Nat
  BY Sizes, Distributes
<1>2. z <= y /\ y < z + BYTE_BITS
  BY DEF PackedSize
<1>3. q \in Nat /\ r \in 0 .. BYTE_BITS - 1 /\ x = w + r
  <2> HIDE DEF x
  <2> QED
    BY <1>1, Sizes, DivMod
<1> HIDE DEF q, r
<1>4. w \in Nat
  BY <1>3, Sizes, Distributes
<1>5. CASE t < n
  <2> DEFINE m == t + 1
  <2>1. m \in Nat /\ m <= n
    BY <1>5
  <2> HIDE DEF m
  <2>2. CODE_LENGTH * m <= z
    BY <2>1, Sizes, FactorLess
  <2>3. CODE_LENGTH * (t + 1) = x + CODE_LENGTH * 1 /\ CODE_LENGTH * 1 = CODE_LENGTH
    BY Sizes, Distributes
  <2>4. x + CODE_LENGTH <= z
    BY <2>2, <2>3 DEF m
  <2>5. BYTE_BITS * (q + 1) = w + BYTE_BITS * 1 /\ BYTE_BITS * 1 = BYTE_BITS
    BY <1>3, Sizes, Distributes
  <2>6. w + BYTE_BITS < y
    <3> HIDE DEF w, x, y, z
    <3> QED
      BY <1>1, <1>2, <1>3, <1>4, <2>4, Sizes
  <2>7. BYTE_BITS * (q + 1) < BYTE_BITS * L
    BY <2>5, <2>6
  <2>8. q + 1 < L
    BY <1>3, <2>7, Sizes, FactorLess
  <2> HIDE DEF x
  <2>9. q < L - 1
    BY <1>3, <2>8
  <2> QED
    BY <1>5, <2>9 DEF q, x
<1>6. CASE ~(t < n)
  <2>1. t = n
    BY <1>6
  <2>2. x = z
    BY <2>1
  <2>3. BYTE_BITS * (q + 2) = w + BYTE_BITS * 2 /\ BYTE_BITS * 2 = BYTE_BITS + BYTE_BITS
    BY <1>3, Sizes, Distributes
  <2>4. y < w + (BYTE_BITS + BYTE_BITS)
    <3> HIDE DEF w, x, y, z
    <3> QED
      BY <1>1, <1>2, <1>3, <1>4, <2>2, Sizes
  <2>5. BYTE_BITS * L < BYTE_BITS * (q + 2)
    BY <2>3, <2>4
  <2>6. L < q + 2
    BY <1>3, <2>5, Sizes, FactorLess
  <2> HIDE DEF x
  <2>7. ~(q < L - 1)
    BY <1>3, <2>6
  <2> QED
    BY <1>6, <2>7 DEF q, x
<1> QED
  BY <1>5, <1>6

(* The decoder is behind code t, with t - 1 strings in its table. *)
Behind(t) == position = CODE_LENGTH * t /\ Len(code_table) = FIRST_CODE + (t - 1)

(* Where the decoder stands, in every phase. *)
Sync ==
  /\ pc \in {"encode", "pack", "first"} => position = 0 /\ Len(code_table) = FIRST_CODE
  /\ (pc = "encode" /\ already_sent) \/ pc \in {"pack", "first"} => codes # << >>
  /\ pc \in {"first", "decode"} => bytes = Pack(codes)
  /\ pc = "decode" => \E t \in 1 .. Len(codes) : Behind(t)
  /\ pc = "done" => position = CODE_LENGTH * Len(codes)

(* At the start nothing has been read. *)
LEMMA SyncInit == Init => Sync
<1> SUFFICES ASSUME Init PROVE Sync
  OBVIOUS
<1>1. Len(code_table) = FIRST_CODE
  <2>1. code_table = [b \in 1 .. FIRST_CODE |-> <<b - 1>>]
    BY DEF Init
  <2> QED
    BY <2>1, Sizes
<1> QED
  BY <1>1 DEF Init, Sync

(* Every step keeps the decoder where the encoder's codes are. *)
LEMMA SyncStep == TypeOK /\ Sync /\ [Next]_vars => Sync'
<1> SUFFICES ASSUME TypeOK, Sync, [Next]_vars PROVE Sync'
  OBVIOUS
<1>0. codes \in Seq(Int) /\ Len(codes) \in Nat /\ (codes # << >> => 1 \in 1 .. Len(codes))
  BY DEF TypeOK
<1>1. CASE Match
  BY <1>1 DEF Match, Encoding, Sync, decoder
<1>2. CASE Emit
  <2>1. codes' # << >>
    <3>1. OutCode \in Int
      BY <1>2, TriedType DEF Emit
    <3> QED
      BY <1>0, <1>2, <3>1, AppendProperties DEF Emit
  <2> QED
    BY <1>2, <2>1 DEF Emit, Encoding, Sync, decoder
<1>3. CASE EncodeEnds
  <2>1. codes' # << >>
    <3>1. CASE already_sent
      BY <1>3, <3>1 DEF EncodeEnds, Sync
    <3>2. CASE ~already_sent
      <4> DEFINE e == Get(FNVHash(p))
      <4>1. codes' = Append(codes, e)
        BY <1>3, <3>2 DEF EncodeEnds
      <4> HIDE DEF e
      <4>2. Len(codes') = Len(codes) + 1
        BY <1>0, <4>1
      <4> QED
        BY <1>0, <4>2
    <3> QED
      BY <3>1, <3>2
  <2> QED
    BY <1>3, <2>1 DEF EncodeEnds, Sync, decoder
<1>4. CASE PackBytes
  BY <1>4 DEF PackBytes, Sync, encoder, decoder
<1>5. CASE DecodeFirst
  <2>1. /\ pc' = "decode" /\ position' = CODE_LENGTH /\ Len(code_table') = FIRST_CODE
        /\ codes' = codes /\ bytes' = bytes /\ codes # << >> /\ bytes = Pack(codes)
    BY <1>5, Sizes DEF DecodeFirst, Sync, encoder
  <2>2. 1 \in 1 .. Len(codes') /\ CODE_LENGTH * 1 = CODE_LENGTH /\ FIRST_CODE + (1 - 1) = FIRST_CODE
    BY <1>0, <2>1, Sizes
  <2>3. \E t \in 1 .. Len(codes') : Behind(t)'
    BY <2>1, <2>2 DEF Behind
  <2> QED
    BY <2>1, <2>3 DEF Sync
<1>6. CASE DecodeNext
  <2>1. /\ pc = "decode" /\ pc' = "decode" /\ codes' = codes /\ bytes' = bytes
        /\ bytes = Pack(codes) /\ position' = position + CODE_LENGTH /\ MoreCodes
    BY <1>6 DEF DecodeNext, Sync, encoder
  <2>2. PICK t \in 1 .. Len(codes) : Behind(t)
    BY <2>1 DEF Sync
  <2>3. PackedSize(Len(bytes), Len(codes)) /\ Len(bytes) \in Nat
    BY <1>0, <2>1, Packing DEF TypeOK
  <2>4. t < Len(codes)
    BY <1>0, <2>1, <2>2, <2>3, CodesLeft DEF MoreCodes, Behind
  <2>5. t + 1 \in 1 .. Len(codes')
    BY <1>0, <2>1, <2>4
  <2>6. position' = CODE_LENGTH * (t + 1)
    <3>1. CODE_LENGTH * (t + 1) = CODE_LENGTH * t + CODE_LENGTH * 1 /\ CODE_LENGTH * 1 = CODE_LENGTH
      BY Sizes, Distributes
    <3> QED
      BY <2>1, <2>2, <3>1 DEF Behind
  <2>7. Len(code_table') = FIRST_CODE + ((t + 1) - 1)
    <3> DEFINE e == code_table[old + 1] \o <<Symbols(ReadCode)[1]>>
    <3>1. code_table' = Append(code_table, e)
      BY <1>6 DEF DecodeNext
    <3> HIDE DEF e
    <3>2. Len(code_table') = Len(code_table) + 1
      BY <3>1 DEF TypeOK
    <3> QED
      BY <2>2, <3>2, Sizes DEF Behind
  <2>8. \E u \in 1 .. Len(codes') : Behind(u)'
    BY <2>5, <2>6, <2>7 DEF Behind
  <2> QED
    BY <2>1, <2>8 DEF Sync
<1>7. CASE DecodeUndefined
  BY <1>7 DEF DecodeUndefined, Sync, encoder, decoder
<1>8. CASE DecodeEnds
  <2>1. /\ pc = "decode" /\ pc' = "done" /\ codes' = codes /\ bytes' = bytes
        /\ bytes = Pack(codes) /\ position' = position /\ ~MoreCodes
    BY <1>8 DEF DecodeEnds, Sync, encoder, decoder
  <2>2. PICK t \in 1 .. Len(codes) : Behind(t)
    BY <2>1 DEF Sync
  <2>3. PackedSize(Len(bytes), Len(codes)) /\ Len(bytes) \in Nat
    BY <1>0, <2>1, Packing DEF TypeOK
  <2>4. ~(t < Len(codes))
    BY <1>0, <2>1, <2>2, <2>3, CodesLeft DEF MoreCodes, Behind
  <2>5. t = Len(codes)
    BY <1>0, <2>4
  <2> QED
    BY <2>1, <2>2, <2>5 DEF Sync, Behind
<1>9. CASE UNCHANGED vars
  BY <1>9 DEF vars, Sync, Behind, given, encoder, tables, decoder
<1> QED
  BY <1>1, <1>2, <1>3, <1>4, <1>5, <1>6, <1>7, <1>8, <1>9 DEF Next

(* Where the decoder stands is what DecoderInStep says. *)
LEMMA SyncInStep == TypeOK /\ Sync => DecoderInStep
<1> SUFFICES ASSUME TypeOK, Sync PROVE DecoderInStep
  OBVIOUS
<1>0. Len(codes) \in Nat
  BY DEF TypeOK
<1>1. ASSUME pc = "decode"
      PROVE  /\ position <= Len(codes) * CODE_LENGTH
             /\ Len(code_table) = FIRST_CODE + position \div CODE_LENGTH - 1
  <2>1. PICK t \in 1 .. Len(codes) : Behind(t)
    BY <1>1 DEF Sync
  <2>2. CODE_LENGTH * t <= CODE_LENGTH * Len(codes)
    <3> DEFINE n == Len(codes)
    <3>1. n \in Nat /\ t \in Nat /\ t <= n
      BY <1>0
    <3> HIDE DEF n
    <3> QED
      BY <3>1, Sizes, FactorLess DEF n
  <2>3. CODE_LENGTH * Len(codes) = Len(codes) * CODE_LENGTH
    BY <1>0, Sizes, SMT
  <2>4. (CODE_LENGTH * t) \div CODE_LENGTH = t
    <3> DEFINE x == CODE_LENGTH * t
               q == x \div CODE_LENGTH
               r == x % CODE_LENGTH
    <3>1. x \in Nat
      BY Sizes, Distributes
    <3>2. q \in Nat /\ r \in 0 .. CODE_LENGTH - 1 /\ x = CODE_LENGTH * q + r
      <4> HIDE DEF x
      <4> QED
        BY <3>1, Sizes, DivMod
    <3> HIDE DEF q, r
    <3>3. CODE_LENGTH * q + r = CODE_LENGTH * t + 0
      BY <3>1, <3>2
    <3>4. 0 \in 0 .. CODE_LENGTH - 1 /\ t \in Nat
      BY Sizes
    <3>5. q = t
      BY <3>2, <3>3, <3>4, Sizes, QuotientRemainder
    <3> QED
      BY <3>5 DEF q
  <2> QED
    BY <2>1, <2>2, <2>3, <2>4 DEF Behind
<1>2. ASSUME pc = "done" PROVE position = Len(codes) * CODE_LENGTH
  <2>1. CODE_LENGTH * Len(codes) = Len(codes) * CODE_LENGTH
    BY <1>0, Sizes, SMT
  <2> QED
    BY <1>2, <2>1 DEF Sync
<1> QED
  BY <1>1, <1>2 DEF DecoderInStep

(* The decoder finds each code where bit_pack() put it, takes no padding for a    *)
(* code, stops after the last one, and its table stays one string behind.      *)
THEOREM DecoderStaysInStep == Spec => []DecoderInStep
<1>1. Init => TypeOK /\ Sync
  BY TypeInit, SyncInit
<1>2. TypeOK /\ Sync /\ [Next]_vars => TypeOK' /\ Sync'
  BY TypeStep, SyncStep
<1>3. TypeOK /\ Sync => DecoderInStep
  BY SyncInStep
<1> QED
  BY <1>1, <1>2, <1>3, PTL DEF Spec

-----------------------------------------------------------------------------
(* A hash that tells the chunk's strings apart *)

StringsOf(s) == {SubSeq(s, a, b) : a, b \in 1 .. Len(s)} \ {<< >>}
Distinct(s) ==
  \A x, y \in StringsOf(s) : FNVHash(x) # 0 /\ (FNVHash(x) = FNVHash(y) => x = y)

(* Strings and hashes are equally many: no two strings share a hash. *)
LEMMA Apart ==
  ASSUME TypeOK, HashTellsApart
  PROVE  Distinct(chunk)
<1> DEFINE n == Len(chunk)
           S == StringsOf(chunk)
           H == {FNVHash(s) : s \in S}
           P == (1 .. n) \X (1 .. n)
           T == {SubSeq(chunk, a, b) : a, b \in 1 .. n}
           f == [x \in S |-> FNVHash(x)]
           g == [x \in P |-> SubSeq(chunk, x[1], x[2])]
<1>1. n \in Nat
  BY DEF TypeOK, Words
<1>2. 0 \notin H /\ Cardinality(H) = Cardinality(S)
  BY DEF HashTellsApart, Strings, StringsOf
<1>3. IsFiniteSet(S)
  <2>1. IsFiniteSet(1 .. n)
    <3> HIDE DEF n
    <3> QED
      BY <1>1, FS_Interval
  <2>2. IsFiniteSet(P)
    <3> HIDE DEF n
    <3> QED
      BY <2>1, FS_Product
  <2>3. g \in Surjection(P, T)
    <3>1. g \in [P -> T]
      OBVIOUS
    <3>2. ASSUME NEW t \in T PROVE \E x \in P : g[x] = t
      <4>1. PICK a \in 1 .. n, b \in 1 .. n : t = SubSeq(chunk, a, b)
        OBVIOUS
      <4>2. <<a, b>> \in P /\ g[<<a, b>>] = t
        <5> DEFINE x == <<a, b>>
        <5>1. x \in P /\ x[1] = a /\ x[2] = b
          OBVIOUS
        <5> HIDE DEF x, P
        <5>2. g[x] = SubSeq(chunk, x[1], x[2])
          BY <5>1
        <5> QED
          BY <4>1, <5>1, <5>2 DEF x
      <4> QED
        BY <4>2
    <3> HIDE DEF g, P, T
    <3> QED
      BY <3>1, <3>2 DEF Surjection
  <2>4. IsFiniteSet(T)
    <3> HIDE DEF g, P, T
    <3> QED
      BY <2>2, <2>3, FS_Surjection
  <2>5. S \in SUBSET T
    BY DEF StringsOf
  <2> HIDE DEF S, T
  <2> QED
    BY <2>4, <2>5, FS_Subset
<1> HIDE DEF S
<1>4. f \in Surjection(S, H)
  <2>1. f \in [S -> H]
    OBVIOUS
  <2>2. \A h \in H : \E x \in S : f[x] = h
    OBVIOUS
  <2> HIDE DEF f, H
  <2> QED
    BY <2>1, <2>2 DEF Surjection
<1>5. f \in Injection(S, H)
  <2> HIDE DEF f, H
  <2> QED
    BY <1>2, <1>3, <1>4, FS_SurjSameCardinalityImpliesInj
<1>6. ASSUME NEW x \in S, NEW y \in S PROVE FNVHash(x) # 0 /\ (FNVHash(x) = FNVHash(y) => x = y)
  <2>1. f[x] = FNVHash(x) /\ f[y] = FNVHash(y) /\ FNVHash(x) \in H
    OBVIOUS
  <2>2. f[x] = f[y] => x = y
    <3> HIDE DEF f, H
    <3> QED
      BY <1>5 DEF Injection, IsInjective
  <2> HIDE DEF f
  <2> QED
    BY <1>2, <2>1, <2>2
<1> QED
  BY <1>6 DEF Distinct, S

(* Every string of bytes of the chunk is among them. *)
LEMMA SliceInside ==
  ASSUME NEW s \in Seq(Bytes), NEW a \in Nat, NEW b \in a + 1 .. Len(s)
  PROVE  Slice(s, a, b) \in StringsOf(s) /\ FNVHash(Slice(s, a, b)) \in Hashes
<1>1. a + 1 \in 1 .. Len(s) /\ b \in 1 .. Len(s)
  OBVIOUS
<1>2. Slice(s, a, b) \in Words
  BY SliceFirst
<1>3. Slice(s, a, b) \in StringsOf(s)
  BY <1>1, <1>2 DEF Slice, StringsOf, Words
<1>4. FNVHash(Slice(s, a, b)) \in Hashes
  BY <1>2, HashType DEF Words, Hashes
<1> QED
  BY <1>3, <1>4

-----------------------------------------------------------------------------
(* The chunk as the encoder divides it: phrase k is behind byte st[k], up to byte  *)
(* st[k + 1]; the string that is kept with its code is a byte longer.           *)

Phrase(s, st, k) == Slice(s, st[k], st[k + 1])
Added(s, st, m)  == Slice(s, st[m], st[m + 1] + 1)

(* What a code stands for: a byte, or an earlier string that was kept. *)
Means(s, st, k, x) ==
  \/ st[k + 1] = st[k] + 1 /\ x = s[st[k] + 1]
  \/ /\ st[k] + 1 < st[k + 1]
     /\ \E j \in 1 .. k - 1 : x = FIRST_CODE + (j - 1) /\ Added(s, st, j) = Phrase(s, st, k)

Parsed(s, st, c) ==
  /\ st \in Seq(Nat) /\ Len(st) = Len(c) + 1 /\ st[1] = 0
  /\ \A k \in 1 .. Len(c) :
       st[k] < st[k + 1] /\ k - 1 <= st[k] /\ st[k + 1] <= Len(s) /\ Means(s, st, k, c[k])

(* Where the strings are. *)
LEMMA ParsedType ==
  ASSUME NEW s, NEW c \in Seq(Int), NEW st, Parsed(s, st, c), NEW k \in 1 .. Len(c)
  PROVE  /\ st[k] \in Nat /\ st[k + 1] \in Nat /\ st[k] + 1 <= st[k + 1]
         /\ k \in Nat /\ k - 1 <= st[k] /\ st[k + 1] <= Len(s) /\ Means(s, st, k, c[k])
<1>1. st \in Seq(Nat) /\ Len(st) = Len(c) + 1 /\ Len(c) \in Nat
  BY DEF Parsed
<1>2. k \in 1 .. Len(st) /\ k + 1 \in 1 .. Len(st) /\ k \in Nat
  BY <1>1
<1>3. st[k] \in Nat /\ st[k + 1] \in Nat
  BY <1>1, <1>2, ElementOfSeq
<1>4. st[k] < st[k + 1] /\ k - 1 <= st[k] /\ st[k + 1] <= Len(s) /\ Means(s, st, k, c[k])
  BY DEF Parsed
<1>5. st[k] + 1 <= st[k + 1]
  BY <1>3, <1>4
<1> QED
  BY <1>2, <1>3, <1>4, <1>5

(* A byte that is not the first of its phrase comes after one that is. *)
LEMMA ParsedOrder ==
  ASSUME NEW s, NEW c \in Seq(Int), NEW st, Parsed(s, st, c)
  PROVE  \A k \in 1 .. Len(c) + 1 : \A j \in 1 .. k : st[j] <= st[k] /\ st[j] \in Nat
<1> DEFINE N == Len(c)
           Q(k) == \A j \in 1 .. k : st[j] <= st[k] /\ st[j] \in Nat
           S == {n \in Nat : n <= N => Q(n + 1)}
<1>0. N \in Nat /\ st[1] = 0
  BY DEF Parsed
<1>1. 0 \in S
  <2>1. Q(1)
    BY <1>0
  <2> QED
    BY <2>1
<1>2. ASSUME NEW n \in Nat, n \in S PROVE n + 1 \in S
  <2> SUFFICES ASSUME n + 1 <= N PROVE Q((n + 1) + 1)
    OBVIOUS
  <2> DEFINE k == n + 1
  <2>1. k \in 1 .. N /\ Q(k)
    BY <1>0, <1>2
  <2>2. st[k] \in Nat /\ st[k + 1] \in Nat /\ st[k] + 1 <= st[k + 1]
    <3> HIDE DEF k
    <3> QED
      BY <2>1, ParsedType
  <2> HIDE DEF k
  <2>3. ASSUME NEW j \in 1 .. k + 1 PROVE st[j] <= st[k + 1] /\ st[j] \in Nat
    <3>1. CASE j = k + 1
      BY <2>2, <3>1
    <3>2. CASE j # k + 1
      <4>1. j \in 1 .. k
        BY <2>1, <3>2
      <4>2. st[j] <= st[k] /\ st[j] \in Nat
        BY <2>1, <4>1
      <4> QED
        BY <2>2, <4>2
    <3> QED
      BY <3>1, <3>2
  <2> QED
    BY <2>3 DEF k
<1> HIDE DEF S
<1>3. Nat \subseteq S
  BY <1>1, <1>2, Induct
<1> SUFFICES ASSUME NEW k \in 1 .. N + 1 PROVE Q(k)
  OBVIOUS
<1>4. k - 1 \in Nat /\ k - 1 <= N /\ (k - 1) + 1 = k
  BY <1>0
<1>5. Q((k - 1) + 1)
  BY <1>3, <1>4 DEF S
<1> QED
  BY <1>4, <1>5

(* One phrase and its code more. *)
LEMMA ParsedMore ==
  ASSUME NEW s \in Seq(Bytes), NEW c \in Seq(Int), NEW st, Parsed(s, st, c), NEW x \in Int,
         NEW e \in st[Len(c) + 1] + 1 .. Len(s),
         Means(s, Append(st, e), Len(c) + 1, x)
  PROVE  /\ Parsed(s, Append(st, e), Append(c, x)) /\ Append(st, e)[Len(c) + 2] = e
         /\ \A k \in 1 .. Len(c) + 1 : Append(st, e)[k] = st[k]
         /\ \A k \in 1 .. Len(c) : Added(s, Append(st, e), k) = Added(s, st, k)
<1> DEFINE n == Len(c)
           u == Append(st, e)
           d == Append(c, x)
<1>1. st \in Seq(Nat) /\ Len(st) = n + 1 /\ n \in Nat /\ st[1] = 0
  BY DEF Parsed
<1>2. n + 1 \in 1 .. Len(st)
  BY <1>1
<1>3. st[n + 1] \in Nat
  BY <1>1, <1>2, ElementOfSeq
<1>4. e \in Nat /\ st[n + 1] < e /\ e <= Len(s)
  BY <1>3
<1>5. /\ u \in Seq(Nat) /\ Len(u) = n + 2 /\ u[n + 2] = e
      /\ \A k \in 1 .. n + 1 : u[k] = st[k]
  <2>1. /\ u \in Seq(Nat) /\ Len(u) = Len(st) + 1 /\ u[Len(st) + 1] = e
        /\ \A k \in 1 .. Len(st) : u[k] = st[k]
    BY <1>1, <1>4, AppendProperties
  <2>2. Len(st) + 1 = n + 2
    BY <1>1
  <2> QED
    BY <1>1, <2>1, <2>2
<1>6. Len(d) = n + 1 /\ d[n + 1] = x /\ \A k \in 1 .. n : d[k] = c[k]
  BY AppendProperties
<1> HIDE DEF u, d
<1>7. ASSUME NEW k \in 1 .. n
      PROVE  u[k] = st[k] /\ u[k + 1] = st[k + 1] /\ Added(s, u, k) = Added(s, st, k)
  <2>1. k \in 1 .. n + 1 /\ k + 1 \in 1 .. n + 1
    BY <1>1
  <2> QED
    BY <1>5, <2>1 DEF Added
<1>8. n <= st[n + 1]
  <2>1. CASE n = 0
    BY <1>1, <2>1
  <2>2. CASE n # 0
    <3>1. n \in 1 .. n
      BY <1>1, <2>2
    <3>2. st[n] \in Nat /\ st[n] + 1 <= st[n + 1] /\ n - 1 <= st[n]
      BY <3>1, ParsedType
    <3> QED
      BY <1>1, <1>3, <3>2
  <2> QED
    BY <2>1, <2>2
<1>9. ASSUME NEW k \in 1 .. n + 1
      PROVE  u[k] < u[k + 1] /\ k - 1 <= u[k] /\ u[k + 1] <= Len(s) /\ Means(s, u, k, d[k])
  <2>1. CASE k = n + 1
    <3>1. (n + 1) + 1 = n + 2 /\ (n + 1) - 1 = n /\ n + 1 \in 1 .. n + 1
      BY <1>1
    <3> QED
      BY <1>4, <1>5, <1>6, <1>8, <2>1, <3>1 DEF u
  <2>2. CASE k # n + 1
    <3>1. k \in 1 .. n
      BY <1>1, <2>2
    <3>2. /\ st[k] < st[k + 1] /\ k - 1 <= st[k] /\ st[k + 1] <= Len(s)
          /\ Means(s, st, k, c[k])
      BY <3>1 DEF Parsed
    <3>3. \A j \in 1 .. k - 1 : j \in 1 .. n
      BY <1>1, <3>1
    <3>4. Means(s, u, k, c[k])
      BY <1>7, <3>1, <3>2, <3>3 DEF Means, Phrase
    <3> QED
      BY <1>6, <1>7, <3>1, <3>2, <3>4
  <2> QED
    BY <2>1, <2>2
<1>10. 1 \in 1 .. n + 1 /\ n + 2 = (n + 1) + 1
  BY <1>1
<1>11. Parsed(s, u, d)
  BY <1>1, <1>5, <1>6, <1>9, <1>10 DEF Parsed
<1> QED
  BY <1>5, <1>7, <1>11 DEF u, d

-----------------------------------------------------------------------------
(* The tables as a table of the strings that were kept *)

KeptIn(s, st, n, e) ==
  \E m \in 1 .. n : e = [key |-> FNVHash(Added(s, st, m)), code |-> FIRST_CODE + (m - 1)]

(* Bit x of the words is set for one of the strings, and for no other. *)
BitFor(A, x, h) == \A f \in 0 .. 3, y \in 0 .. FIELD - 1 : x \in A[f][y] <=> y = Field(f, h)

KeptAt(s, st, n, A, V, x) ==
  \E m \in 1 .. n : V[x] = FIRST_CODE + (m - 1) /\ BitFor(A, x, FNVHash(Added(s, st, m)))

(* An entry is empty or one of the strings; so is every used bit of the words.  *)
Kept(s, st, n, E, A, V, C) ==
  /\ \A b \in 0 .. HASHMAP_CAPACITY - 1, j \in 1 .. BUCKET_SIZE :
       E[b][j].key # 0 => KeptIn(s, st, n, E[b][j])
  /\ \A x \in 0 .. C - 1 : KeptAt(s, st, n, A, V, x)
  /\ \A f \in 0 .. 3, y \in 0 .. FIELD - 1 : A[f][y] \subseteq 0 .. C - 1

(* The strings that were kept are strings of the chunk. *)
Inside(s, st, n) == \A m \in 1 .. n : Added(s, st, m) \in StringsOf(s) /\ FNVHash(Added(s, st, m)) \in Hashes

(* A code that is found is that of the string. *)
LEMMA GetSound ==
  ASSUME NEW E \in Entries, NEW A \in AssocMaps, NEW V \in Values, NEW C,
         NEW s, Distinct(s), NEW st, NEW n \in Nat, Kept(s, st, n, E, A, V, C), Inside(s, st, n),
         NEW x \in StringsOf(s), FNVHash(x) \in Hashes,
         GetIn(E, A, V, FNVHash(x)) # MISS
  PROVE  \E m \in 1 .. n : /\ GetIn(E, A, V, FNVHash(x)) = FIRST_CODE + (m - 1)
                           /\ Added(s, st, m) = x
<1> DEFINE h == FNVHash(x)
<1>1. h \in Hashes /\ h # 0
  BY DEF Distinct
<1>2. ASSUME NEW m \in 1 .. n, FNVHash(Added(s, st, m)) = h PROVE Added(s, st, m) = x
  BY <1>2 DEF Distinct, Inside
<1>3. CASE BucketGet(E, h) # MISS
  <2>1. GetIn(E, A, V, h) = BucketGet(E, h)
    BY <1>3 DEF GetIn
  <2>2. PICK b \in 0 .. HASHMAP_CAPACITY - 1, j \in 1 .. BUCKET_SIZE :
          E[b][j].key = h /\ E[b][j].code = BucketGet(E, h)
    <3> HIDE DEF h
    <3> QED
      BY <1>1, <1>3, BucketFinds
  <2>3. PICK m \in 1 .. n : E[b][j] = [key |-> FNVHash(Added(s, st, m)), code |-> FIRST_CODE + (m - 1)]
    BY <1>1, <2>2 DEF Kept, KeptIn
  <2>4. FNVHash(Added(s, st, m)) = h /\ BucketGet(E, h) = FIRST_CODE + (m - 1)
    BY <2>2, <2>3
  <2> QED
    BY <1>2, <2>1, <2>4
<1>4. CASE ~(BucketGet(E, h) # MISS)
  <2>1. GetIn(E, A, V, h) = WordsGet(A, V, h)
    BY <1>4 DEF GetIn
  <2>2. PICK b \in 0 .. ASSOC_SIZE - 1 :
          WordsGet(A, V, h) = V[b] /\ \A f \in 0 .. 3 : b \in A[f][Field(f, h)]
    <3>1. WordsGet(A, V, h) # MISS
      BY <2>1
    <3> HIDE DEF h
    <3> QED
      BY <1>1, <3>1, WordsFind
  <2>3. b \in 0 .. C - 1
    <3>1. 0 \in 0 .. 3
      OBVIOUS
    <3>2. Field(0, h) \in 0 .. FIELD - 1
      BY <1>1, <3>1, FieldType DEF Hashes
    <3> QED
      BY <2>2, <3>1, <3>2 DEF Kept
  <2>4. PICK m \in 1 .. n :
          V[b] = FIRST_CODE + (m - 1) /\ BitFor(A, b, FNVHash(Added(s, st, m)))
    BY <2>3 DEF Kept, KeptAt
  <2> DEFINE g == FNVHash(Added(s, st, m))
  <2>5. g \in Hashes
    BY DEF Inside
  <2>6. \A f \in 0 .. 3 : Field(f, g) = Field(f, h)
    <3> SUFFICES ASSUME NEW f \in 0 .. 3 PROVE Field(f, g) = Field(f, h)
      OBVIOUS
    <3>1. Field(f, h) \in 0 .. FIELD - 1
      BY <1>1, FieldType DEF Hashes
    <3> QED
      BY <2>2, <2>4, <3>1 DEF BitFor
  <2>7. g = h
    <3> HIDE DEF g, h
    <3> QED
      BY <1>1, <2>5, <2>6, FieldsTell DEF Hashes
  <2> QED
    BY <1>2, <2>1, <2>2, <2>4, <2>7
<1> QED
  BY <1>3, <1>4

(* Kept strings stay kept when the chunk is divided further. *)
LEMMA KeptMore ==
  ASSUME NEW s, NEW st, NEW u, NEW n \in Nat, NEW E, NEW A, NEW V, NEW C,
         Kept(s, st, n, E, A, V, C), \A m \in 1 .. n : Added(s, u, m) = Added(s, st, m)
  PROVE  Kept(s, u, n + 1, E, A, V, C)
<1>1. \A m \in 1 .. n : m \in 1 .. n + 1
  OBVIOUS
<1>2. ASSUME NEW e, KeptIn(s, st, n, e) PROVE KeptIn(s, u, n + 1, e)
  BY <1>1, <1>2, Zenon DEF KeptIn
<1>3. ASSUME NEW x, KeptAt(s, st, n, A, V, x) PROVE KeptAt(s, u, n + 1, A, V, x)
  BY <1>1, <1>3, Zenon DEF KeptAt
<1> QED
  BY <1>2, <1>3, Zenon DEF Kept

(* A string that is put into the tables, or dropped, leaves them a table of      *)
(* strings, as long as an int has the bit that is set for it.                  *)
LEMMA PutKept ==
  ASSUME TypeOK, ShiftsFit', INT_BITS' = INT_BITS,
         NEW s, NEW st, NEW n \in Nat, Kept(s, st, n, hash_entries, assoc, values, counter),
         code = FIRST_CODE + n,
         NEW u, \A m \in 1 .. n : Added(s, u, m) = Added(s, st, m),
         FNVHash(Added(s, u, n + 1)) \in Hashes,
         Put(FNVHash(Added(s, u, n + 1)))
  PROVE  Kept(s, u, n + 1, hash_entries', assoc', values', counter')
<1> DEFINE h == FNVHash(Added(s, u, n + 1))
           B == h % HASHMAP_CAPACITY
           J == Min(EmptyEntries(h))
           e == [key |-> h, code |-> code]
<1>0. /\ hash_entries \in Entries /\ assoc \in AssocMaps /\ values \in Values
      /\ counter \in 0 .. ASSOC_SIZE /\ counter \in Nat /\ INT_BITS \in Nat \ {0}
  BY TableAssumption DEF TypeOK
<1>1. Kept(s, u, n + 1, hash_entries, assoc, values, counter)
  BY KeptMore
<1>2. n + 1 \in 1 .. n + 1 /\ code = FIRST_CODE + ((n + 1) - 1)
  BY Sizes
<1>3. ASSUME EmptyEntries(h) # {},
             hash_entries' = [hash_entries EXCEPT ![B][J] = e],
             UNCHANGED <<assoc, values, counter>>
      PROVE  Kept(s, u, n + 1, hash_entries', assoc', values', counter')
  <2>1. KeptIn(s, u, n + 1, e)
    BY <1>2, Zenon DEF KeptIn
  <2>2. ASSUME NEW b \in 0 .. HASHMAP_CAPACITY - 1, NEW j \in 1 .. BUCKET_SIZE
        PROVE  hash_entries'[b][j] = e \/ hash_entries'[b][j] = hash_entries[b][j]
    <3> HIDE DEF e, J, B
    <3>1. hash_entries'[b] = IF b = B THEN [hash_entries[b] EXCEPT ![J] = e] ELSE hash_entries[b]
      BY <1>0, <1>3 DEF Entries
    <3>2. hash_entries[b] \in [1 .. BUCKET_SIZE -> [key : Nat, code : Int]]
      BY <1>0 DEF Entries
    <3>3. [hash_entries[b] EXCEPT ![J] = e][j] = IF j = J THEN e ELSE hash_entries[b][j]
      BY <3>2
    <3> QED
      BY <3>1, <3>3
  <2>3. \A b \in 0 .. HASHMAP_CAPACITY - 1, j \in 1 .. BUCKET_SIZE :
          hash_entries'[b][j].key # 0 => KeptIn(s, u, n + 1, hash_entries'[b][j])
    <3> HIDE DEF e
    <3> QED
      BY <1>1, <2>1, <2>2, Zenon DEF Kept
  <2>4. assoc' = assoc /\ values' = values /\ counter' = counter
    BY <1>3
  <2> QED
    BY <1>1, <2>3, <2>4, Zenon DEF Kept
<1>4. ASSUME counter < ASSOC_SIZE, NEW bits \in OneShifted(counter),
             assoc' = [f \in 0 .. 3 |-> [assoc[f] EXCEPT ![Field(f, h)] = @ \cup bits]],
             values' = [values EXCEPT ![counter] = code],
             counter' = counter + 1, UNCHANGED hash_entries
      PROVE  Kept(s, u, n + 1, hash_entries', assoc', values', counter')
  <2>1. counter + 1 < INT_BITS
    BY <1>4 DEF ShiftsFit
  <2>2. bits = {counter}
    <3>1. counter < INT_BITS /\ counter # INT_BITS - 1
      BY <1>0, <2>1
    <3> QED
      BY <3>1, <1>4 DEF OneShifted, Widened
  <2>3. ASSUME NEW f \in 0 .. 3, NEW y \in 0 .. FIELD - 1
        PROVE  assoc'[f][y] = IF y = Field(f, h) THEN assoc[f][y] \cup {counter} ELSE assoc[f][y]
    <3> DEFINE g == assoc[f]
               z == Field(f, h)
    <3>1. assoc'[f] = [g EXCEPT ![z] = g[z] \cup {counter}]
      BY <1>4, <2>2
    <3>2. g \in [0 .. FIELD - 1 -> SUBSET (0 .. ASSOC_SIZE - 1)]
      BY <1>0 DEF AssocMaps
    <3> HIDE DEF g, z
    <3>3. assoc'[f][y] = IF y = z THEN g[y] \cup {counter} ELSE g[y]
      BY <3>1, <3>2
    <3> QED
      BY <3>3 DEF g, z
  <2>4. ASSUME NEW f \in 0 .. 3, NEW y \in 0 .. FIELD - 1
        PROVE  /\ assoc'[f][y] \subseteq 0 .. counter' - 1
               /\ counter \in assoc'[f][y] <=> y = Field(f, h)
               /\ \A x \in 0 .. counter - 1 : x \in assoc'[f][y] <=> x \in assoc[f][y]
    <3>1. assoc[f][y] \subseteq 0 .. counter - 1
      BY <1>1 DEF Kept
    <3> DEFINE z == Field(f, h)
               a == assoc[f][y]
               b == assoc'[f][y]
    <3>2. a \subseteq 0 .. counter - 1 /\ b = IF y = z THEN a \cup {counter} ELSE a
      BY <2>3, <3>1
    <3> HIDE DEF z, a, b
    <3>3. \A x \in a : x \in 0 .. counter - 1
      BY <3>2
    <3>4. counter' = counter + 1 /\ counter \notin 0 .. counter - 1 /\ counter \in 0 .. (counter + 1) - 1
          /\ (\A x \in 0 .. counter - 1 : x \in 0 .. (counter + 1) - 1 /\ x # counter)
      BY <1>0, <1>4
    <3>5. b \subseteq 0 .. counter' - 1
      BY <3>2, <3>3, <3>4
    <3>6. counter \in b <=> y = z
      BY <3>2, <3>3, <3>4
    <3>7. \A x \in 0 .. counter - 1 : x \in b <=> x \in a
      BY <3>2, <3>4
    <3> QED
      BY <3>5, <3>6, <3>7 DEF z, a, b
  <2>5. counter \in 0 .. ASSOC_SIZE - 1 /\ \A x \in 0 .. counter - 1 : x \in 0 .. ASSOC_SIZE - 1 /\ x # counter
    BY <1>0, <1>4, TableAssumption
  <2>6. values'[counter] = code /\ \A x \in 0 .. counter - 1 : values'[x] = values[x]
    BY <1>0, <1>4, <2>5 DEF Values
  <2>7. KeptAt(s, u, n + 1, assoc', values', counter)
    <3>1. BitFor(assoc', counter, h)
      BY <2>4, Zenon DEF BitFor
    <3> QED
      BY <1>2, <2>6, <3>1, Zenon DEF KeptAt
  <2>8. ASSUME NEW x \in 0 .. counter - 1 PROVE KeptAt(s, u, n + 1, assoc', values', x)
    <3>1. PICK m \in 1 .. n + 1 :
            values[x] = FIRST_CODE + (m - 1) /\ BitFor(assoc, x, FNVHash(Added(s, u, m)))
      BY <1>1, Zenon DEF Kept, KeptAt
    <3>2. BitFor(assoc', x, FNVHash(Added(s, u, m)))
      BY <2>4, <3>1, Zenon DEF BitFor
    <3> QED
      BY <2>6, <3>1, <3>2, Zenon DEF KeptAt
  <2>9. \A x \in 0 .. counter' - 1 : x = counter \/ x \in 0 .. counter - 1
    BY <1>0, <1>4
  <2>10. \A x \in 0 .. counter' - 1 : KeptAt(s, u, n + 1, assoc', values', x)
    BY <2>7, <2>8, <2>9, Zenon
  <2>11. hash_entries' = hash_entries
    BY <1>4
  <2> QED
    BY <1>1, <2>4, <2>10, <2>11, Zenon DEF Kept
<1>5. ASSUME UNCHANGED tables
      PROVE  Kept(s, u, n + 1, hash_entries', assoc', values', counter')
  <2>1. hash_entries' = hash_entries /\ assoc' = assoc /\ values' = values /\ counter' = counter
    BY <1>5 DEF tables
  <2> QED
    BY <1>1, <2>1, Zenon
<1> QED
  BY <1>3, <1>4, <1>5, Zenon DEF Put

-----------------------------------------------------------------------------
(* The encoder divides the chunk into phrases whose codes say them *)

Reached(k, n) == IF k < n THEN k + 1 ELSE n
Ended         == pc # "encode" \/ (i = Len(chunk) /\ already_sent)

(* The string the loop holds: what is behind the phrases, up to byte e.  It is one *)
(* byte, or it has a code.                                                    *)
OnTheWay(s, st, n, e, q, E, A, V, C) ==
  /\ st[n + 1] < e /\ q = Slice(s, st[n + 1], e)
  /\ Kept(s, st, n, E, A, V, C)
  /\ st[n + 1] + 1 < e => GetIn(E, A, V, FNVHash(q)) # MISS

EncodeAt(st) ==
  /\ pc = "encode" => code = FIRST_CODE + Len(codes)
  /\ Ended => st[Len(codes) + 1] = Len(chunk)
  /\ ~Ended =>
       /\ OnTheWay(chunk, st, Len(codes), Reached(i, Len(chunk)), p,
                   hash_entries, assoc, values, counter)
       /\ i = Len(chunk) => st[Len(codes) + 1] + 1 < Len(chunk)

Divided ==
  Distinct(chunk) /\ ShiftsFit => \E st : Parsed(chunk, st, codes) /\ EncodeAt(st)

(* A kept string has two bytes at least. *)
LEMMA AddedType ==
  ASSUME NEW s \in Seq(Bytes), NEW c \in Seq(Int), NEW st, Parsed(s, st, c),
         st[Len(c) + 1] < Len(s), NEW m \in 1 .. Len(c)
  PROVE  /\ Added(s, st, m) \in StringsOf(s) /\ FNVHash(Added(s, st, m)) \in Hashes
         /\ Len(Added(s, st, m)) >= 2 /\ Added(s, st, m) \in Words
<1> DEFINE N == Len(c)
           a == st[m]
           b == st[m + 1] + 1
<1>1. m \in 1 .. N /\ m + 1 \in 1 .. N + 1 /\ N + 1 \in 1 .. N + 1
  OBVIOUS
<1>2. st[m] \in Nat /\ st[m + 1] \in Nat /\ st[m] + 1 <= st[m + 1]
  BY ParsedType
<1>3. st[m + 1] <= st[N + 1] /\ st[N + 1] \in Nat
  <2>1. m + 1 \in 1 .. N + 1 /\ N + 1 \in 1 .. N + 1
    BY <1>1
  <2> DEFINE k == m + 1
             n == N + 1
  <2> HIDE DEF k, n
  <2>2. k \in 1 .. n /\ n \in 1 .. n /\ n \in 1 .. N + 1
    BY <2>1 DEF k, n
  <2>3. st[k] <= st[n] /\ st[n] \in Nat
    BY <2>2, ParsedOrder
  <2> QED
    BY <2>3 DEF k, n
<1>4. a \in Nat /\ b \in a + 2 .. Len(s)
  <2> DEFINE x == st[m + 1]
             y == st[N + 1]
             l == Len(s)
  <2>1. a \in Nat /\ x \in Nat /\ y \in Nat /\ l \in Nat /\ a + 1 <= x /\ x <= y /\ y < l
    BY <1>2, <1>3
  <2> HIDE DEF x, y, l, a
  <2>2. x + 1 \in a + 2 .. l
    BY <2>1
  <2> QED
    BY <2>1, <2>2 DEF x, l
<1> HIDE DEF a, b
<1>5. b \in a + 1 .. Len(s) /\ b \in a .. Len(s) /\ b - a >= 2
  BY <1>4
<1>6. Slice(s, a, b) \in StringsOf(s) /\ FNVHash(Slice(s, a, b)) \in Hashes
  BY <1>4, <1>5, SliceInside
<1>7. Len(Slice(s, a, b)) = b - a
  BY <1>4, <1>5, SliceType
<1>8. Slice(s, a, b) \in Words
  BY <1>4, <1>5, SliceFirst
<1> QED
  BY <1>5, <1>6, <1>7, <1>8 DEF Added, a, b

(* A string of the chunk that is found is one that was kept. *)
LEMMA FindsAdded ==
  ASSUME TypeOK, Distinct(chunk), NEW st, Parsed(chunk, st, codes),
         st[Len(codes) + 1] < Len(chunk),
         Kept(chunk, st, Len(codes), hash_entries, assoc, values, counter),
         NEW x \in StringsOf(chunk), FNVHash(x) \in Hashes,
         GetIn(hash_entries, assoc, values, FNVHash(x)) # MISS
  PROVE  \E m \in 1 .. Len(codes) :
           /\ GetIn(hash_entries, assoc, values, FNVHash(x)) = FIRST_CODE + (m - 1)
           /\ Added(chunk, st, m) = x /\ Len(x) >= 2
<1>1. /\ hash_entries \in Entries /\ assoc \in AssocMaps /\ values \in Values
      /\ codes \in Seq(Int) /\ Len(codes) \in Nat /\ chunk \in Seq(Bytes)
  BY DEF TypeOK, Words
<1>2. \A m \in 1 .. Len(codes) :
        /\ Added(chunk, st, m) \in StringsOf(chunk) /\ FNVHash(Added(chunk, st, m)) \in Hashes
        /\ Len(Added(chunk, st, m)) >= 2
  BY <1>1, AddedType
<1>3. Inside(chunk, st, Len(codes))
  BY <1>2, Zenon DEF Inside
<1>4. \E m \in 1 .. Len(codes) :
           /\ GetIn(hash_entries, assoc, values, FNVHash(x)) = FIRST_CODE + (m - 1)
           /\ Added(chunk, st, m) = x
  BY <1>1, <1>3, GetSound
<1> QED
  BY <1>2, <1>4, Zenon

(* Entries of the associative memory are only ever added. *)
LEMMA PutCounts ==
  ASSUME TypeOK, NEW h, Put(h)
  PROVE  counter <= counter'
<1>1. counter \in Nat
  BY TableAssumption DEF TypeOK
<1> QED
  BY <1>1 DEF Put, tables

(* What the loop tries, in the terms of the phrases. *)
LEMMA TriedIs ==
  ASSUME TypeOK, Encoding, NEW a \in Nat, a < i + 1, p = Slice(chunk, a, i + 1)
  PROVE  /\ ~LastRound => /\ i + 2 \in 1 .. Len(chunk) /\ Tried = Slice(chunk, a, i + 2)
                          /\ Byte = chunk[i + 2] /\ <<Byte>> = Slice(chunk, i + 1, i + 2)
                          /\ Front(Tried) = p
         /\ LastRound => i + 1 = Len(chunk) /\ Tried = p
         /\ Search = GetIn(hash_entries, assoc, values, FNVHash(Tried))
         /\ Tried \in StringsOf(chunk) /\ FNVHash(Tried) \in Hashes
         /\ p \in StringsOf(chunk) /\ FNVHash(p) \in Hashes /\ p[1] = chunk[a + 1]
         /\ Tried[1] = chunk[a + 1] /\ Len(p) = (i + 1) - a
         /\ Len(Tried) = IF LastRound THEN (i + 1) - a ELSE (i + 2) - a
<1>1. /\ chunk \in Seq(Bytes) /\ Len(chunk) \in Nat /\ i \in 0 .. Len(chunk) - 1
  BY DEF TypeOK, Words, Encoding
<1>2. i + 1 \in a .. Len(chunk) /\ i + 1 \in a + 1 .. Len(chunk)
  BY <1>1
<1>3. /\ p \in StringsOf(chunk) /\ FNVHash(p) \in Hashes /\ p[1] = chunk[a + 1]
      /\ Len(p) = (i + 1) - a
  BY <1>1, <1>2, SliceInside, SliceFirst, SliceType
<1>4. Search = GetIn(hash_entries, assoc, values, FNVHash(Tried))
  BY GetIs DEF Search
<1>5. CASE LastRound
  BY <1>1, <1>3, <1>4, <1>5 DEF LastRound, Tried
<1>6. CASE ~LastRound
  <2>1. i + 2 \in 1 .. Len(chunk) /\ i + 1 \in a .. Len(chunk) - 1 /\ i + 1 \in 0 .. Len(chunk) - 1
        /\ (i + 1) + 1 = i + 2 /\ i + 2 \in a + 1 .. Len(chunk) /\ i + 2 \in a .. Len(chunk)
    BY <1>1, <1>6 DEF LastRound
  <2>2. Append(Slice(chunk, a, i + 1), chunk[i + 2]) = Slice(chunk, a, i + 2)
    <3>1. Append(Slice(chunk, a, i + 1), chunk[(i + 1) + 1]) = Slice(chunk, a, (i + 1) + 1)
      BY <1>1, <2>1, SliceMore
    <3> QED
      BY <2>1, <3>1
  <2>3. Tried = Slice(chunk, a, i + 2) /\ Byte = chunk[i + 2]
    BY <1>6, <2>2 DEF Tried, Byte
  <2>4. Slice(chunk, i + 1, (i + 1) + 1) = <<chunk[(i + 1) + 1]>>
    BY <1>1, <2>1, SliceOne
  <2>5. <<Byte>> = Slice(chunk, i + 1, i + 2)
    BY <2>1, <2>3, <2>4
  <2>6. Front(Slice(chunk, a, (i + 1) + 1)) = Slice(chunk, a, i + 1)
    BY <1>1, <2>1, SliceFront
  <2>7. Front(Tried) = p
    BY <2>1, <2>3, <2>6
  <2>8. /\ Tried \in StringsOf(chunk) /\ FNVHash(Tried) \in Hashes /\ Tried[1] = chunk[a + 1]
        /\ Len(Tried) = (i + 2) - a
    BY <1>1, <2>1, <2>3, SliceInside, SliceFirst, SliceType
  <2> QED
    BY <1>3, <1>4, <1>6, <2>1, <2>3, <2>5, <2>7, <2>8
<1> QED
  BY <1>5, <1>6

(* A round of lzw_encode() that finds its string: the phrases stay, the      *)
(* string grows.                                                             *)
LEMMA DivideMatch ==
  ASSUME TypeOK, Match, Distinct(chunk), NEW st, Parsed(chunk, st, codes), EncodeAt(st)
  PROVE  Parsed(chunk', st, codes') /\ EncodeAt(st)'
<1> DEFINE n == Len(codes)
           a == st[n + 1]
           L == Len(chunk)
<1>1. Encoding /\ ~Ended /\ pc = "encode" /\ i < L
  BY DEF Match, Encoding, Ended
<1>2. i \in 0 .. L - 1 /\ L \in Nat /\ n \in Nat
  BY <1>1 DEF TypeOK, Words
<1>3. Reached(i, L) = i + 1
  BY <1>1 DEF Reached
<1>4. /\ a < i + 1 /\ p = Slice(chunk, a, i + 1)
      /\ Kept(chunk, st, n, hash_entries, assoc, values, counter)
  BY <1>1, <1>3 DEF EncodeAt, OnTheWay
<1>5. a \in Nat /\ a < L
  <2>1. n + 1 \in 1 .. n + 1
    BY <1>2
  <2>2. a \in Nat
    BY <2>1, ParsedOrder DEF TypeOK
  <2> HIDE DEF a
  <2> QED
    BY <1>2, <1>4, <2>2
<1> HIDE DEF a
<1>6. /\ ~LastRound => Tried = Slice(chunk, a, i + 2) /\ i + 2 \in 1 .. L
      /\ LastRound => i + 1 = L /\ Tried = p
      /\ GetIn(hash_entries, assoc, values, FNVHash(Tried)) # MISS
      /\ Tried \in StringsOf(chunk) /\ FNVHash(Tried) \in Hashes
      /\ Len(p) = (i + 1) - a
  BY <1>1, <1>4, <1>5, TriedIs DEF Match
<1>7. /\ chunk' = chunk /\ codes' = codes /\ code' = code /\ pc' = pc
      /\ hash_entries' = hash_entries /\ assoc' = assoc /\ values' = values /\ counter' = counter
      /\ p' = Tried /\ i' = i + 1 /\ already_sent' = FALSE
  BY DEF Match, given, tables
<1> DEFINE r == Reached(i + 1, L)
<1>8. a < r /\ Tried = Slice(chunk, a, r)
  <2>1. CASE LastRound
    <3>1. r = i + 1
      BY <1>2, <1>6, <2>1 DEF Reached
    <3> HIDE DEF r
    <3> QED
      BY <1>4, <1>6, <2>1, <3>1
  <2>2. CASE ~LastRound
    <3>1. r = i + 2
      BY <1>2, <1>6, <2>2 DEF Reached
    <3> HIDE DEF r
    <3> QED
      BY <1>2, <1>4, <1>5, <1>6, <2>2, <3>1
  <2> QED
    BY <2>1, <2>2
<1>9. OnTheWay(chunk, st, n, r, Tried, hash_entries, assoc, values, counter)
  BY <1>4, <1>6, <1>8, Zenon DEF OnTheWay, a
<1>10. ASSUME i + 1 = L PROVE a + 1 < L
  <2>1. LastRound
    BY <1>2, <1>10 DEF LastRound
  <2>2. Len(Tried) >= 2
    BY <1>4, <1>5, <1>6, FindsAdded DEF a
  <2> QED
    BY <1>2, <1>5, <1>6, <1>10, <2>1, <2>2
<1>11. ~Ended'
  BY <1>1, <1>7 DEF Ended
<1>12. EncodeAt(st)'
  <2>1. pc' = "encode" => code' = FIRST_CODE + Len(codes')
    BY <1>1, <1>7 DEF EncodeAt
  <2>2. OnTheWay(chunk', st, Len(codes'), Reached(i', Len(chunk')), p', hash_entries', assoc', values', counter')
    BY <1>7, <1>9, Zenon
  <2>3. i' = Len(chunk') => st[Len(codes') + 1] + 1 < Len(chunk')
    BY <1>7, <1>10 DEF a
  <2> QED
    BY <1>11, <2>1, <2>2, <2>3, Zenon DEF EncodeAt
<1> QED
  BY <1>7, <1>12

(* A round that does not: what was known is a phrase more, and its code says *)
(* it.                                                                       *)
LEMMA DivideEmit ==
  ASSUME TypeOK, Emit, ShiftsFit', Distinct(chunk), NEW st, Parsed(chunk, st, codes), EncodeAt(st)
  PROVE  \E u : u = Append(st, i + 1) /\ Parsed(chunk', u, codes') /\ EncodeAt(u)'
<1> DEFINE n == Len(codes)
           a == st[n + 1]
           L == Len(chunk)
<1>1. Encoding /\ ~Ended /\ pc = "encode" /\ i < L
  BY DEF Emit, Encoding, Ended
<1>2. i \in 0 .. L - 1 /\ L \in Nat /\ n \in Nat /\ chunk \in Seq(Bytes) /\ codes \in Seq(Int)
  BY <1>1 DEF TypeOK, Words
<1>3. Reached(i, L) = i + 1
  BY <1>1 DEF Reached
<1>4. /\ a < i + 1 /\ p = Slice(chunk, a, i + 1)
      /\ Kept(chunk, st, n, hash_entries, assoc, values, counter)
      /\ a + 1 < i + 1 => GetIn(hash_entries, assoc, values, FNVHash(p)) # MISS
      /\ code = FIRST_CODE + n
  BY <1>1, <1>3 DEF EncodeAt, OnTheWay
<1>5. a \in Nat /\ a < L /\ i + 1 \in a + 1 .. L
  <2>1. n + 1 \in 1 .. n + 1
    BY <1>2
  <2>2. a \in Nat
    BY <2>1, ParsedOrder DEF TypeOK
  <2> HIDE DEF a
  <2> QED
    BY <1>2, <1>4, <2>2
<1> HIDE DEF a
<1>6. /\ ~LastRound => /\ i + 2 \in 1 .. L /\ Tried = Slice(chunk, a, i + 2)
                       /\ <<Byte>> = Slice(chunk, i + 1, i + 2) /\ Front(Tried) = p
      /\ LastRound => i + 1 = L /\ Tried = p
      /\ Search = GetIn(hash_entries, assoc, values, FNVHash(Tried))
      /\ FNVHash(Tried) \in Hashes
      /\ p \in StringsOf(chunk) /\ FNVHash(p) \in Hashes /\ p[1] = chunk[a + 1]
      /\ Tried[1] = chunk[a + 1] /\ Len(p) = (i + 1) - a
      /\ Len(Tried) = IF LastRound THEN (i + 1) - a ELSE (i + 2) - a
  BY <1>1, <1>4, <1>5, TriedIs
<1>7. /\ chunk' = chunk /\ INT_BITS' = INT_BITS /\ codes' = Append(codes, OutCode) /\ code' = code + 1
      /\ pc' = pc /\ p' = <<Byte>> /\ i' = i + 1 /\ already_sent' = Sent
      /\ Put(FNVHash(Tried)) /\ Search = MISS
  BY DEF Emit, given
<1>a. PICK e : e = i + 1
  OBVIOUS
<1>b. PICK u : u = Append(st, e)
  OBVIOUS
<1>8. OutCode \in Int
  BY <1>1, TriedType
<1>9. u[n + 1] = a /\ u[n + 2] = e /\ n + 2 = (n + 1) + 1
      /\ \A m \in 1 .. n + 1 : u[m] = st[m]
  <2>1. st \in Seq(Nat) /\ Len(st) = n + 1
    BY DEF Parsed
  <2>2. e \in Nat
    BY <1>2, <1>a
  <2>3. /\ u[Len(st) + 1] = e
        /\ \A m \in 1 .. Len(st) : u[m] = st[m]
    BY <1>b, <2>1, <2>2, AppendProperties
  <2>4. n + 1 \in 1 .. n + 1 /\ (n + 1) + 1 = n + 2
    BY <1>2
  <2> QED
    BY <2>1, <2>3, <2>4 DEF a
<1>10. Means(chunk, u, n + 1, OutCode)
  <2>1. CASE a + 1 = e
    <3>1. Len(Tried) <= 2
      <4> HIDE DEF a
      <4> QED
        BY <1>2, <1>5, <1>6, <1>a, <2>1
    <3>2. OutCode = chunk[a + 1]
      BY <1>6, <3>1 DEF OutCode
    <3> QED
      BY <1>9, <2>1, <3>2 DEF Means
  <2>2. CASE a + 1 # e
    <3>1. a + 1 < e
      BY <1>2, <1>5, <1>a, <2>2
    <3>2. GetIn(hash_entries, assoc, values, FNVHash(p)) # MISS
      BY <1>4, <1>a, <3>1
    <3>3. ~LastRound
      BY <1>6, <1>7, <3>2
    <3>4. ~(Len(Tried) <= 2) /\ Front(Tried) = p
      BY <1>2, <1>5, <1>6, <1>a, <3>1, <3>3
    <3>5. OutCode = GetIn(hash_entries, assoc, values, FNVHash(p))
      BY <3>4, GetIs DEF OutCode
    <3>6. \E m \in 1 .. n :
           /\ GetIn(hash_entries, assoc, values, FNVHash(p)) = FIRST_CODE + (m - 1)
           /\ Added(chunk, st, m) = p
      BY <1>4, <1>5, <1>6, <3>2, FindsAdded DEF a
    <3>7. PICK m \in 1 .. n : OutCode = FIRST_CODE + (m - 1) /\ Added(chunk, st, m) = p
      BY <3>5, <3>6
    <3>8. Added(chunk, u, m) = Added(chunk, st, m)
      <4>1. m \in 1 .. n + 1 /\ m + 1 \in 1 .. n + 1
        BY <1>2
      <4> QED
        BY <1>9, <4>1 DEF Added
    <3>9. Phrase(chunk, u, n + 1) = p
      <4> QED
        BY <1>4, <1>9, <1>a DEF Phrase
    <3>10. m \in 1 .. (n + 1) - 1
      BY <1>2
    <3> QED
      BY <1>9, <3>1, <3>7, <3>8, <3>9, <3>10 DEF Means
  <2> QED
    BY <2>1, <2>2
<1>11. /\ Parsed(chunk, u, codes')
       /\ \A k \in 1 .. n : Added(chunk, u, k) = Added(chunk, st, k)
  <2>1. e \in st[n + 1] + 1 .. Len(chunk)
    BY <1>5, <1>a DEF a
  <2>2. codes' = Append(codes, OutCode)
    BY <1>7
  <2> QED
    BY <1>2, <1>8, <1>10, <1>b, <2>1, <2>2, ParsedMore
<1>12. Len(codes') = n + 1
  BY <1>2, <1>7, <1>8, AppendProperties
<1>13. CASE LastRound
  <2>1. i' = Len(chunk') /\ u[Len(codes') + 1] = Len(chunk')
    BY <1>6, <1>7, <1>9, <1>12, <1>13, <1>a
  <2>2. already_sent'
    <3>1. a + 1 = e
      <4>1. CASE a + 1 < e
        <5>1. GetIn(hash_entries, assoc, values, FNVHash(p)) # MISS
          BY <1>4, <1>a, <4>1
        <5> QED
          BY <1>6, <1>7, <1>13, <5>1
      <4> QED
        BY <1>2, <1>5, <1>a, <4>1
    <3>2. Len(Tried) <= 2
      BY <1>2, <1>5, <1>6, <1>13, <1>a, <3>1
    <3> QED
      BY <1>7, <3>2 DEF Sent
  <2>3. code' = FIRST_CODE + Len(codes')
    BY <1>2, <1>4, <1>7, <1>12, Sizes
  <2>4. EncodeAt(u)'
    BY <1>1, <1>7, <2>1, <2>2, <2>3 DEF EncodeAt, Ended
  <2> QED
    BY <1>7, <1>11, <1>a, <1>b, <2>4
<1>14. CASE ~LastRound
  <2>1. i + 2 \in 1 .. L /\ Tried = Slice(chunk, a, i + 2) /\ <<Byte>> = Slice(chunk, i + 1, i + 2)
    BY <1>6, <1>14
  <2>2. Added(chunk, u, n + 1) = Tried
    <3>1. (i + 1) + 1 = i + 2
      BY <1>2
    <3> QED
      BY <1>9, <1>a, <2>1, <3>1 DEF Added
  <2>3. Kept(chunk, u, n + 1, hash_entries', assoc', values', counter')
    BY <1>2, <1>4, <1>6, <1>7, <1>11, <2>2, PutKept
  <2>4. i' # Len(chunk') /\ Reached(i', Len(chunk')) = i + 2 /\ i + 1 < i + 2 /\ ~((i + 1) + 1 < i + 2)
    BY <1>2, <1>7, <2>1 DEF Reached
  <2>5. OnTheWay(chunk', u, n + 1, Reached(i', Len(chunk')), p', hash_entries', assoc', values', counter')
    BY <1>7, <1>9, <1>a, <2>1, <2>3, <2>4 DEF OnTheWay
  <2>6. code' = FIRST_CODE + Len(codes')
    BY <1>2, <1>4, <1>7, <1>12, Sizes
  <2>7. ~Ended'
    BY <1>1, <1>7, <2>4 DEF Ended
  <2>8. EncodeAt(u)'
    BY <1>12, <2>4, <2>5, <2>6, <2>7, Zenon DEF EncodeAt
  <2> QED
    BY <1>7, <1>11, <1>a, <1>b, <2>8
<1> QED
  BY <1>13, <1>14

(* After the loop what is left is the last phrase. *)
LEMMA DivideEnds ==
  ASSUME TypeOK, EncodeEnds, Distinct(chunk), NEW st, Parsed(chunk, st, codes), EncodeAt(st)
  PROVE  \E u : Parsed(chunk', u, codes') /\ EncodeAt(u)'
<1> DEFINE n == Len(codes)
           a == st[n + 1]
           L == Len(chunk)
           x == Get(FNVHash(p))
<1>1. /\ pc = "encode" /\ i = L /\ pc' = "pack" /\ chunk' = chunk
      /\ codes' = IF already_sent THEN codes ELSE Append(codes, x)
  BY DEF EncodeEnds, given
<1>2. chunk \in Seq(Bytes) /\ codes \in Seq(Int) /\ L \in Nat /\ n \in Nat
  BY DEF TypeOK, Words
<1>3. CASE already_sent
  <2>1. a = L
    BY <1>1, <1>3 DEF EncodeAt, Ended
  <2>2. EncodeAt(st)'
    BY <1>1, <1>3, <2>1 DEF EncodeAt, Ended
  <2> QED
    BY <1>1, <1>3, <2>2
<1>4. CASE ~already_sent
  <2>1. ~Ended /\ Reached(i, L) = L
    BY <1>1, <1>2, <1>4 DEF Ended, Reached
  <2>2. /\ a + 1 < L /\ p = Slice(chunk, a, L)
        /\ Kept(chunk, st, n, hash_entries, assoc, values, counter)
        /\ GetIn(hash_entries, assoc, values, FNVHash(p)) # MISS
    BY <1>1, <2>1 DEF EncodeAt, OnTheWay
  <2>3. a \in Nat
    <3>1. n + 1 \in 1 .. n + 1
      BY <1>2
    <3> QED
      BY <1>2, <3>1, ParsedOrder
  <2> HIDE DEF a
  <2>4. p \in StringsOf(chunk) /\ FNVHash(p) \in Hashes
    <3>1. L \in a + 1 .. L
      BY <1>2, <2>2, <2>3
    <3> QED
      BY <1>2, <2>2, <2>3, <3>1, SliceInside
  <2>5. a < L /\ L \in a + 1 .. L
    BY <1>2, <2>2, <2>3
  <2>6. PICK m \in 1 .. n :
           /\ GetIn(hash_entries, assoc, values, FNVHash(p)) = FIRST_CODE + (m - 1)
           /\ Added(chunk, st, m) = p
    BY <2>2, <2>4, <2>5, FindsAdded DEF a
  <2>7. x = FIRST_CODE + (m - 1) /\ x \in Int
    BY <1>2, <2>6, GetIs, Sizes
  <2> HIDE DEF x
  <2>a. PICK u : u = Append(st, L)
    OBVIOUS
  <2>8. u[n + 1] = a /\ u[n + 2] = L /\ n + 2 = (n + 1) + 1
        /\ \A k \in 1 .. n + 1 : u[k] = st[k]
    <3>1. st \in Seq(Nat) /\ Len(st) = n + 1
      BY DEF Parsed
    <3>2. /\ u[Len(st) + 1] = L
          /\ \A k \in 1 .. Len(st) : u[k] = st[k]
      <4>1. L \in Nat
        BY <1>2
      <4>2. u = Append(st, L)
        BY <2>a
      <4> HIDE DEF L, n
      <4> QED
        BY <3>1, <4>1, <4>2, AppendProperties
    <3>3. n + 1 \in 1 .. n + 1 /\ (n + 1) + 1 = n + 2
      BY <1>2
    <3> QED
      BY <3>1, <3>2, <3>3 DEF a
  <2>9. Means(chunk, u, n + 1, x)
    <3>1. Added(chunk, u, m) = Added(chunk, st, m)
      <4>1. m \in 1 .. n + 1 /\ m + 1 \in 1 .. n + 1
        BY <1>2
      <4> QED
        BY <2>8, <4>1 DEF Added
    <3>2. Phrase(chunk, u, n + 1) = p
      BY <2>2, <2>8 DEF Phrase
    <3>3. m \in 1 .. (n + 1) - 1
      BY <1>2
    <3> QED
      BY <2>2, <2>6, <2>7, <2>8, <3>1, <3>2, <3>3 DEF Means
  <2>10. Parsed(chunk, u, Append(codes, x)) /\ Len(Append(codes, x)) = n + 1
    <3>1. L \in st[n + 1] + 1 .. Len(chunk)
      BY <2>5 DEF a
    <3>2. Parsed(chunk, u, Append(codes, x))
      BY <1>2, <2>7, <2>9, <2>a, <3>1, ParsedMore
    <3> QED
      BY <1>2, <2>7, <3>2, AppendProperties
  <2>11. codes' = Append(codes, x)
    BY <1>1, <1>4
  <2>12. EncodeAt(u)'
    BY <1>1, <2>8, <2>10, <2>11 DEF EncodeAt, Ended
  <2> QED
    BY <1>1, <2>10, <2>11, <2>12
<1> QED
  BY <1>3, <1>4

(* At the start there is no phrase, and the first byte is on the way. *)
LEMMA DividedInit == Init => Divided
<1> SUFFICES ASSUME Init, ShiftsFit PROVE \E st : Parsed(chunk, st, codes) /\ EncodeAt(st)
  BY DEF Divided
<1> DEFINE st == <<0>>
<1>1. TypeOK
  BY TypeInit
<1>2. chunk \in Seq(Bytes) /\ Len(chunk) \in Nat \ {0}
  BY <1>1 DEF TypeOK, Words
<1>3. codes = << >> /\ Len(codes) = 0 /\ st \in Seq(Nat) /\ Len(st) = 1 /\ st[1] = 0
  BY DEF Init
<1>4. Parsed(chunk, st, codes)
  BY <1>3 DEF Parsed
<1>5. Reached(i, Len(chunk)) = 1 /\ ~Ended /\ i # Len(chunk) /\ code = FIRST_CODE
  BY <1>2 DEF Init, Reached, Ended
<1>6. p = Slice(chunk, 0, 1)
  <2>1. 0 \in 0 .. Len(chunk) - 1 /\ 0 + 1 = 1
    BY <1>2
  <2>2. Slice(chunk, 0, 0 + 1) = <<chunk[0 + 1]>>
    BY <1>2, <2>1, SliceOne
  <2> QED
    BY <2>1, <2>2 DEF Init
<1>7. Kept(chunk, st, 0, hash_entries, assoc, values, counter)
  <2>1. \A b \in 0 .. HASHMAP_CAPACITY - 1, j \in 1 .. BUCKET_SIZE : hash_entries[b][j].key = 0
    BY DEF Init
  <2>2. \A f \in 0 .. 3, y \in 0 .. FIELD - 1 : assoc[f][y] = {}
    BY DEF Init
  <2>3. counter = 0
    BY DEF Init
  <2>4. \A x : x \notin 0 .. 0 - 1
    OBVIOUS
  <2> QED
    BY <2>1, <2>2, <2>3, <2>4 DEF Kept
<1>8. OnTheWay(chunk, st, 0, 1, p, hash_entries, assoc, values, counter)
  BY <1>3, <1>6, <1>7 DEF OnTheWay
<1> HIDE DEF st
<1>9. FIRST_CODE = FIRST_CODE + 0
  BY Sizes
<1>10. EncodeAt(st)
  BY <1>3, <1>5, <1>8, <1>9, Zenon DEF EncodeAt
<1> QED
  BY <1>4, <1>10

(* The count of the entries used of the associative memory only grows. *)
LEMMA CounterGrows ==
  ASSUME TypeOK, [Next]_vars
  PROVE  counter \in Nat /\ counter' \in Nat /\ counter <= counter' /\ ASSOC_SIZE \in Nat
         /\ (counter' < ASSOC_SIZE => counter < ASSOC_SIZE)
<1>1. counter <= counter'
  <2>1. CASE Emit
    BY <2>1, PutCounts DEF Emit
  <2>2. CASE ~Emit
    <3>1. counter' = counter
      BY <2>2 DEF Next, Match, EncodeEnds, PackBytes, DecodeFirst, DecodeNext, DecodeUndefined,
             DecodeEnds, vars, encoder, tables
    <3> QED
      BY <3>1 DEF TypeOK
  <2> QED
    BY <2>1, <2>2
<1>2. counter \in Nat /\ counter' \in Nat /\ ASSOC_SIZE \in Nat
  BY TypeStep, TableAssumption DEF TypeOK
<1> QED
  BY <1>1, <1>2

(* What the invariants of a chunk's way through suppose of a state was so before:  *)
(* the chunk stays, and the int its bits.                                      *)
LEMMA PremisesStay ==
  ASSUME TypeOK, [Next]_vars, Distinct(chunk)', ShiftsFit'
  PROVE  chunk' = chunk /\ Distinct(chunk) /\ ShiftsFit
<1>1. chunk' = chunk /\ INT_BITS' = INT_BITS
  BY DEF Next, Match, Emit, EncodeEnds, PackBytes, DecodeFirst, DecodeNext, DecodeUndefined,
         DecodeEnds, vars, given
<1>2. counter \in Nat /\ counter' \in Nat /\ counter <= counter' /\ INT_BITS \in Nat
  BY CounterGrows, TableAssumption DEF TypeOK
<1> QED
  BY <1>1, <1>2 DEF ShiftsFit

(* Every step keeps the codes those of phrases of the chunk. *)
LEMMA DividedStep == TypeOK /\ Divided /\ [Next]_vars => Divided'
<1> SUFFICES ASSUME TypeOK, Divided, [Next]_vars, Distinct(chunk)', ShiftsFit'
             PROVE  \E u : Parsed(chunk', u, codes') /\ EncodeAt(u)'
  BY DEF Divided
<1>1. Distinct(chunk) /\ ShiftsFit
  BY PremisesStay
<1>2. PICK st : Parsed(chunk, st, codes) /\ EncodeAt(st)
  BY <1>1 DEF Divided
<1>3. CASE Match
  BY <1>1, <1>2, <1>3, DivideMatch
<1>4. CASE Emit
  BY <1>1, <1>2, <1>4, DivideEmit
<1>5. CASE EncodeEnds
  BY <1>1, <1>2, <1>5, DivideEnds
<1>6. CASE PackBytes \/ DecodeFirst \/ DecodeNext \/ DecodeUndefined \/ DecodeEnds
  <2>1. chunk' = chunk /\ codes' = codes /\ pc # "encode" /\ pc' # "encode"
    BY <1>6 DEF PackBytes, DecodeFirst, DecodeNext, DecodeUndefined, DecodeEnds, given, encoder
  <2>2. EncodeAt(st)'
    BY <1>2, <2>1 DEF EncodeAt, Ended
  <2> QED
    BY <1>2, <2>1, <2>2
<1>7. CASE UNCHANGED vars
  <2>1. chunk' = chunk /\ codes' = codes
    BY <1>7 DEF vars, given, encoder
  <2>2. EncodeAt(st)'
    BY <1>2, <1>7 DEF vars, given, encoder, tables, EncodeAt, Ended
  <2> QED
    BY <1>2, <2>1, <2>2
<1> QED
  BY <1>3, <1>4, <1>5, <1>6, <1>7 DEF Next

-----------------------------------------------------------------------------
(* The decoder makes of the codes what the encoder divided *)

(* A function on 1 .. n is a sequence. *)
LEMMA ElementsMakeSeq ==
  ASSUME NEW S, NEW n \in Nat, NEW c \in [1 .. n -> S]
  PROVE  c \in Seq(S)
OBVIOUS

(* No code of a chunk that is not too long needs more bits than it gets. *)
LEMMA CodesFit ==
  ASSUME NEW s \in Seq(Bytes), NEW c \in Seq(Int), NEW st, Parsed(s, st, c), Len(s) <= LongestSafe
  PROVE  c \in Seq(CodeRange)
<1> DEFINE P == PowerOf2[CODE_LENGTH]
           L == Len(s)
<1>1. P \in Nat /\ FIRST_CODE <= P /\ FIRST_CODE \in Nat /\ L \in Nat /\ L <= (P - FIRST_CODE) + 2
  <2>1. CODE_LENGTH \in 0 .. CODE_LENGTH + BYTE_BITS
    BY Sizes
  <2> QED
    BY <2>1, Powers, Sizes DEF LongestSafe
<1> HIDE DEF P
<1>2. ASSUME NEW k \in 1 .. Len(c) PROVE c[k] \in 0 .. P - 1
  <2>1. /\ st[k] \in Nat /\ st[k + 1] \in Nat /\ st[k] + 1 <= st[k + 1] /\ st[k + 1] <= L
        /\ k \in Nat /\ k - 1 <= st[k] /\ Means(s, st, k, c[k])
    BY ParsedType
  <2>2. CASE c[k] = s[st[k] + 1]
    <3>1. st[k] + 1 \in 1 .. L
      <4> DEFINE x == st[k]
                 y == st[k + 1]
      <4>1. x \in Nat /\ y \in Nat /\ x + 1 <= y /\ y <= L
        BY <2>1
      <4> HIDE DEF x, y, L
      <4> QED
        BY <1>1, <4>1 DEF x
    <3>2. s[st[k] + 1] \in Bytes
      BY <3>1, ElementOfSeq
    <3> QED
      BY <1>1, <2>2, <3>2 DEF Bytes
  <2>3. CASE st[k] + 1 < st[k + 1] /\ \E j \in 1 .. k - 1 : c[k] = FIRST_CODE + (j - 1)
    <3>1. PICK j \in 1 .. k - 1 : c[k] = FIRST_CODE + (j - 1)
      BY <2>3
    <3> DEFINE x == st[k]
               y == st[k + 1]
               z == c[k]
    <3>2. x \in Nat /\ y \in Nat /\ x + 1 < y /\ y <= L /\ k - 1 <= x /\ z = FIRST_CODE + (j - 1) /\ k \in Nat
      BY <2>1, <2>3, <3>1
    <3> HIDE DEF x, y, z, L
    <3>3. z \in 0 .. P - 1
      BY <1>1, <3>2
    <3> QED
      BY <3>3 DEF z
  <2> QED
    BY <2>1, <2>2, <2>3 DEF Means
<1>3. c \in [1 .. Len(c) -> 0 .. P - 1] /\ Len(c) \in Nat
  BY <1>2
<1> DEFINE R == 0 .. P - 1
           n == Len(c)
<1> HIDE DEF R, n
<1>4. c \in [1 .. n -> R] /\ n \in Nat
  BY <1>3 DEF R, n
<1>5. c \in Seq(R)
  BY <1>4, ElementsMakeSeq
<1> QED
  BY <1>5 DEF CodeRange, P, R

(* The decoder's table when it is behind code t: the bytes, and the strings that   *)
(* were kept with the codes before.                                           *)
TableAt(s, st, T, t) ==
  /\ \A b \in 1 .. FIRST_CODE : T[b] = <<b - 1>>
  /\ \A m \in 1 .. t - 1 : T[FIRST_CODE + m] = Added(s, st, m)

(* A code that is in the table is found with its phrase; one that is not is that of *)
(* the string that is kept next.                                               *)
LEMMA Looks ==
  ASSUME NEW s \in Seq(Bytes), NEW c \in Seq(Int), NEW st, Parsed(s, st, c),
         NEW k \in 1 .. Len(c), NEW T, NEW t \in Nat, t >= 1, TableAt(s, st, T, t)
  PROVE  /\ c[k] \in Nat /\ c[k] < FIRST_CODE + (k - 1)
         /\ c[k] < FIRST_CODE + (t - 1) => T[c[k] + 1] = Phrase(s, st, k)
         /\ ~(c[k] < FIRST_CODE + (t - 1)) /\ k = t + 1 => Added(s, st, t) = Phrase(s, st, k)
<1>1. /\ st[k] \in Nat /\ st[k + 1] \in Nat /\ st[k] + 1 <= st[k + 1] /\ st[k + 1] <= Len(s)
      /\ k \in Nat /\ k >= 1 /\ Means(s, st, k, c[k])
  BY ParsedType
<1>2. CASE st[k + 1] = st[k] + 1 /\ c[k] = s[st[k] + 1]
  <2> DEFINE x == st[k]
             b == s[x + 1]
  <2>1. x \in 0 .. Len(s) - 1
    BY <1>1
  <2>2. Slice(s, x, x + 1) = <<b>> /\ b \in Bytes
    <3> HIDE DEF x
    <3> QED
      BY <2>1, SliceOne
  <2>3. Phrase(s, st, k) = <<b>>
    BY <1>2, <2>2 DEF Phrase
  <2> HIDE DEF b
  <2>4. c[k] = b
    BY <1>2 DEF b
  <2>5. b + 1 \in 1 .. FIRST_CODE /\ (b + 1) - 1 = b /\ b \in Nat /\ b < FIRST_CODE
    BY <2>2, Sizes DEF Bytes
  <2>6. T[b + 1] = <<b>>
    BY <2>5 DEF TableAt
  <2>7. b < FIRST_CODE + (k - 1) /\ b < FIRST_CODE + (t - 1)
    BY <1>1, <2>5, Sizes
  <2> QED
    BY <2>3, <2>4, <2>5, <2>6, <2>7
<1>3. CASE \E j \in 1 .. k - 1 : c[k] = FIRST_CODE + (j - 1) /\ Added(s, st, j) = Phrase(s, st, k)
  <2>1. PICK j \in 1 .. k - 1 : c[k] = FIRST_CODE + (j - 1) /\ Added(s, st, j) = Phrase(s, st, k)
    BY <1>3
  <2> DEFINE x == c[k]
  <2>2. x = FIRST_CODE + (j - 1)
    BY <2>1
  <2> HIDE DEF x
  <2>3. /\ x \in Nat /\ x < FIRST_CODE + (k - 1) /\ x + 1 = FIRST_CODE + j
        /\ x < FIRST_CODE + (t - 1) => j \in 1 .. t - 1
        /\ ~(x < FIRST_CODE + (t - 1)) /\ k = t + 1 => j = t
    BY <1>1, <2>2, Sizes
  <2>4. j \in 1 .. t - 1 => T[FIRST_CODE + j] = Added(s, st, j)
    BY DEF TableAt
  <2> QED
    BY <2>1, <2>3, <2>4 DEF x
<1> QED
  BY <1>1, <1>2, <1>3 DEF Means

(* What one code more makes of the table and of the output. *)
OneMore(s, c, st, T, t) ==
  /\ c[t + 1] < Len(T) => T[c[t + 1] + 1] = Phrase(s, st, t + 1)
  /\ ~(c[t + 1] < Len(T)) => T[c[t] + 1] \o <<s[st[t] + 1]>> = Phrase(s, st, t + 1)
  /\ Phrase(s, st, t + 1)[1] = s[st[t + 1] + 1]
  /\ T[c[t] + 1] \o <<s[st[t + 1] + 1]>> = Added(s, st, t)
  /\ Slice(s, 0, st[t + 1]) \o Phrase(s, st, t + 1) = Slice(s, 0, st[(t + 1) + 1])
  /\ TableAt(s, st, Append(T, Added(s, st, t)), t + 1)

(* The decoder's table has the phrase of each code that comes, or the string that   *)
(* is kept next is that phrase.                                                *)
LEMMA DecodesOne ==
  ASSUME NEW s \in Seq(Bytes), NEW c \in Seq(Int), NEW st, Parsed(s, st, c),
         NEW t \in 1 .. Len(c) - 1,
         NEW T \in Seq(Words), Len(T) = FIRST_CODE + (t - 1), TableAt(s, st, T, t)
  PROVE  OneMore(s, c, st, T, t)
<1> DEFINE k == t + 1
           x == st[t]
           y == st[k]
           z == st[k + 1]
<1>1. t \in 1 .. Len(c) /\ k \in 1 .. Len(c) /\ t \in Nat /\ t >= 1 /\ k = t + 1
  OBVIOUS
<1>2. x \in Nat /\ y \in Nat /\ x + 1 <= y
  BY <1>1, ParsedType
<1> HIDE DEF k
<1>3. z \in Nat /\ y + 1 <= z /\ z <= Len(s)
  BY <1>1, ParsedType
<1>4. T[c[t] + 1] = Phrase(s, st, t)
  <2>1. c[t] < FIRST_CODE + (t - 1) /\ (c[t] < FIRST_CODE + (t - 1) => T[c[t] + 1] = Phrase(s, st, t))
    BY <1>1, Looks
  <2> QED
    BY <2>1
<1>5. /\ c[k] < Len(T) => T[c[k] + 1] = Phrase(s, st, k)
      /\ ~(c[k] < Len(T)) => Added(s, st, t) = Phrase(s, st, k)
  BY <1>1, Looks
<1>6. Phrase(s, st, t) = Slice(s, x, y) /\ Phrase(s, st, k) = Slice(s, y, z) /\ Added(s, st, t) = Slice(s, x, y + 1)
  BY <1>1 DEF Phrase, Added
<1> HIDE DEF x, y, z
<1>7. y \in x .. Len(s) - 1 /\ y + 1 \in x + 1 .. Len(s) /\ z \in y + 1 .. Len(s) /\ y \in 0 .. Len(s)
      /\ z \in y .. Len(s)
  BY <1>2, <1>3
<1>8. Slice(s, x, y) \o <<s[y + 1]>> = Slice(s, x, y + 1)
  BY <1>2, <1>7, SliceMore
<1>9. Slice(s, y, z)[1] = s[y + 1]
  BY <1>2, <1>7, SliceFirst
<1>10. Slice(s, x, y + 1)[1] = s[x + 1]
  BY <1>2, <1>7, SliceFirst
<1>11. Slice(s, 0, y) \o Slice(s, y, z) = Slice(s, 0, z)
  BY <1>7, SliceJoin
<1>12. ~(c[k] < Len(T)) => T[c[t] + 1] \o <<s[x + 1]>> = Phrase(s, st, k)
  BY <1>4, <1>5, <1>6, <1>8, <1>9, <1>10
<1> DEFINE e == Added(s, st, t)
           U == Append(T, e)
<1>13. TableAt(s, st, U, k)
  <2>1. e \in Words
    BY <1>2, <1>6, <1>7, SliceFirst
  <2> HIDE DEF e
  <2>2. U[Len(T) + 1] = e /\ \A b \in 1 .. Len(T) : U[b] = T[b]
    BY <2>1, AppendProperties
  <2> HIDE DEF U
  <2>3. \A b \in 1 .. FIRST_CODE : U[b] = <<b - 1>>
    <3>1. \A b \in 1 .. FIRST_CODE : b \in 1 .. Len(T)
      BY <1>1, Sizes
    <3> QED
      BY <2>2, <3>1 DEF TableAt
  <2>4. ASSUME NEW m \in 1 .. k - 1 PROVE U[FIRST_CODE + m] = Added(s, st, m)
    <3>1. CASE m = t
      <4>1. FIRST_CODE + m = Len(T) + 1
        BY <1>1, <3>1, Sizes
      <4> QED
        BY <2>2, <3>1, <4>1 DEF e
    <3>2. CASE m # t
      <4>1. m \in 1 .. t - 1 /\ FIRST_CODE + m \in 1 .. Len(T)
        BY <1>1, <3>2, Sizes
      <4> QED
        BY <2>2, <4>1 DEF TableAt
    <3> QED
      BY <3>1, <3>2
  <2> QED
    BY <2>3, <2>4 DEF TableAt
<1> QED
  BY <1>4, <1>5, <1>6, <1>8, <1>9, <1>11, <1>12, <1>13 DEF OneMore, x, y, z, k

DecodeAt(st, t) ==
  /\ Behind(t) /\ TableAt(chunk, st, code_table, t)
  /\ output = Slice(chunk, 0, st[t + 1])
  /\ old = codes[t] /\ symbol = <<chunk[st[t] + 1]>>

(* What the decoder has written is the chunk so far. *)
Decoded ==
  Distinct(chunk) /\ ShiftsFit /\ Len(chunk) <= LongestSafe =>
    /\ pc # "undefined"
    /\ pc \in {"encode", "pack", "first"} => \A b \in 1 .. FIRST_CODE : code_table[b] = <<b - 1>>
    /\ pc = "decode" =>
         \E st : /\ Parsed(chunk, st, codes) /\ st[Len(codes) + 1] = Len(chunk)
                 /\ \E t \in 1 .. Len(codes) : DecodeAt(st, t)
    /\ pc = "done" => output = chunk

(* The first code is the chunk's first byte. *)
LEMMA FirstDecoded ==
  ASSUME TypeOK, Sync, DecodeFirst, Len(chunk) <= LongestSafe,
         NEW st, Parsed(chunk, st, codes), \A b \in 1 .. FIRST_CODE : code_table[b] = <<b - 1>>
  PROVE  1 \in 1 .. Len(codes') /\ DecodeAt(st, 1)'
<1>1. /\ pc = "first" /\ position = 0 /\ Len(code_table) = FIRST_CODE /\ codes # << >>
      /\ bytes = Pack(codes)
  BY DEF DecodeFirst, Sync
<1>2. /\ codes \in Seq(Int) /\ chunk \in Seq(Bytes) /\ bytes \in Seq(ByteBits)
      /\ Len(codes) \in Nat /\ 1 \in 1 .. Len(codes) /\ Len(chunk) \in Nat
  BY <1>1 DEF TypeOK, Words
<1>3. codes \in Seq(CodeRange)
  BY <1>2, CodesFit
<1>4. PackedBits(bytes, codes)
  BY <1>1, <1>2, <1>3, Packing
<1>5. ReadCode = codes[1]
  <2>1. 0 \in 0 .. Len(codes) - 1 /\ CODE_LENGTH * 0 = 0 /\ 0 + 1 = 1
    BY <1>2, Sizes
  <2>2. ReadCode = codes[0 + 1]
    BY <1>1, <1>2, <1>3, <1>4, <2>1, ReadIs
  <2> QED
    BY <2>1, <2>2
<1>6. st[1] = 0 /\ st[2] = 1 /\ codes[1] = chunk[1] /\ chunk[1] \in Bytes
  <2>1. /\ st[1] \in Nat /\ st[1 + 1] \in Nat /\ st[1] + 1 <= st[1 + 1] /\ st[1 + 1] <= Len(chunk)
        /\ Means(chunk, st, 1, codes[1])
    BY <1>2, ParsedType
  <2>2. st[1] = 0
    BY DEF Parsed
  <2>3. 1 + 1 = 2 /\ \A j : j \notin 1 .. 1 - 1
    OBVIOUS
  <2>4. st[2] = 1 /\ codes[1] = chunk[1]
    BY <2>1, <2>2, <2>3 DEF Means
  <2>5. 1 \in 1 .. Len(chunk)
    BY <1>2, <2>1, <2>3, <2>4
  <2> QED
    BY <1>2, <2>2, <2>4, <2>5
<1>7. codes[1] % FIRST_CODE = codes[1]
  BY <1>6, Sizes, ModSmall DEF Bytes
<1>8. /\ old' = codes[1] /\ symbol' = <<chunk[1]>> /\ output' = <<chunk[1]>>
      /\ position' = CODE_LENGTH /\ code_table' = code_table /\ codes' = codes /\ chunk' = chunk
  BY <1>1, <1>5, <1>6, <1>7, Sizes DEF DecodeFirst, encoder, given
<1>9. Slice(chunk, 0, 1) = <<chunk[1]>>
  <2>1. 0 \in 0 .. Len(chunk) - 1 /\ 0 + 1 = 1
    <3>1. st[1 + 1] <= Len(chunk) /\ 1 + 1 = 2
      BY <1>2, ParsedType
    <3> QED
      BY <1>2, <1>6, <3>1
  <2>2. Slice(chunk, 0, 0 + 1) = <<chunk[0 + 1]>>
    BY <1>2, <2>1, SliceOne
  <2> QED
    BY <2>1, <2>2
<1>10. position' = CODE_LENGTH * 1 /\ Len(code_table') = FIRST_CODE + (1 - 1)
  BY <1>1, <1>8, Sizes
<1>11. TableAt(chunk', st, code_table', 1)
  <2>1. \A m : m \notin 1 .. 1 - 1
    OBVIOUS
  <2> QED
    BY <1>8, <2>1 DEF TableAt
<1>12. output' = Slice(chunk', 0, st[1 + 1])
  BY <1>6, <1>8, <1>9
<1>13. old' = codes'[1] /\ symbol' = <<chunk'[st[1] + 1]>>
  BY <1>6, <1>8
<1> QED
  BY <1>2, <1>8, <1>10, <1>11, <1>12, <1>13 DEF DecodeAt, Behind

(* A code more: the decoder writes its phrase and adds the string the        *)
(* encoder kept.                                                             *)
LEMMA NextDecoded ==
  ASSUME TypeOK, Sync, DecodeNext, Len(chunk) <= LongestSafe,
         NEW st, Parsed(chunk, st, codes), NEW t \in 1 .. Len(codes), DecodeAt(st, t)
  PROVE  t + 1 \in 1 .. Len(codes') /\ DecodeAt(st, t + 1)'
<1>1. /\ pc = "decode" /\ bytes = Pack(codes) /\ MoreCodes
  BY DEF DecodeNext, Sync
<1>2. /\ codes \in Seq(Int) /\ chunk \in Seq(Bytes) /\ bytes \in Seq(ByteBits)
      /\ Len(codes) \in Nat /\ code_table \in Seq(Words) /\ t \in Nat
  BY DEF TypeOK, Words
<1>3. position = CODE_LENGTH * t /\ Len(code_table) = FIRST_CODE + (t - 1)
  BY DEF DecodeAt, Behind
<1>4. t < Len(codes)
  <2>1. PackedSize(Len(bytes), Len(codes)) /\ Len(bytes) \in Nat
    BY <1>1, <1>2, Packing
  <2> QED
    BY <1>1, <1>2, <1>3, <2>1, CodesLeft DEF MoreCodes
<1>5. t \in 1 .. Len(codes) - 1 /\ t \in 0 .. Len(codes) - 1 /\ t + 1 \in 1 .. Len(codes)
  BY <1>2, <1>4
<1>6. codes \in Seq(CodeRange)
  BY <1>2, CodesFit
<1>7. PackedBits(bytes, codes)
  BY <1>1, <1>2, <1>6, Packing
<1>8. ReadCode = codes[t + 1]
  BY <1>2, <1>3, <1>5, <1>6, <1>7, ReadIs
<1>s. TableAt(chunk, st, code_table, t)
  BY DEF DecodeAt
<1>t. OneMore(chunk, codes, st, code_table, t)
  BY <1>2, <1>3, <1>5, <1>s, DecodesOne
<1> DEFINE P == Phrase(chunk, st, t + 1)
           E == code_table[codes[t] + 1]
           x == chunk[st[t] + 1]
           y == chunk[st[t + 1] + 1]
           A == Added(chunk, st, t)
<1>9. /\ codes[t + 1] < Len(code_table) => code_table[codes[t + 1] + 1] = P
      /\ ~(codes[t + 1] < Len(code_table)) => E \o <<x>> = P
      /\ P[1] = y
      /\ E \o <<y>> = A
      /\ Slice(chunk, 0, st[t + 1]) \o P = Slice(chunk, 0, st[(t + 1) + 1])
      /\ TableAt(chunk, st, Append(code_table, A), t + 1)
  BY <1>t, Zenon DEF OneMore
<1>10. old = codes[t] /\ symbol = <<x>> /\ output = Slice(chunk, 0, st[t + 1])
  BY DEF DecodeAt
<1>11. Symbols(codes[t + 1]) = P
  BY <1>9, <1>10 DEF Symbols, IsCode
<1> DEFINE S == Symbols(codes[t + 1])
<1>12. /\ output' = output \o S /\ symbol' = <<S[1]>>
       /\ code_table' = Append(code_table, E \o <<S[1]>>)
       /\ old' = codes[t + 1] /\ position' = position + CODE_LENGTH
       /\ codes' = codes /\ chunk' = chunk
  BY <1>8, <1>10 DEF DecodeNext, encoder, given
<1> HIDE DEF S
<1>13. S = P
  BY <1>11 DEF S
<1> HIDE DEF P, A, E
<1>14. code_table' = Append(code_table, A) /\ symbol' = <<y>> /\ output' = Slice(chunk, 0, st[(t + 1) + 1])
  BY <1>9, <1>10, <1>12, <1>13
<1>15. position' = CODE_LENGTH * (t + 1)
  <2>1. CODE_LENGTH * (t + 1) = CODE_LENGTH * t + CODE_LENGTH * 1 /\ CODE_LENGTH * 1 = CODE_LENGTH
    BY <1>2, Sizes, Distributes
  <2> QED
    BY <1>3, <1>12, <2>1
<1>16. Len(code_table') = FIRST_CODE + ((t + 1) - 1)
  <2>1. Len(code_table') = Len(code_table) + 1
    BY <1>2, <1>14
  <2> QED
    BY <1>2, <1>3, <2>1, Sizes
<1>17. TableAt(chunk', st, code_table', t + 1)
  BY <1>9, <1>12, <1>14
<1>18. old' = codes'[t + 1] /\ symbol' = <<chunk'[st[t + 1] + 1]>> /\ output' = Slice(chunk', 0, st[(t + 1) + 1])
  BY <1>12, <1>14
<1> QED
  BY <1>5, <1>12, <1>15, <1>16, <1>17, <1>18 DEF DecodeAt, Behind

(* At the start the decoder's table is that of the bytes. *)
LEMMA DecodedInit == Init => Decoded
  BY DEF Init, Decoded

(* The chunk is what its last phrase ends. *)
LEMMA LastDecoded ==
  ASSUME TypeOK, Sync, pc = "decode", ~MoreCodes,
         NEW st, Parsed(chunk, st, codes), st[Len(codes) + 1] = Len(chunk),
         NEW t \in 1 .. Len(codes), DecodeAt(st, t), Len(chunk) <= LongestSafe
  PROVE  output = chunk
<1>1. /\ codes \in Seq(Int) /\ chunk \in Seq(Bytes) /\ bytes \in Seq(ByteBits)
      /\ Len(codes) \in Nat /\ Len(chunk) \in Nat /\ t \in Nat
  BY DEF TypeOK, Words
<1>2. codes \in Seq(CodeRange) /\ bytes = Pack(codes)
  BY <1>1, CodesFit DEF Sync
<1>3. PackedSize(Len(bytes), Len(codes)) /\ Len(bytes) \in Nat
  BY <1>1, <1>2, Packing
<1>4. ~(t < Len(codes))
  BY <1>1, <1>3, CodesLeft DEF MoreCodes, DecodeAt, Behind
<1>5. t = Len(codes)
  BY <1>1, <1>4
<1>6. output = Slice(chunk, 0, Len(chunk))
  BY <1>5 DEF DecodeAt
<1> QED
  BY <1>1, <1>6 DEF Slice

(* Every step leaves what the decoder has written a beginning of the chunk. *)
LEMMA DecodedStep == TypeOK /\ Sync /\ Divided /\ Decoded /\ [Next]_vars => Decoded'
<1> SUFFICES ASSUME TypeOK, Sync, Divided, Decoded, [Next]_vars,
                    Distinct(chunk)', ShiftsFit', Len(chunk') <= LongestSafe
             PROVE  /\ pc' # "undefined"
                    /\ pc' \in {"encode", "pack", "first"} =>
                         \A b \in 1 .. FIRST_CODE : code_table'[b] = <<b - 1>>
                    /\ pc' = "decode" =>
                         \E st : /\ Parsed(chunk', st, codes') /\ st[Len(codes') + 1] = Len(chunk')
                                 /\ \E t \in 1 .. Len(codes') : DecodeAt(st, t)'
                    /\ pc' = "done" => output' = chunk'
  BY DEF Decoded
<1>1. chunk' = chunk /\ Distinct(chunk) /\ ShiftsFit /\ Len(chunk) <= LongestSafe
  BY PremisesStay
<1>2. CASE Match \/ Emit \/ EncodeEnds \/ PackBytes
  BY <1>1, <1>2 DEF Match, Emit, EncodeEnds, PackBytes, Encoding, decoder, Decoded
<1>3. CASE DecodeFirst
  <2>1. PICK st : Parsed(chunk, st, codes) /\ EncodeAt(st)
    BY <1>1 DEF Divided
  <2>2. pc = "first" /\ pc' = "decode" /\ codes' = codes
    BY <1>3 DEF DecodeFirst, encoder
  <2>3. st[Len(codes) + 1] = Len(chunk)
    BY <2>1, <2>2 DEF EncodeAt, Ended
  <2>4. \A b \in 1 .. FIRST_CODE : code_table[b] = <<b - 1>>
    BY <1>1, <2>2 DEF Decoded
  <2>5. 1 \in 1 .. Len(codes') /\ DecodeAt(st, 1)'
    BY <1>1, <1>3, <2>1, <2>4, FirstDecoded
  <2> QED
    BY <1>1, <2>1, <2>2, <2>3, <2>5
<1>4. ASSUME pc = "decode"
      PROVE  \E st : /\ Parsed(chunk, st, codes) /\ st[Len(codes) + 1] = Len(chunk)
                     /\ \E t \in 1 .. Len(codes) : DecodeAt(st, t)
  BY <1>1, <1>4 DEF Decoded
<1>5. CASE DecodeNext
  <2>1. pc = "decode" /\ pc' = "decode" /\ codes' = codes
    BY <1>5 DEF DecodeNext, encoder
  <2>2. PICK st : /\ Parsed(chunk, st, codes) /\ st[Len(codes) + 1] = Len(chunk)
                  /\ \E t \in 1 .. Len(codes) : DecodeAt(st, t)
    BY <1>4, <2>1
  <2>3. PICK t \in 1 .. Len(codes) : DecodeAt(st, t)
    BY <2>2
  <2>4. t + 1 \in 1 .. Len(codes') /\ DecodeAt(st, t + 1)'
    BY <1>1, <1>5, <2>2, <2>3, NextDecoded
  <2> QED
    BY <1>1, <2>1, <2>2, <2>4
<1>6. CASE DecodeUndefined
  <2>1. pc = "decode" /\ ~IsCode(old)
    BY <1>6 DEF DecodeUndefined
  <2>2. PICK st : Parsed(chunk, st, codes) /\ \E t \in 1 .. Len(codes) : DecodeAt(st, t)
    BY <1>4, <2>1
  <2>3. PICK t \in 1 .. Len(codes) : DecodeAt(st, t)
    BY <2>2
  <2>4. old = codes[t] /\ Len(code_table) = FIRST_CODE + (t - 1) /\ TableAt(chunk, st, code_table, t)
    BY <2>3 DEF DecodeAt, Behind
  <2>5. codes[t] < FIRST_CODE + (t - 1)
    <3>1. t \in Nat /\ t >= 1 /\ codes \in Seq(Int) /\ chunk \in Seq(Bytes)
      BY DEF TypeOK, Words
    <3> QED
      BY <2>2, <2>4, <3>1, Looks
  <2> QED
    BY <2>1, <2>4, <2>5 DEF IsCode
<1>7. CASE DecodeEnds
  <2>1. pc = "decode" /\ ~MoreCodes /\ pc' = "done" /\ output' = output
    BY <1>7 DEF DecodeEnds, decoder
  <2>2. PICK st : /\ Parsed(chunk, st, codes) /\ st[Len(codes) + 1] = Len(chunk)
                  /\ \E t \in 1 .. Len(codes) : DecodeAt(st, t)
    BY <1>4, <2>1
  <2>3. PICK t \in 1 .. Len(codes) : DecodeAt(st, t)
    BY <2>2
  <2>4. output = chunk
    BY <1>1, <2>1, <2>2, <2>3, LastDecoded
  <2> QED
    BY <1>1, <2>1, <2>4
<1>8. CASE UNCHANGED vars
  <2>1. /\ pc' = pc /\ code_table' = code_table /\ output' = output /\ codes' = codes
        /\ position' = position /\ old' = old /\ symbol' = symbol
    BY <1>8 DEF vars, encoder, decoder
  <2>2. \A st, t : DecodeAt(st, t)' <=> DecodeAt(st, t)
    BY <1>1, <2>1 DEF DecodeAt, Behind
  <2> QED
    BY <1>1, <2>1, <2>2 DEF Decoded
<1> QED
  BY <1>2, <1>3, <1>5, <1>6, <1>7, <1>8 DEF Next

(* RoundTrip, for every chunk that is not too long and every size of the tables:   *)
(* what the kernel sends of it, packed into bytes and read back by the decoder, is *)
(* the chunk, unless the hash takes two of its strings for one or an entry is used *)
(* whose bit an int does not have.                                             *)
THEOREM ChunkComesBack == Spec => []RoundTrip
<1> DEFINE I == TypeOK /\ Sync /\ Divided /\ Decoded
<1>1. Init => I
  BY TypeInit, SyncInit, DividedInit, DecodedInit
<1>2. I /\ [Next]_vars => I'
  BY TypeStep, SyncStep, DividedStep, DecodedStep
<1>3. I => RoundTrip
  BY Apart DEF Decoded, RoundTrip
<1> QED
  BY <1>1, <1>2, <1>3, PTL DEF Spec

-----------------------------------------------------------------------------
(* The codes are those of a table of strings *)

(* A hash has an entry, in its bucket or among the words. *)
Holds(E, A, C, h) ==
  \/ \E j \in 1 .. BUCKET_SIZE : E[h % HASHMAP_CAPACITY][j].key = h
  \/ \E x \in 0 .. C - 1 : \A f \in 0 .. 3 : x \in A[f][Field(f, h)]

(* No string was dropped. *)
Complete(s, st, n, E, A, C) == \A m \in 1 .. n : Holds(E, A, C, FNVHash(Added(s, st, m)))

(* What has an entry is found. *)
LEMMA HeldFound ==
  ASSUME NEW E \in Entries, NEW A \in AssocMaps, NEW V \in Values, NEW C \in 0 .. ASSOC_SIZE,
         NEW s, NEW st, NEW n \in Nat, Kept(s, st, n, E, A, V, C),
         NEW h \in Hashes, h # 0, Holds(E, A, C, h)
  PROVE  GetIn(E, A, V, h) # MISS
<1>1. CASE InBucket(E, h) # {}
  <2> DEFINE hits == InBucket(E, h)
             b == h % HASHMAP_CAPACITY
  <2>1. hits \subseteq Nat /\ hits # {}
    BY <1>1, TableAssumption DEF InBucket
  <2>2. Min(hits) \in hits
    <3> HIDE DEF hits
    <3> QED
      BY <2>1, MinInside
  <2>3. Min(hits) \in 1 .. BUCKET_SIZE /\ E[b][Min(hits)].key = h
    BY <2>2 DEF InBucket
  <2>4. b \in 0 .. HASHMAP_CAPACITY - 1
    BY BucketType
  <2>5. BucketGet(E, h) = E[b][Min(hits)].code
    BY <1>1 DEF BucketGet
  <2> DEFINE e == E[b][Min(hits)]
  <2>6. KeptIn(s, st, n, e)
    <3> HIDE DEF b, hits
    <3> QED
      BY <2>3, <2>4 DEF Kept
  <2> HIDE DEF e
  <2>7. PICK m \in 1 .. n : e = [key |-> FNVHash(Added(s, st, m)), code |-> FIRST_CODE + (m - 1)]
    BY <2>6 DEF KeptIn
  <2>8. e.code = FIRST_CODE + (m - 1)
    BY <2>7
  <2>9. BucketGet(E, h) # MISS
    BY <2>5, <2>8, Sizes DEF MISS, e
  <2> QED
    BY <2>9 DEF GetIn
<1>2. CASE InBucket(E, h) = {}
  <2>1. BucketGet(E, h) = MISS
    BY <1>2 DEF BucketGet
  <2>2. PICK x \in 0 .. C - 1 : \A f \in 0 .. 3 : x \in A[f][Field(f, h)]
    BY <1>2 DEF Holds, InBucket
  <2> DEFINE bits == InWords(A, h)
  <2>3. 0 \in 0 .. 3 /\ \A f \in 1 .. 3 : f \in 0 .. 3
    OBVIOUS
  <2>4. x \in bits
    BY <2>2, <2>3 DEF InWords
  <2>5. Field(0, h) \in 0 .. FIELD - 1
    BY <2>3, FieldType DEF Hashes
  <2>6. A[0][Field(0, h)] \subseteq 0 .. C - 1
    BY <2>3, <2>5 DEF Kept
  <2>7. bits \in SUBSET (0 .. C - 1)
    BY <2>6 DEF InWords
  <2>8. Max(bits) \in bits
    <3>1. C - 1 \in Nat
      BY <2>2, TableAssumption
    <3> HIDE DEF bits
    <3> QED
      BY <2>4, <2>7, <3>1, MaxInside
  <2>9. KeptAt(s, st, n, A, V, Max(bits))
    <3> HIDE DEF bits
    <3>1. Max(bits) \in 0 .. C - 1
      BY <2>7, <2>8
    <3> QED
      BY <3>1 DEF Kept
  <2>10. PICK m \in 1 .. n : V[Max(bits)] = FIRST_CODE + (m - 1)
    BY <2>9 DEF KeptAt
  <2>11. WordsGet(A, V, h) = V[Max(bits)] /\ V[Max(bits)] # MISS
    <3>1. V[Max(bits)] # 0 /\ V[Max(bits)] # MISS
      <4> DEFINE v == V[Max(bits)]
      <4>1. v = FIRST_CODE + (m - 1)
        BY <2>10
      <4> HIDE DEF v
      <4>2. v # 0 /\ v # MISS
        BY <4>1, Sizes DEF MISS
      <4> QED
        BY <4>2 DEF v
    <3> QED
      BY <2>4, <3>1 DEF WordsGet
  <2> QED
    BY <2>1, <2>11 DEF GetIn
<1> QED
  BY <1>1, <1>2

(* A string that is put into the tables has an entry from then on, and the others   *)
(* keep theirs, until the words are full.                                     *)
LEMMA PutHolds ==
  ASSUME TypeOK, ShiftsFit', INT_BITS' = INT_BITS, counter' < ASSOC_SIZE,
         NEW h \in Hashes, Put(h)
  PROVE  /\ Holds(hash_entries', assoc', counter', h)
         /\ \A g \in Hashes : g # 0 /\ Holds(hash_entries, assoc, counter, g) =>
                                Holds(hash_entries', assoc', counter', g)
<1> DEFINE B == h % HASHMAP_CAPACITY
           J == Min(EmptyEntries(h))
           e == [key |-> h, code |-> code]
<1>0. /\ hash_entries \in Entries /\ assoc \in AssocMaps
      /\ counter \in 0 .. ASSOC_SIZE /\ counter \in Nat /\ INT_BITS \in Nat \ {0}
  BY TableAssumption DEF TypeOK
<1>1. B \in 0 .. HASHMAP_CAPACITY - 1 /\ \A g \in Hashes : g % HASHMAP_CAPACITY \in 0 .. HASHMAP_CAPACITY - 1
  BY BucketType
<1>2. ASSUME EmptyEntries(h) # {},
             hash_entries' = [hash_entries EXCEPT ![B][J] = e],
             UNCHANGED <<assoc, values, counter>>
      PROVE  /\ Holds(hash_entries', assoc', counter', h)
             /\ \A g \in Hashes : g # 0 /\ Holds(hash_entries, assoc, counter, g) =>
                                    Holds(hash_entries', assoc', counter', g)
  <2>1. J \in 1 .. BUCKET_SIZE /\ hash_entries[B][J].key = 0
    <3> DEFINE S == EmptyEntries(h)
    <3>1. S \subseteq Nat /\ S # {}
      BY <1>2, TableAssumption DEF EmptyEntries
    <3>2. Min(S) \in S
      <4> HIDE DEF S
      <4> QED
        BY <3>1, MinInside
    <3> QED
      BY <3>2 DEF EmptyEntries, BucketOf
  <2>2. ASSUME NEW b \in 0 .. HASHMAP_CAPACITY - 1, NEW j \in 1 .. BUCKET_SIZE
        PROVE  hash_entries'[b][j] = IF b = B /\ j = J THEN e ELSE hash_entries[b][j]
    <3> HIDE DEF e, J, B
    <3>1. hash_entries'[b] = IF b = B THEN [hash_entries[b] EXCEPT ![J] = e] ELSE hash_entries[b]
      BY <1>0, <1>2 DEF Entries
    <3>2. hash_entries[b] \in [1 .. BUCKET_SIZE -> [key : Nat, code : Int]]
      BY <1>0 DEF Entries
    <3>3. [hash_entries[b] EXCEPT ![J] = e][j] = IF j = J THEN e ELSE hash_entries[b][j]
      BY <3>2
    <3> QED
      BY <3>1, <3>3
  <2>3. hash_entries'[B][J].key = h
    BY <1>1, <2>1, <2>2
  <2>4. Holds(hash_entries', assoc', counter', h)
    BY <2>1, <2>3 DEF Holds
  <2>5. ASSUME NEW g \in Hashes, g # 0, Holds(hash_entries, assoc, counter, g)
        PROVE  Holds(hash_entries', assoc', counter', g)
    <3>1. CASE \E j \in 1 .. BUCKET_SIZE : hash_entries[g % HASHMAP_CAPACITY][j].key = g
      <4> DEFINE b == g % HASHMAP_CAPACITY
      <4>1. PICK j \in 1 .. BUCKET_SIZE : hash_entries[b][j].key = g
        BY <3>1
      <4>2. b \in 0 .. HASHMAP_CAPACITY - 1
        BY <1>1
      <4>3. hash_entries'[b][j].key = g
        <5> HIDE DEF b, B, J, e
        <5>1. ~(b = B /\ j = J)
          BY <2>1, <2>5, <4>1
        <5> QED
          BY <2>2, <4>1, <4>2, <5>1
      <4> QED
        BY <4>3 DEF Holds
    <3>2. CASE \E x \in 0 .. counter - 1 : \A f \in 0 .. 3 : x \in assoc[f][Field(f, g)]
      <4>1. assoc' = assoc /\ counter' = counter
        BY <1>2
      <4> QED
        BY <3>2, <4>1, Zenon DEF Holds
    <3> QED
      BY <2>5, <3>1, <3>2, Zenon DEF Holds
  <2> QED
    BY <2>4, <2>5
<1>3. ASSUME counter < ASSOC_SIZE, NEW bits \in OneShifted(counter),
             assoc' = [f \in 0 .. 3 |-> [assoc[f] EXCEPT ![Field(f, h)] = @ \cup bits]],
             counter' = counter + 1, UNCHANGED hash_entries
      PROVE  /\ Holds(hash_entries', assoc', counter', h)
             /\ \A g \in Hashes : g # 0 /\ Holds(hash_entries, assoc, counter, g) =>
                                    Holds(hash_entries', assoc', counter', g)
  <2>1. counter + 1 < INT_BITS
    BY <1>3 DEF ShiftsFit
  <2>2. bits = {counter}
    <3>1. counter < INT_BITS /\ counter # INT_BITS - 1
      BY <1>0, <2>1
    <3> QED
      BY <3>1, <1>3 DEF OneShifted, Widened
  <2>3. ASSUME NEW f \in 0 .. 3, NEW y \in 0 .. FIELD - 1
        PROVE  assoc'[f][y] = IF y = Field(f, h) THEN assoc[f][y] \cup {counter} ELSE assoc[f][y]
    <3> DEFINE g == assoc[f]
               z == Field(f, h)
    <3>1. assoc'[f] = [g EXCEPT ![z] = g[z] \cup {counter}]
      BY <1>3, <2>2
    <3>2. g \in [0 .. FIELD - 1 -> SUBSET (0 .. ASSOC_SIZE - 1)]
      BY <1>0 DEF AssocMaps
    <3> HIDE DEF g, z
    <3>3. assoc'[f][y] = IF y = z THEN g[y] \cup {counter} ELSE g[y]
      BY <3>1, <3>2
    <3> QED
      BY <3>3 DEF g, z
  <2>4. \A g \in Hashes, f \in 0 .. 3 : Field(f, g) \in 0 .. FIELD - 1
    BY FieldType DEF Hashes
  <2>5. counter \in 0 .. counter' - 1 /\ \A x \in 0 .. counter - 1 : x \in 0 .. counter' - 1
    BY <1>0, <1>3
  <2>6. Holds(hash_entries', assoc', counter', h)
    <3>1. \A f \in 0 .. 3 : counter \in assoc'[f][Field(f, h)]
      BY <2>3, <2>4
    <3> QED
      BY <2>5, <3>1, Zenon DEF Holds
  <2>7. ASSUME NEW g \in Hashes, g # 0, Holds(hash_entries, assoc, counter, g)
        PROVE  Holds(hash_entries', assoc', counter', g)
    <3>1. CASE \E j \in 1 .. BUCKET_SIZE : hash_entries[g % HASHMAP_CAPACITY][j].key = g
      <4>1. hash_entries' = hash_entries
        BY <1>3
      <4> QED
        BY <3>1, <4>1, Zenon DEF Holds
    <3>2. CASE \E x \in 0 .. counter - 1 : \A f \in 0 .. 3 : x \in assoc[f][Field(f, g)]
      <4>1. PICK x \in 0 .. counter - 1 : \A f \in 0 .. 3 : x \in assoc[f][Field(f, g)]
        BY <3>2
      <4>2. \A f \in 0 .. 3 : x \in assoc'[f][Field(f, g)]
        BY <2>3, <2>4, <4>1
      <4> QED
        BY <2>5, <4>1, <4>2, Zenon DEF Holds
    <3> QED
      BY <2>7, <3>1, <3>2, Zenon DEF Holds
  <2> QED
    BY <2>6, <2>7
<1>4. ~(counter >= ASSOC_SIZE /\ UNCHANGED tables)
  <2>1. UNCHANGED tables => counter' = counter
    BY DEF tables
  <2> QED
    BY <1>0, <2>1, TableAssumption
<1> QED
  BY <1>2, <1>3, <1>4, Zenon DEF Put

(* The states of the loop over a chunk that keeps a table of strings: the string    *)
(* it holds is in the table, as every byte is.                                 *)
Singles == {<<b>> : b \in Bytes}
Tables  == UNION {[T -> Int] : T \in SUBSET Seq(Bytes)}
Refs    == {e \in [table : Tables, p : Seq(Bytes), codes : Seq(Int)] :
              e.p \in DOMAIN e.table /\ Singles \subseteq DOMAIN e.table}

NextOf(s, k) == IF k < Len(s) THEN <<s[k + 1]>> ELSE << >>

(* A string that is known is gone on with. *)
LEMMA RefKnown ==
  ASSUME NEW s \in Seq(Bytes), NEW e \in Refs, NEW k \in 1 .. Len(s),
         e.p \o NextOf(s, k) \in DOMAIN e.table
  PROVE  LET r == EncodeByte(s, e, k) IN
           r \in Refs /\ r.table = e.table /\ r.codes = e.codes /\ r.p = e.p \o NextOf(s, k)
<1> DEFINE q == e.p \o NextOf(s, k)
           r == EncodeByte(s, e, k)
<1>1. r = [e EXCEPT !.p = q]
  BY DEF EncodeByte, NextOf
<1>2. e \in [table : Tables, p : Seq(Bytes), codes : Seq(Int)] /\ Singles \subseteq DOMAIN e.table
  BY DEF Refs
<1>3. \A x \in DOMAIN e.table : x \in Seq(Bytes)
  BY <1>2 DEF Tables
<1>4. q \in Seq(Bytes) /\ q \in DOMAIN e.table
  BY <1>3
<1> HIDE DEF q, r
<1>5. /\ r.table = e.table /\ r.codes = e.codes /\ r.p = q
      /\ r \in [table : Tables, p : Seq(Bytes), codes : Seq(Int)]
  BY <1>1, <1>2, <1>4
<1>6. r \in Refs
  BY <1>2, <1>4, <1>5 DEF Refs
<1> QED
  BY <1>5, <1>6 DEF q, r

(* One that is not gets the next code, and the code of the one before goes out. *)
LEMMA RefNew ==
  ASSUME NEW s \in Seq(Bytes), NEW e \in Refs, NEW k \in 1 .. Len(s),
         e.p \o NextOf(s, k) \notin DOMAIN e.table
  PROVE  LET r == EncodeByte(s, e, k)
             q == e.p \o NextOf(s, k) IN
           /\ r \in Refs /\ k < Len(s) /\ q \in Seq(Bytes)
           /\ r.table = [x \in DOMAIN e.table \cup {q} |->
                           IF x = q THEN FIRST_CODE + Len(e.codes) ELSE e.table[x]]
           /\ r.codes = Append(e.codes, e.table[e.p]) /\ r.p = NextOf(s, k)
<1> DEFINE c == NextOf(s, k)
           q == e.p \o c
           D == DOMAIN e.table
           g == [x \in D \cup {q} |-> IF x = q THEN FIRST_CODE + Len(e.codes) ELSE e.table[x]]
           r == EncodeByte(s, e, k)
<1>1. r = [table |-> g, p |-> c, codes |-> Append(e.codes, e.table[e.p])]
  BY DEF EncodeByte, NextOf
<1>2. /\ e.table \in Tables /\ e.p \in Seq(Bytes) /\ e.codes \in Seq(Int)
      /\ Singles \subseteq D /\ e.p \in D
  BY DEF Refs
<1>3. PICK T \in SUBSET Seq(Bytes) : e.table \in [T -> Int]
  BY <1>2 DEF Tables
<1>4. D = T /\ e.table[e.p] \in Int
  BY <1>2, <1>3
<1>5. k < Len(s)
  <2>1. CASE ~(k < Len(s))
    <3>1. c = << >>
      BY <2>1 DEF NextOf
    <3>2. q = e.p
      BY <1>2, <3>1, ConcatEmptySeq
    <3> QED
      BY <1>2, <3>2
  <2> QED
    BY <2>1
<1>6. c \in Singles /\ c \in Seq(Bytes)
  <2>1. k + 1 \in 1 .. Len(s)
    BY <1>5
  <2>2. s[k + 1] \in Bytes
    BY <2>1, ElementOfSeq
  <2> QED
    BY <1>5, <2>2 DEF NextOf, Singles
<1> HIDE DEF c
<1>7. q \in Seq(Bytes)
  BY <1>2, <1>6
<1> HIDE DEF q
<1>8. FIRST_CODE + Len(e.codes) \in Int
  BY <1>2, Sizes
<1>9. g \in [T \cup {q} -> Int] /\ T \cup {q} \in SUBSET Seq(Bytes) /\ DOMAIN g = T \cup {q}
  <2>1. \A x \in T : e.table[x] \in Int
    BY <1>3
  <2>2. DOMAIN g = T \cup {q}
    BY <1>4
  <2>3. \A x \in T \cup {q} : g[x] \in Int
    BY <1>4, <1>8, <2>1
  <2> QED
    BY <1>4, <1>7, <2>2, <2>3
<1> HIDE DEF g
<1>10. g \in Tables
  BY <1>9 DEF Tables
<1>11. Append(e.codes, e.table[e.p]) \in Seq(Int)
  BY <1>2, <1>4, AppendProperties
<1>12. r \in [table : Tables, p : Seq(Bytes), codes : Seq(Int)]
  BY <1>1, <1>6, <1>10, <1>11
<1>13. r.p \in DOMAIN r.table /\ Singles \subseteq DOMAIN r.table
  BY <1>1, <1>2, <1>4, <1>6, <1>9
<1>14. r \in Refs
  BY <1>12, <1>13 DEF Refs
<1>15. r.table = g /\ r.p = c /\ r.codes = Append(e.codes, e.table[e.p])
  BY <1>1
<1> QED
  BY <1>5, <1>7, <1>14, <1>15 DEF c, q, g, r

(* The table of strings starts with the bytes. *)
LEMMA RefStart ==
  ASSUME NEW s \in Seq(Bytes), Len(s) >= 1
  PROVE  /\ EncodeInit(s) \in Refs /\ EncodeInit(s).p = <<s[1]>> /\ EncodeInit(s).codes = << >>
         /\ DOMAIN EncodeInit(s).table = Singles
         /\ \A b \in Bytes : EncodeInit(s).table[<<b>>] = b
<1> DEFINE g == [x \in Singles |-> x[1]]
           e == EncodeInit(s)
<1>1. e = [table |-> g, p |-> <<s[1]>>, codes |-> << >>]
  BY DEF EncodeInit, Singles, Bytes
<1>2. \A b \in Bytes : <<b>> \in Singles /\ g[<<b>>] = b /\ b \in Int
  BY DEF Singles, Bytes
<1>3. \A x \in Singles : \E b \in Bytes : x = <<b>>
  BY DEF Singles
<1>4. ASSUME NEW x \in Singles PROVE x \in Seq(Bytes) /\ g[x] \in Int
  <2>1. PICK b \in Bytes : x = <<b>>
    BY <1>3
  <2>2. <<b>> \in Seq(Bytes)
    OBVIOUS
  <2> HIDE DEF g
  <2> QED
    BY <1>2, <2>1, <2>2
<1>5. g \in [Singles -> Int] /\ Singles \in SUBSET Seq(Bytes) /\ DOMAIN g = Singles
  BY <1>4
<1> HIDE DEF g
<1>6. g \in Tables
  BY <1>5 DEF Tables
<1>7. s[1] \in Bytes
  <2>1. 1 \in 1 .. Len(s)
    OBVIOUS
  <2> QED
    BY <2>1, ElementOfSeq
<1>8. <<s[1]>> \in Singles /\ <<s[1]>> \in Seq(Bytes) /\ << >> \in Seq(Int)
  BY <1>2, <1>4, <1>7
<1> HIDE DEF e
<1>9. e \in [table : Tables, p : Seq(Bytes), codes : Seq(Int)]
  BY <1>1, <1>6, <1>8
<1>10. e.table = g /\ e.p = <<s[1]>> /\ e.codes = << >>
  BY <1>1
<1>11. e \in Refs
  BY <1>5, <1>8, <1>9, <1>10 DEF Refs
<1> QED
  BY <1>2, <1>5, <1>10, <1>11 DEF e

(* The loop over the chunk with a table of strings, round by round. *)
RefRounds(g, s, n) ==
  [t \in SUBSET (1 .. n) |->
     IF t = {} THEN EncodeInit(s)
     ELSE EncodeByte(s, g[t \ {Max(t)}], [k \in 1 .. n |-> k][Max(t)])]

RefRun(s, d) ==
  /\ d[0] = EncodeInit(s)
  /\ \A k \in 0 .. Len(s) - 1 : d[k + 1] = EncodeByte(s, d[k], k + 1)
  /\ \A k \in 0 .. Len(s) : d[k] \in Refs
  /\ Encode(s) = Append(d[Len(s)].codes, d[Len(s)].table[d[Len(s)].p])

(* Encode() as a function of the number of rounds, from its definition by a  *)
(* fold.                                                                     *)
LEMMA EncodeByRounds ==
  ASSUME NEW s \in Seq(Bytes), Len(s) >= 1
  PROVE  \E d : RefRun(s, d)
<1> DEFINE N == Len(s)
           z == [k \in 1 .. N |-> k]
           G == [x \in (1 .. N) \X Refs |-> EncodeByte(s, x[2], x[1])]
           h == CHOOSE g : g = RefRounds(g, s, N)
           d == [n \in 0 .. N |-> h[1 .. n]]
<1>1. N \in Nat /\ DOMAIN z = 1 .. N /\ \A k \in 1 .. N : z[k] = k
  OBVIOUS
<1>2. ASSUME NEW e \in Refs, NEW k \in 1 .. N PROVE EncodeByte(s, e, k) \in Refs
  <2>1. CASE e.p \o NextOf(s, k) \in DOMAIN e.table
    BY <2>1, RefKnown
  <2>2. CASE e.p \o NextOf(s, k) \notin DOMAIN e.table
    BY <2>2, RefNew
  <2> QED
    BY <2>1, <2>2
<1>3. G \in [(1 .. N) \X Refs -> Refs]
  <2> HIDE DEF N
  <2> QED
    BY <1>2
<1>4. EncodeInit(s) \in Refs
  BY RefStart
<1>5. PICK f : FoldBy(f, N, Refs, EncodeInit(s), G)
  <2> HIDE DEF N, G
  <2> QED
    BY <1>1, <1>3, <1>4, FoldExists
<1>6. \A t \in SUBSET (1 .. N) : t # {} =>
        Max(t) \in 1 .. N /\ t \ {Max(t)} \in SUBSET (1 .. N)
  BY <1>1, MaxIndex
<1>7. f = RefRounds(f, s, N)
  <2>1. f = [t \in SUBSET (1 .. N) |-> f[t]]
    BY <1>5 DEF FoldBy
  <2>2. ASSUME NEW t \in SUBSET (1 .. N)
        PROVE  f[t] = IF t = {} THEN EncodeInit(s) ELSE EncodeByte(s, f[t \ {Max(t)}], z[Max(t)])
    <3>1. CASE t = {}
      BY <1>5, <3>1 DEF FoldBy
    <3>2. CASE t # {}
      <4>1. Max(t) \in 1 .. N /\ t \ {Max(t)} \in SUBSET (1 .. N)
        BY <1>6, <3>2
      <4>2. f[t \ {Max(t)}] \in Refs /\ f[t] = G[<<Max(t), f[t \ {Max(t)}]>>]
        BY <1>5, <3>2, <4>1 DEF FoldBy
      <4>3. z[Max(t)] = Max(t)
        BY <1>1, <4>1
      <4> HIDE DEF z
      <4> QED
        BY <3>2, <4>1, <4>2, <4>3
    <3> QED
      BY <3>1, <3>2
  <2> QED
    BY <2>1, <2>2 DEF RefRounds
<1>8. h = RefRounds(h, s, N)
  <2> HIDE DEF N
  <2> QED
    BY <1>7
<1>9. Encode(s) = Append(h[1 .. N].codes, h[1 .. N].table[h[1 .. N].p])
  <2>1. FoldLeft(LAMBDA e, k : EncodeByte(s, e, k), EncodeInit(s), z) = h[1 .. N]
    <3> HIDE DEF N
    <3> QED
      BY <1>1 DEF FoldLeft, MapThenFoldSet, RefRounds
  <2> QED
    BY <2>1 DEF Encode
<1> HIDE DEF h
<1>10. d[0] = EncodeInit(s)
  <2>1. 1 .. 0 = {} /\ {} \in SUBSET (1 .. N)
    OBVIOUS
  <2>2. h[{}] = EncodeInit(s)
    BY <1>8, <2>1 DEF RefRounds
  <2> QED
    BY <1>1, <2>1, <2>2
<1>11. ASSUME NEW n \in 0 .. N - 1 PROVE d[n + 1] = EncodeByte(s, d[n], n + 1)
  <2> DEFINE m == n + 1
             t == 1 .. m
  <2>1. t \in SUBSET (1 .. N) /\ t # {} /\ Max(t) = m /\ t \ {m} = 1 .. n /\ m \in 1 .. N
    <3>1. m \in 1 .. N
      BY <1>1
    <3> HIDE DEF N
    <3> QED
      BY <1>1, <3>1, FirstIndices
  <2>2. d[m] = h[t] /\ d[n] = h[1 .. n]
    BY <1>1
  <2> HIDE DEF t, m, d
  <2>3. h[t] = EncodeByte(s, h[t \ {Max(t)}], [k \in 1 .. N |-> k][Max(t)])
    BY <1>8, <2>1 DEF RefRounds
  <2>4. [k \in 1 .. N |-> k][m] = m
    BY <1>1, <2>1
  <2> QED
    BY <2>1, <2>2, <2>3, <2>4 DEF m
<1>12. d[N] = h[1 .. N]
  BY <1>1
<1> HIDE DEF d
<1>13. \A k \in 0 .. N : d[k] \in Refs
  <2> DEFINE S == {n \in Nat : n <= N => d[n] \in Refs}
  <2>1. 0 \in S
    BY <1>4, <1>10
  <2>2. ASSUME NEW n \in Nat, n \in S PROVE n + 1 \in S
    <3> SUFFICES ASSUME n + 1 <= N PROVE d[n + 1] \in Refs
      OBVIOUS
    <3>1. n \in 0 .. N - 1 /\ n + 1 \in 1 .. N /\ d[n] \in Refs
      BY <1>1, <2>2
    <3> HIDE DEF N
    <3> QED
      BY <1>2, <1>11, <3>1
  <2>3. Nat \subseteq S
    <3> HIDE DEF S
    <3> QED
      BY <2>1, <2>2, Induct
  <2> QED
    BY <1>1, <2>3
<1> QED
  BY <1>9, <1>10, <1>11, <1>12, <1>13 DEF RefRun

(* The last round of that loop changes nothing. *)
LEMMA RefLast ==
  ASSUME NEW s \in Seq(Bytes), Len(s) >= 1, NEW d, RefRun(s, d)
  PROVE  LET e == d[Len(s) - 1] IN Encode(s) = Append(e.codes, e.table[e.p])
<1> DEFINE N == Len(s)
           e == d[N - 1]
<1>1. N \in 1 .. N /\ N - 1 \in 0 .. N - 1 /\ N - 1 \in 0 .. N /\ (N - 1) + 1 = N /\ ~(N < N)
  OBVIOUS
<1>2. e \in Refs /\ d[N] = EncodeByte(s, e, N)
  <2>1. d[(N - 1) + 1] = EncodeByte(s, d[N - 1], (N - 1) + 1) /\ d[N - 1] \in Refs
    <3> HIDE DEF e
    <3> QED
      BY <1>1 DEF RefRun
  <2> QED
    BY <1>1, <2>1
<1>3. NextOf(s, N) = << >>
  BY <1>1 DEF NextOf
<1> HIDE DEF e
<1>4. e.p \in Seq(Bytes) /\ e.p \in DOMAIN e.table
  BY <1>2 DEF Refs
<1>5. e.p \o NextOf(s, N) = e.p
  BY <1>3, <1>4, ConcatEmptySeq
<1>6. d[N].table = e.table /\ d[N].codes = e.codes /\ d[N].p = e.p
  <2> DEFINE r == EncodeByte(s, e, N)
  <2>1. N \in 1 .. Len(s) /\ e \in Refs /\ e.p \o NextOf(s, N) \in DOMAIN e.table
    BY <1>1, <1>2, <1>4, <1>5
  <2>2. r.table = e.table /\ r.codes = e.codes /\ r.p = e.p \o NextOf(s, N)
    <3> HIDE DEF N
    <3> QED
      BY <2>1, RefKnown
  <2> QED
    BY <1>2, <1>5, <2>2
<1>7. Encode(s) = Append(d[N].codes, d[N].table[d[N].p])
  BY DEF RefRun
<1> QED
  BY <1>6, <1>7 DEF e

(* The table of strings says of every string that was kept which code it has. *)
TableSays(s, st, n, T) ==
  /\ DOMAIN T = Singles \cup {Added(s, st, m) : m \in 1 .. n}
  /\ \A b \in Bytes : T[<<b>>] = b
  /\ \A m \in 1 .. n : T[Added(s, st, m)] = FIRST_CODE + (m - 1)

(* One string more in the table of strings. *)
TableWith(T, q, x) == [y \in DOMAIN T \cup {q} |-> IF y = q THEN x ELSE T[y]]

(* With a string more, the table still says the code of each. *)
LEMMA TableMore ==
  ASSUME NEW s, NEW st, NEW u, NEW n \in Nat, NEW T, TableSays(s, st, n, T),
         \A m \in 1 .. n : Added(s, u, m) = Added(s, st, m),
         NEW q, q \notin DOMAIN T, Added(s, u, n + 1) = q
  PROVE  TableSays(s, u, n + 1, TableWith(T, q, FIRST_CODE + n))
<1> DEFINE U == TableWith(T, q, FIRST_CODE + n)
<1>u. U = [x \in DOMAIN T \cup {q} |-> IF x = q THEN FIRST_CODE + n ELSE T[x]]
  BY DEF TableWith
<1> HIDE DEF U
<1>1. DOMAIN U = Singles \cup {Added(s, u, m) : m \in 1 .. n + 1}
  <2>1. \A x : (\E m \in 1 .. n + 1 : x = Added(s, u, m)) <=>
                 (x = q \/ \E m \in 1 .. n : x = Added(s, st, m))
    <3>1. n + 1 \in 1 .. n + 1 /\ \A m \in 1 .. n + 1 : m = n + 1 \/ m \in 1 .. n
      OBVIOUS
    <3>2. \A m \in 1 .. n : m \in 1 .. n + 1
      OBVIOUS
    <3> QED
      BY <3>1, <3>2, Zenon
  <2>2. DOMAIN U = DOMAIN T \cup {q}
    BY <1>u
  <2>3. DOMAIN T = Singles \cup {Added(s, st, m) : m \in 1 .. n}
    BY DEF TableSays
  <2>4. \A x : x \in DOMAIN U <=> x \in Singles \/ x = q \/ \E m \in 1 .. n : x = Added(s, st, m)
    BY <2>2, <2>3, Zenon
  <2> QED
    BY <2>1, <2>4, Zenon
<1>2. ASSUME NEW x, x \in DOMAIN T PROVE U[x] = T[x]
  BY <1>2, <1>u
<1>3. \A b \in Bytes : U[<<b>>] = b
  <2>1. \A b \in Bytes : <<b>> \in DOMAIN T
    BY DEF TableSays, Singles
  <2> QED
    BY <1>2, <2>1 DEF TableSays
<1>4. ASSUME NEW m \in 1 .. n + 1 PROVE U[Added(s, u, m)] = FIRST_CODE + (m - 1)
  <2>1. CASE m = n + 1
    <3>1. m - 1 = n /\ Added(s, u, m) = q
      BY <2>1
    <3>2. U[q] = FIRST_CODE + n
      BY <1>u
    <3> QED
      BY <3>1, <3>2
  <2>2. CASE m # n + 1
    <3>1. m \in 1 .. n
      BY <2>2
    <3>2. Added(s, st, m) \in DOMAIN T /\ T[Added(s, st, m)] = FIRST_CODE + (m - 1)
      BY <3>1 DEF TableSays
    <3> QED
      BY <1>2, <3>1, <3>2
  <2> QED
    BY <2>1, <2>2
<1> QED
  BY <1>1, <1>3, <1>4 DEF TableSays, U

(* A string more is kept, and none was dropped. *)
LEMMA CompleteMore ==
  ASSUME TypeOK, ShiftsFit', INT_BITS' = INT_BITS, counter' < ASSOC_SIZE,
         NEW s, NEW st, NEW u, NEW n \in Nat, Complete(s, st, n, hash_entries, assoc, counter),
         \A m \in 1 .. n : /\ Added(s, u, m) = Added(s, st, m)
                           /\ FNVHash(Added(s, st, m)) \in Hashes /\ FNVHash(Added(s, st, m)) # 0,
         FNVHash(Added(s, u, n + 1)) \in Hashes, Put(FNVHash(Added(s, u, n + 1)))
  PROVE  Complete(s, u, n + 1, hash_entries', assoc', counter')
<1>1. /\ Holds(hash_entries', assoc', counter', FNVHash(Added(s, u, n + 1)))
      /\ \A g \in Hashes : g # 0 /\ Holds(hash_entries, assoc, counter, g) =>
                             Holds(hash_entries', assoc', counter', g)
  <2> DEFINE h == FNVHash(Added(s, u, n + 1))
  <2>1. h \in Hashes /\ Put(h)
    OBVIOUS
  <2> HIDE DEF h
  <2>2. /\ Holds(hash_entries', assoc', counter', h)
        /\ \A g \in Hashes : g # 0 /\ Holds(hash_entries, assoc, counter, g) =>
                               Holds(hash_entries', assoc', counter', g)
    BY <2>1, PutHolds
  <2> QED
    BY <2>2 DEF h
<1>2. \A m \in 1 .. n + 1 : m = n + 1 \/ m \in 1 .. n
  OBVIOUS
<1>3. \A m \in 1 .. n : Holds(hash_entries, assoc, counter, FNVHash(Added(s, st, m)))
  BY Zenon DEF Complete
<1>4. \A m \in 1 .. n : Holds(hash_entries', assoc', counter', FNVHash(Added(s, u, m)))
  BY <1>1, <1>3, Zenon
<1> QED
  BY <1>1, <1>2, <1>4, Zenon DEF Complete

(* The search of the hashed tables finds what the table of strings has. *)
LEMMA TableFinds ==
  ASSUME TypeOK, Distinct(chunk), NEW st, Parsed(chunk, st, codes),
         st[Len(codes) + 1] < Len(chunk),
         Kept(chunk, st, Len(codes), hash_entries, assoc, values, counter),
         Complete(chunk, st, Len(codes), hash_entries, assoc, counter),
         NEW T, TableSays(chunk, st, Len(codes), T),
         NEW x \in StringsOf(chunk), FNVHash(x) \in Hashes, Len(x) >= 2
  PROVE  /\ GetIn(hash_entries, assoc, values, FNVHash(x)) # MISS <=> x \in DOMAIN T
         /\ x \in DOMAIN T => GetIn(hash_entries, assoc, values, FNVHash(x)) = T[x]
<1>1. ASSUME GetIn(hash_entries, assoc, values, FNVHash(x)) # MISS
      PROVE  x \in DOMAIN T /\ GetIn(hash_entries, assoc, values, FNVHash(x)) = T[x]
  <2>1. PICK m \in 1 .. Len(codes) :
           /\ GetIn(hash_entries, assoc, values, FNVHash(x)) = FIRST_CODE + (m - 1)
           /\ Added(chunk, st, m) = x
    BY <1>1, FindsAdded
  <2> QED
    BY <2>1, Zenon DEF TableSays
<1>2. ASSUME x \in DOMAIN T PROVE GetIn(hash_entries, assoc, values, FNVHash(x)) # MISS
  <2>1. ASSUME x \in Singles PROVE FALSE
    <3>1. PICK b \in Bytes : x = <<b>>
      BY <2>1 DEF Singles
    <3> QED
      BY <3>1
  <2>2. PICK m \in 1 .. Len(codes) : x = Added(chunk, st, m)
    BY <1>2, <2>1 DEF TableSays
  <2>3. Holds(hash_entries, assoc, counter, FNVHash(x))
    BY <2>2, Zenon DEF Complete
  <2>4. FNVHash(x) # 0
    BY DEF Distinct
  <2>5. /\ hash_entries \in Entries /\ assoc \in AssocMaps /\ values \in Values
        /\ counter \in 0 .. ASSOC_SIZE /\ Len(codes) \in Nat
    BY DEF TypeOK
  <2> DEFINE h == FNVHash(x)
             n == Len(codes)
  <2> HIDE DEF h, n
  <2>6. h \in Hashes /\ h # 0 /\ Holds(hash_entries, assoc, counter, h) /\ n \in Nat
        /\ Kept(chunk, st, n, hash_entries, assoc, values, counter)
    BY <2>3, <2>4, <2>5 DEF h, n
  <2>7. GetIn(hash_entries, assoc, values, h) # MISS
    BY <2>5, <2>6, HeldFound
  <2> QED
    BY <2>7 DEF h
<1> QED
  BY <1>1, <1>2

(* Rounds of the reference's loop: its last one changes nothing. *)
Rounds(k, n) == IF k < n THEN k ELSE n - 1

(* The kernel is where the table of strings is. *)
RefAt(st, e) ==
  /\ e.codes = codes /\ e.p = p
  /\ TableSays(chunk, st, Len(codes), e.table)
  /\ Complete(chunk, st, Len(codes), hash_entries, assoc, counter)

Refers ==
  Distinct(chunk) /\ ShiftsFit /\ counter < ASSOC_SIZE =>
    IF Ended THEN codes = Encode(chunk)
    ELSE \E st, d : /\ Parsed(chunk, st, codes) /\ EncodeAt(st) /\ RefRun(chunk, d)
                    /\ RefAt(st, d[Rounds(i, Len(chunk))])

(* The string the loop holds, in the terms of the phrases. *)
LEMMA HeldIs ==
  ASSUME TypeOK, Encoding, ~Ended, NEW st, Parsed(chunk, st, codes), EncodeAt(st)
  PROVE  LET a == st[Len(codes) + 1] IN
           /\ a \in Nat /\ a < i + 1 /\ a < Len(chunk) /\ p = Slice(chunk, a, i + 1)
           /\ Kept(chunk, st, Len(codes), hash_entries, assoc, values, counter)
           /\ a + 1 < i + 1 => GetIn(hash_entries, assoc, values, FNVHash(p)) # MISS
           /\ i \in 0 .. Len(chunk) - 1 /\ Rounds(i, Len(chunk)) = i
<1> DEFINE n == Len(codes)
           a == st[n + 1]
<1>1. i \in 0 .. Len(chunk) - 1 /\ Len(chunk) \in Nat /\ n \in Nat /\ codes \in Seq(Int)
  BY DEF TypeOK, Words, Encoding
<1>2. Reached(i, Len(chunk)) = i + 1 /\ Rounds(i, Len(chunk)) = i
  BY <1>1 DEF Reached, Rounds
<1>3. /\ a < i + 1 /\ p = Slice(chunk, a, i + 1)
      /\ Kept(chunk, st, n, hash_entries, assoc, values, counter)
      /\ a + 1 < i + 1 => GetIn(hash_entries, assoc, values, FNVHash(p)) # MISS
  BY <1>2 DEF EncodeAt, OnTheWay
<1>4. a \in Nat
  <2>1. n + 1 \in 1 .. n + 1
    BY <1>1
  <2> QED
    BY <1>1, <2>1, ParsedOrder
<1>5. a < Len(chunk)
  <2> HIDE DEF a
  <2> QED
    BY <1>1, <1>3, <1>4
<1> QED
  BY <1>1, <1>2, <1>3, <1>4, <1>5

(* What the reference tries next is what the kernel tries. *)
LEMMA TriesSame ==
  ASSUME TypeOK, Encoding, ~Ended, ~LastRound, NEW st, Parsed(chunk, st, codes), EncodeAt(st)
  PROVE  /\ p \o NextOf(chunk, i + 1) = Tried /\ NextOf(chunk, i + 1) = <<Byte>>
         /\ Len(Tried) >= 2 /\ i + 1 < Len(chunk)
<1> DEFINE a == st[Len(codes) + 1]
<1>1. /\ a \in Nat /\ a < i + 1 /\ p = Slice(chunk, a, i + 1) /\ i \in 0 .. Len(chunk) - 1
  BY HeldIs
<1> HIDE DEF a
<1>2. /\ Tried = Slice(chunk, a, i + 2) /\ Byte = chunk[i + 2] /\ i + 2 \in 1 .. Len(chunk)
      /\ Len(Tried) = (i + 2) - a
  BY <1>1, TriedIs
<1>3. chunk \in Seq(Bytes) /\ i + 1 \in a .. Len(chunk) - 1 /\ (i + 1) + 1 = i + 2 /\ i + 1 < Len(chunk)
  BY <1>1, <1>2 DEF TypeOK, Words
<1>4. Slice(chunk, a, i + 1) \o <<chunk[(i + 1) + 1]>> = Slice(chunk, a, (i + 1) + 1)
  BY <1>1, <1>3, SliceMore
<1>5. NextOf(chunk, i + 1) = <<Byte>>
  BY <1>2, <1>3 DEF NextOf
<1>6. Len(Tried) >= 2
  BY <1>1, <1>2
<1> QED
  BY <1>1, <1>2, <1>3, <1>4, <1>5, <1>6

(* A round of lzw_encode() that finds its string is one of the reference     *)
(* that does.                                                                *)
LEMMA RefMatch ==
  ASSUME TypeOK, Match, Distinct(chunk), NEW st, Parsed(chunk, st, codes), EncodeAt(st),
         NEW d, RefRun(chunk, d), RefAt(st, d[Rounds(i, Len(chunk))])
  PROVE  ~Ended' /\ RefAt(st, d[Rounds(i, Len(chunk))])'
<1> DEFINE n == Len(codes)
           a == st[n + 1]
           L == Len(chunk)
           e == d[i]
<1>1. Encoding /\ ~Ended /\ pc = "encode"
  BY DEF Match, Encoding, Ended
<1>2. /\ a \in Nat /\ a < i + 1 /\ a < L /\ p = Slice(chunk, a, i + 1)
      /\ Kept(chunk, st, n, hash_entries, assoc, values, counter)
      /\ i \in 0 .. L - 1 /\ Rounds(i, L) = i
  BY <1>1, HeldIs
<1>3. /\ chunk' = chunk /\ codes' = codes /\ pc' = pc /\ p' = Tried /\ i' = i + 1 /\ already_sent' = FALSE
      /\ hash_entries' = hash_entries /\ assoc' = assoc /\ counter' = counter
      /\ Search # MISS
  BY DEF Match, given, tables
<1>4. ~Ended'
  BY <1>1, <1>3 DEF Ended
<1>5. /\ e.codes = codes /\ e.p = p /\ TableSays(chunk, st, n, e.table)
      /\ Complete(chunk, st, n, hash_entries, assoc, counter)
  BY <1>2 DEF RefAt
<1>6. e \in Refs /\ i \in 0 .. L - 1 /\ L \in Nat /\ d[i + 1] = EncodeByte(chunk, e, i + 1)
      /\ chunk \in Seq(Bytes)
  <2>1. chunk \in Seq(Bytes) /\ L \in Nat /\ i \in 0 .. L
    BY <1>2 DEF TypeOK, Words
  <2> QED
    BY <1>2, <2>1 DEF RefRun
<1> HIDE DEF a, e
<1>7. /\ Tried \in StringsOf(chunk) /\ FNVHash(Tried) \in Hashes
      /\ Search = GetIn(hash_entries, assoc, values, FNVHash(Tried))
      /\ LastRound => Tried = p /\ i + 1 = L
  BY <1>1, <1>2, TriedIs
<1>r. PICK r : r = d[Rounds(i + 1, L)]
  OBVIOUS
<1>8. r.codes = codes /\ r.p = Tried /\ r.table = e.table
  <2>1. CASE LastRound
    <3>1. Rounds(i + 1, L) = i
      BY <1>6, <1>7, <2>1 DEF Rounds
    <3> QED
      BY <1>5, <1>7, <1>r, <2>1, <3>1 DEF e
  <2>2. CASE ~LastRound
    <3>1. p \o NextOf(chunk, i + 1) = Tried /\ Len(Tried) >= 2 /\ i + 1 < L
      BY <1>1, <2>2, TriesSame
    <3>2. Rounds(i + 1, L) = i + 1
      BY <3>1 DEF Rounds
    <3>3. Tried \in DOMAIN e.table
      BY <1>2, <1>3, <1>5, <1>7, <3>1, TableFinds DEF a
    <3> DEFINE k == i + 1
               x == EncodeByte(chunk, e, k)
    <3>4. k \in 1 .. Len(chunk) /\ e.p \o NextOf(chunk, k) = Tried
      BY <1>5, <1>6, <3>1
    <3>5. x.table = e.table /\ x.codes = e.codes /\ x.p = e.p \o NextOf(chunk, k)
      <4> HIDE DEF k
      <4> QED
        BY <1>6, <3>3, <3>4, RefKnown
    <3>6. r = x
      BY <1>6, <1>r, <3>2
    <3> HIDE DEF x, k
    <3> QED
      BY <1>5, <3>4, <3>5, <3>6
  <2> QED
    BY <2>1, <2>2
<1>9. RefAt(st, r)'
  BY <1>3, <1>5, <1>8 DEF RefAt
<1>10. RefAt(st, d[Rounds(i, Len(chunk))])'
  <2>1. r = d[Rounds(i', Len(chunk'))]
    BY <1>3, <1>r
  <2> QED
    BY <1>9, <2>1, Zenon
<1> QED
  BY <1>4, <1>10

(* A round that does not is one of the reference that adds the same string,  *)
(* and both send the code of the same phrase; or it is the last, and the     *)
(* reference has the same codes.                                             *)
LEMMA RefEmit ==
  ASSUME TypeOK, Emit, ShiftsFit', counter' < ASSOC_SIZE, Distinct(chunk),
         NEW st, Parsed(chunk, st, codes), EncodeAt(st),
         NEW d, RefRun(chunk, d), RefAt(st, d[Rounds(i, Len(chunk))]),
         NEW u, u = Append(st, i + 1)
  PROVE  IF Ended' THEN codes' = Encode(chunk') ELSE RefAt(u, d[Rounds(i, Len(chunk))])'
<1> DEFINE n == Len(codes)
           a == st[n + 1]
           L == Len(chunk)
           e == d[i]
<1>1. Encoding /\ ~Ended /\ pc = "encode"
  BY DEF Emit, Encoding, Ended
<1>2. /\ a \in Nat /\ a < i + 1 /\ a < L /\ p = Slice(chunk, a, i + 1)
      /\ Kept(chunk, st, n, hash_entries, assoc, values, counter)
      /\ a + 1 < i + 1 => GetIn(hash_entries, assoc, values, FNVHash(p)) # MISS
      /\ i \in 0 .. L - 1 /\ Rounds(i, L) = i
  BY <1>1, HeldIs
<1>3. /\ chunk' = chunk /\ INT_BITS' = INT_BITS /\ codes' = Append(codes, OutCode)
      /\ pc' = pc /\ p' = <<Byte>> /\ i' = i + 1 /\ already_sent' = Sent
      /\ Put(FNVHash(Tried)) /\ Search = MISS
  BY DEF Emit, given
<1>4. /\ e.codes = codes /\ e.p = p /\ TableSays(chunk, st, n, e.table)
      /\ Complete(chunk, st, n, hash_entries, assoc, counter)
  BY <1>2 DEF RefAt
<1>5. /\ e \in Refs /\ L \in Nat /\ d[i + 1] = EncodeByte(chunk, e, i + 1) /\ n \in Nat
      /\ chunk \in Seq(Bytes) /\ codes \in Seq(Int)
  <2>1. chunk \in Seq(Bytes) /\ L \in Nat /\ i \in 0 .. L
    BY <1>2 DEF TypeOK, Words
  <2> QED
    BY <1>2, <2>1 DEF RefRun, TypeOK
<1> HIDE DEF e
<1>6. /\ Tried \in StringsOf(chunk) /\ FNVHash(Tried) \in Hashes
      /\ Search = GetIn(hash_entries, assoc, values, FNVHash(Tried))
      /\ LastRound => Tried = p /\ i + 1 = L
      /\ ~LastRound => Front(Tried) = p
      /\ p \in StringsOf(chunk) /\ FNVHash(p) \in Hashes
      /\ Tried[1] = chunk[a + 1] /\ Len(p) = (i + 1) - a
      /\ Len(Tried) = IF LastRound THEN (i + 1) - a ELSE (i + 2) - a
  <2> HIDE DEF a
  <2> QED
    BY <1>1, <1>2, TriedIs
<1>7. OutCode = e.table[p]
  <2>1. CASE a + 1 = i + 1
    <3>1. Len(Tried) <= 2
      <4> HIDE DEF a
      <4> QED
        BY <1>2, <1>6, <2>1
    <3>2. OutCode = chunk[a + 1]
      BY <1>6, <3>1 DEF OutCode
    <3>3. p = <<chunk[a + 1]>> /\ chunk[a + 1] \in Bytes
      <4>1. a \in 0 .. Len(chunk) - 1
        BY <1>2, <1>5
      <4> HIDE DEF a
      <4> QED
        BY <1>2, <1>5, <2>1, <4>1, SliceOne
    <3> QED
      BY <1>4, <3>2, <3>3 DEF TableSays
  <2>2. CASE a + 1 # i + 1
    <3>1. a + 1 < i + 1
      <4> HIDE DEF a
      <4> QED
        BY <1>2, <2>2
    <3>2. GetIn(hash_entries, assoc, values, FNVHash(p)) # MISS
      BY <1>2, <3>1
    <3>3. ~LastRound
      BY <1>3, <1>6, <3>2
    <3>4. ~(Len(Tried) <= 2) /\ Front(Tried) = p /\ Len(p) >= 2
      <4> HIDE DEF a
      <4> QED
        BY <1>2, <1>6, <3>1, <3>3
    <3>5. OutCode = GetIn(hash_entries, assoc, values, FNVHash(p))
      BY <3>4, GetIs DEF OutCode
    <3> QED
      BY <1>2, <1>4, <1>6, <3>2, <3>4, <3>5, TableFinds
  <2> QED
    BY <2>1, <2>2
<1>8. CASE LastRound
  <2>1. ~(a + 1 < i + 1)
    BY <1>2, <1>3, <1>6, <1>8
  <2>2. Sent
    <3> HIDE DEF a
    <3> QED
      BY <1>2, <1>6, <1>8, <2>1 DEF Sent
  <2>3. Ended'
    BY <1>3, <1>6, <1>8, <2>2 DEF Ended
  <2>4. i = L - 1 /\ L >= 1
    BY <1>2, <1>5, <1>6, <1>8
  <2>5. Encode(chunk) = Append(e.codes, e.table[e.p])
    BY <1>5, <2>4, RefLast DEF e
  <2> QED
    BY <1>3, <1>4, <1>7, <2>3, <2>5
<1>9. CASE ~LastRound
  <2>1. /\ p \o NextOf(chunk, i + 1) = Tried /\ NextOf(chunk, i + 1) = <<Byte>>
        /\ Len(Tried) >= 2 /\ i + 1 < L
    BY <1>1, <1>9, TriesSame
  <2>2. ~Ended' /\ Rounds(i', Len(chunk')) = i + 1
    BY <1>1, <1>2, <1>3, <1>5, <2>1 DEF Ended, Rounds
  <2>3. Tried \notin DOMAIN e.table
    BY <1>2, <1>3, <1>4, <1>6, <2>1, TableFinds
  <2> DEFINE k == i + 1
  <2>r. PICK r : r = EncodeByte(chunk, e, k)
    OBVIOUS
  <2> DEFINE q == Tried
             U == TableWith(e.table, q, FIRST_CODE + n)
  <2>4. k \in 1 .. Len(chunk) /\ e.p \o NextOf(chunk, k) = q
    BY <1>2, <1>4, <1>5, <2>1
  <2>5. /\ r.table = [x \in DOMAIN e.table \cup {e.p \o NextOf(chunk, k)} |->
                         IF x = e.p \o NextOf(chunk, k) THEN FIRST_CODE + Len(e.codes) ELSE e.table[x]]
        /\ r.codes = Append(e.codes, e.table[e.p]) /\ r.p = NextOf(chunk, k)
    <3>1. e.p \o NextOf(chunk, k) \notin DOMAIN e.table
      BY <2>3, <2>4
    <3> HIDE DEF k
    <3> QED
      BY <1>5, <2>4, <2>r, <3>1, RefNew
  <2>6. r.table = U /\ r.codes = codes' /\ r.p = p'
    <3>1. U = [x \in DOMAIN e.table \cup {q} |-> IF x = q THEN FIRST_CODE + n ELSE e.table[x]]
      BY DEF TableWith
    <3> HIDE DEF q, U
    <3> QED
      BY <1>3, <1>4, <1>7, <2>1, <2>4, <2>5, <3>1
  <2>7. d[i + 1] = r
    BY <1>5, <2>r
  <2>8. u[n + 1] = a /\ u[(n + 1) + 1] = i + 1 /\ \A m \in 1 .. n + 1 : u[m] = st[m]
    <3>1. st \in Seq(Nat) /\ Len(st) = n + 1
      BY DEF Parsed
    <3>2. i + 1 \in Nat
      BY <1>2
    <3>3. u[Len(st) + 1] = i + 1 /\ \A m \in 1 .. Len(st) : u[m] = st[m]
      BY <3>1, <3>2, AppendProperties
    <3>4. n + 1 \in 1 .. n + 1
      BY <1>5
    <3> QED
      BY <3>1, <3>3, <3>4
  <2>9. \A m \in 1 .. n : Added(chunk, u, m) = Added(chunk, st, m)
    <3>1. \A m \in 1 .. n : m \in 1 .. n + 1 /\ m + 1 \in 1 .. n + 1
      BY <1>5
    <3> QED
      BY <2>8, <3>1 DEF Added
  <2>10. Added(chunk, u, n + 1) = q
    <3>1. Tried = Slice(chunk, a, i + 2) /\ (i + 1) + 1 = i + 2
      <4> HIDE DEF a
      <4> QED
        BY <1>1, <1>2, <1>9, TriedIs
    <3> QED
      BY <2>8, <3>1 DEF Added
  <2>11. \A m \in 1 .. n : /\ Added(chunk, u, m) = Added(chunk, st, m)
                           /\ FNVHash(Added(chunk, st, m)) \in Hashes
                           /\ FNVHash(Added(chunk, st, m)) # 0
    <3>1. \A m \in 1 .. n : Added(chunk, st, m) \in StringsOf(chunk) /\ FNVHash(Added(chunk, st, m)) \in Hashes
      BY <1>2, <1>5, AddedType
    <3> QED
      BY <2>9, <3>1 DEF Distinct
  <2>12. Complete(chunk, u, n + 1, hash_entries', assoc', counter')
    BY <1>3, <1>4, <1>5, <1>6, <2>10, <2>11, CompleteMore
  <2>13. TableSays(chunk, u, n + 1, U)
    <3> DEFINE T == e.table
    <3>1. q \notin DOMAIN T /\ TableSays(chunk, st, n, T)
      BY <1>4, <2>3
    <3> HIDE DEF q, T, n, U
    <3>2. TableSays(chunk, u, n + 1, TableWith(T, q, FIRST_CODE + n))
      BY <1>5, <2>9, <2>10, <3>1, TableMore
    <3> QED
      BY <3>2 DEF T, U
  <2>14. Len(codes') = n + 1
    <3>1. OutCode \in Int
      BY <1>1, TriedType
    <3> QED
      BY <1>3, <1>5, <3>1, AppendProperties
  <2> HIDE DEF U
  <2>15. RefAt(u, r)'
    BY <1>3, <2>6, <2>12, <2>13, <2>14 DEF RefAt
  <2>16. RefAt(u, d[Rounds(i, Len(chunk))])'
    <3>1. r = d[Rounds(i', Len(chunk'))]
      BY <1>3, <2>2, <2>7
    <3> QED
      BY <2>15, <3>1, Zenon
  <2> QED
    BY <2>2, <2>16
<1> QED
  BY <1>8, <1>9

(* The code that goes out after the loop is the reference's last. *)
LEMMA RefEnds ==
  ASSUME TypeOK, EncodeEnds, ~already_sent, Distinct(chunk),
         NEW st, Parsed(chunk, st, codes), EncodeAt(st),
         NEW d, RefRun(chunk, d), RefAt(st, d[Rounds(i, Len(chunk))])
  PROVE  codes' = Encode(chunk')
<1> DEFINE n == Len(codes)
           a == st[n + 1]
           L == Len(chunk)
           e == d[L - 1]
<1>1. /\ pc = "encode" /\ i = L /\ chunk' = chunk /\ codes' = Append(codes, Get(FNVHash(p)))
  BY DEF EncodeEnds, given
<1>2. chunk \in Seq(Bytes) /\ codes \in Seq(Int) /\ L \in Nat /\ L >= 1 /\ n \in Nat
  BY DEF TypeOK, Words
<1>3. ~Ended /\ Reached(i, L) = L /\ Rounds(i, L) = L - 1
  BY <1>1, <1>2 DEF Ended, Reached, Rounds
<1>4. /\ a + 1 < L /\ p = Slice(chunk, a, L)
      /\ Kept(chunk, st, n, hash_entries, assoc, values, counter)
      /\ GetIn(hash_entries, assoc, values, FNVHash(p)) # MISS
  BY <1>1, <1>3 DEF EncodeAt, OnTheWay
<1>5. a \in Nat
  <2>1. n + 1 \in 1 .. n + 1
    BY <1>2
  <2> QED
    BY <1>2, <2>1, ParsedOrder
<1>6. a < L /\ L \in a + 1 .. L /\ L \in a .. L /\ L - a >= 2
  <2> HIDE DEF a
  <2> QED
    BY <1>2, <1>4, <1>5
<1>7. p \in StringsOf(chunk) /\ FNVHash(p) \in Hashes /\ Len(p) >= 2
  <2> HIDE DEF a
  <2> QED
    BY <1>2, <1>4, <1>5, <1>6, SliceInside, SliceType
<1>8. /\ e.codes = codes /\ e.p = p /\ TableSays(chunk, st, n, e.table)
      /\ Complete(chunk, st, n, hash_entries, assoc, counter)
  BY <1>3 DEF RefAt
<1>9. Encode(chunk) = Append(e.codes, e.table[e.p])
  BY <1>2, RefLast
<1> HIDE DEF e
<1>10. GetIn(hash_entries, assoc, values, FNVHash(p)) = e.table[p]
  BY <1>4, <1>6, <1>7, <1>8, TableFinds
<1> QED
  BY <1>1, <1>8, <1>9, <1>10, GetIs

(* Kernel and reference start alike. *)
LEMMA RefersInit == Init => Refers
<1> SUFFICES ASSUME Init, Distinct(chunk), ShiftsFit PROVE Refers
  BY DEF Refers
<1>1. TypeOK /\ Divided
  BY TypeInit, DividedInit
<1>2. PICK st : Parsed(chunk, st, codes) /\ EncodeAt(st)
  BY <1>1 DEF Divided
<1>3. chunk \in Seq(Bytes) /\ Len(chunk) \in Nat /\ Len(chunk) >= 1
  BY <1>1 DEF TypeOK, Words
<1>4. PICK d : RefRun(chunk, d)
  BY <1>3, EncodeByRounds
<1>5. ~Ended /\ Rounds(i, Len(chunk)) = 0
  BY <1>3 DEF Init, Ended, Rounds
<1> DEFINE e == EncodeInit(chunk)
<1>6. d[0] = e
  BY <1>4 DEF RefRun
<1>7. codes = << >> /\ p = <<chunk[1]>> /\ Len(codes) = 0
  BY DEF Init
<1>8. /\ e.p = p /\ e.codes = codes /\ DOMAIN e.table = Singles
      /\ \A b \in Bytes : e.table[<<b>>] = b
  BY <1>3, <1>7, RefStart
<1> HIDE DEF e
<1>9. \A m : m \notin 1 .. 0
  OBVIOUS
<1>10. TableSays(chunk, st, 0, e.table)
  BY <1>8, <1>9 DEF TableSays
<1>11. Complete(chunk, st, 0, hash_entries, assoc, counter)
  BY <1>9, Zenon DEF Complete
<1>12. RefAt(st, e)
  BY <1>7, <1>8, <1>10, <1>11 DEF RefAt
<1> QED
  BY <1>2, <1>4, <1>5, <1>6, <1>12 DEF Refers

(* Every step keeps the kernel where the reference is, until a string is     *)
(* dropped.                                                                  *)
LEMMA RefersStep == TypeOK /\ Divided /\ Refers /\ [Next]_vars => Refers'
<1> SUFFICES ASSUME TypeOK, Divided, Refers, [Next]_vars,
                    Distinct(chunk)', ShiftsFit', counter' < ASSOC_SIZE
             PROVE  IF Ended' THEN codes' = Encode(chunk')
                    ELSE \E st, d : /\ Parsed(chunk', st, codes') /\ EncodeAt(st)' /\ RefRun(chunk', d)
                                    /\ RefAt(st, d[Rounds(i, Len(chunk))])'
  BY DEF Refers
<1>1. chunk' = chunk /\ Distinct(chunk) /\ ShiftsFit
  BY PremisesStay
<1>2. counter < ASSOC_SIZE
  BY CounterGrows
<1>3. Ended => codes = Encode(chunk)
  BY <1>1, <1>2 DEF Refers
<1>4. ASSUME ~Ended
      PROVE  \E st, d : /\ Parsed(chunk, st, codes) /\ EncodeAt(st) /\ RefRun(chunk, d)
                        /\ RefAt(st, d[Rounds(i, Len(chunk))])
  BY <1>1, <1>2, <1>4 DEF Refers
<1>5. CASE Match
  <2>1. ~Ended
    BY <1>5 DEF Match, Encoding, Ended
  <2>2. PICK st, d : /\ Parsed(chunk, st, codes) /\ EncodeAt(st) /\ RefRun(chunk, d)
                     /\ RefAt(st, d[Rounds(i, Len(chunk))])
    BY <1>4, <2>1
  <2>3. Parsed(chunk', st, codes') /\ EncodeAt(st)'
    BY <1>1, <1>5, <2>2, DivideMatch
  <2>4. ~Ended' /\ RefAt(st, d[Rounds(i, Len(chunk))])'
    BY <1>1, <1>5, <2>2, RefMatch
  <2> QED
    BY <1>1, <2>2, <2>3, <2>4, Zenon
<1>6. CASE Emit
  <2>1. ~Ended
    BY <1>6 DEF Emit, Encoding, Ended
  <2>2. PICK st, d : /\ Parsed(chunk, st, codes) /\ EncodeAt(st) /\ RefRun(chunk, d)
                     /\ RefAt(st, d[Rounds(i, Len(chunk))])
    BY <1>4, <2>1
  <2>3. PICK u : u = Append(st, i + 1) /\ Parsed(chunk', u, codes') /\ EncodeAt(u)'
    BY <1>1, <1>6, <2>2, DivideEmit
  <2>4. IF Ended' THEN codes' = Encode(chunk') ELSE RefAt(u, d[Rounds(i, Len(chunk))])'
    BY <1>1, <1>6, <2>2, <2>3, RefEmit
  <2> QED
    BY <1>1, <2>2, <2>3, <2>4, Zenon
<1>7. CASE EncodeEnds
  <2>1. Ended' /\ pc = "encode" /\ i = Len(chunk)
    BY <1>7 DEF EncodeEnds, Ended
  <2>2. CASE already_sent
    <3>1. Ended /\ codes' = codes
      BY <1>7, <2>1, <2>2 DEF EncodeEnds, Ended
    <3> QED
      BY <1>1, <1>3, <2>1, <3>1
  <2>3. CASE ~already_sent
    <3>1. ~Ended
      BY <2>1, <2>3 DEF Ended
    <3>2. PICK st, d : /\ Parsed(chunk, st, codes) /\ EncodeAt(st) /\ RefRun(chunk, d)
                       /\ RefAt(st, d[Rounds(i, Len(chunk))])
      BY <1>4, <3>1
    <3>3. codes' = Encode(chunk')
      BY <1>1, <1>7, <2>3, <3>2, RefEnds
    <3> QED
      BY <2>1, <3>3
  <2> QED
    BY <2>2, <2>3
<1>8. CASE PackBytes \/ DecodeFirst \/ DecodeNext \/ DecodeUndefined \/ DecodeEnds
  <2>1. codes' = codes /\ pc # "encode" /\ pc' # "encode"
    BY <1>8 DEF PackBytes, DecodeFirst, DecodeNext, DecodeUndefined, DecodeEnds, given, encoder
  <2>2. Ended /\ Ended'
    BY <2>1 DEF Ended
  <2> QED
    BY <1>1, <1>3, <2>1, <2>2
<1>9. CASE UNCHANGED vars
  <2>1. /\ codes' = codes /\ pc' = pc /\ i' = i /\ p' = p /\ code' = code /\ already_sent' = already_sent
        /\ hash_entries' = hash_entries /\ assoc' = assoc /\ values' = values /\ counter' = counter
    BY <1>9 DEF vars, encoder, tables
  <2>2. Ended' <=> Ended
    BY <1>1, <2>1 DEF Ended
  <2>3. ASSUME NEW st, EncodeAt(st) PROVE EncodeAt(st)'
    BY <1>1, <2>1, <2>3 DEF EncodeAt, Ended
  <2>4. ASSUME NEW st, NEW e, RefAt(st, e) PROVE RefAt(st, e)'
    BY <1>1, <2>1, <2>4 DEF RefAt
  <2>5. CASE Ended
    BY <1>1, <1>3, <2>1, <2>2, <2>5
  <2>6. CASE ~Ended
    <3>1. PICK st, d : /\ Parsed(chunk, st, codes) /\ EncodeAt(st) /\ RefRun(chunk, d)
                       /\ RefAt(st, d[Rounds(i, Len(chunk))])
      BY <1>4, <2>6
    <3>2. PICK e : e = d[Rounds(i, Len(chunk))]
      OBVIOUS
    <3>3. RefAt(st, e)'
      BY <2>4, <3>1, <3>2
    <3>4. e = d[Rounds(i', Len(chunk'))]
      BY <1>1, <2>1, <3>2
    <3>5. RefAt(st, d[Rounds(i, Len(chunk))])'
      BY <3>3, <3>4, Zenon
    <3>6. EncodeAt(st)' /\ Parsed(chunk', st, codes') /\ RefRun(chunk', d) /\ ~Ended'
      BY <1>1, <2>1, <2>2, <2>3, <2>6, <3>1
    <3> QED
      BY <3>5, <3>6, Zenon
  <2> QED
    BY <2>5, <2>6
<1> QED
  BY <1>5, <1>6, <1>7, <1>8, <1>9 DEF Next

(* CodesAreReference, for every chunk and every size of the tables: as long as none *)
(* of its strings is dropped, the kernel sends the codes that a table of strings    *)
(* gives, however the hash spreads them over buckets and words.                 *)
THEOREM KernelIsReference == Spec => []CodesAreReference
<1> DEFINE I == TypeOK /\ Divided /\ Refers
<1>1. Init => I
  BY TypeInit, DividedInit, RefersInit
<1>2. I /\ [Next]_vars => I'
  BY TypeStep, DividedStep, RefersStep
<1>3. I => CodesAreReference
  BY Apart DEF Refers, Ended, CodesAreReference
<1> QED
  BY <1>1, <1>2, <1>3, PTL DEF Spec

=============================================================================
