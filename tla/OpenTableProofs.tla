--------------------------- MODULE OpenTableProofs --------------------------
(***************************************************************************)
(* The two tables with open addressing are the map of their caller, for    *)
(* any keys, hashes, values and sizes.  The invariant says of each element *)
(* that the probing for its key meets no empty bucket before it, and of    *)
(* the counters what they count.                                           *)
(***************************************************************************)
EXTENDS OpenTables, Induction

-----------------------------------------------------------------------------
(***************************************************************************)
(* Powers of two, and the buckets that a probing visits: all of them, each *)
(* once, before it comes back.                                             *)
(***************************************************************************)
LEMMA PowerExists ==
  /\ TwoTo[0] = 1
  /\ \A b \in Nat : TwoTo[b + 1] = 2 * TwoTo[b]
<1> DEFINE Body(f, b) == IF b = 0 THEN 1 ELSE 2 * f[b - 1]
           Counts == {n \in Nat : \E f : f = [b \in 0 .. n |-> Body(f, b)]}
           UpTo(n) == CHOOSE f : f = [b \in 0 .. n |-> Body(f, b)]
<1>1. 0 \in Counts
  <2> DEFINE f == [b \in 0 .. 0 |-> 1]
  <2>1. f = [b \in 0 .. 0 |-> Body(f, b)]
    OBVIOUS
  <2> HIDE DEF f, Body
  <2> QED BY <2>1
<1>2. ASSUME NEW n \in Nat, n \in Counts PROVE n + 1 \in Counts
  <2>1. PICK f : f = [b \in 0 .. n |-> Body(f, b)]
    BY <1>2
  <2> DEFINE h == [b \in 0 .. (n + 1) |-> Body(f, b)]
  <2>2. ASSUME NEW b \in 0 .. (n + 1) PROVE Body(h, b) = Body(f, b)
    <3>1. CASE b = 0
      BY <3>1
    <3>2. CASE b # 0
      <4>1. b - 1 \in 0 .. n /\ b - 1 \in 0 .. (n + 1)
        BY <2>2, <3>2
      <4> HIDE DEF Body
      <4>2. h[b - 1] = Body(f, b - 1)
        BY <4>1
      <4>3. f[b - 1] = Body(f, b - 1)
        BY <2>1, <4>1
      <4> HIDE DEF h
      <4> QED BY <3>2, <4>2, <4>3 DEF Body
    <3> QED BY <3>1, <3>2
  <2> HIDE DEF Body
  <2>3. h = [b \in 0 .. (n + 1) |-> Body(h, b)]
    BY <2>2
  <2> HIDE DEF h
  <2> QED BY <2>3
<1>3. \A n \in Nat : n \in Counts
  <2> HIDE DEF Counts
  <2> QED BY <1>1, <1>2, SimpleInduction
<1>4. ASSUME NEW n \in Nat PROVE UpTo(n) = [b \in 0 .. n |-> Body(UpTo(n), b)]
  <2>1. \E f : f = [b \in 0 .. n |-> Body(f, b)]
    BY <1>3
  <2> HIDE DEF Body
  <2> QED BY <2>1
<1> HIDE DEF UpTo, Counts
<1>5. ASSUME NEW n \in Nat, NEW b \in 0 .. n
      PROVE  UpTo(n)[b] = Body(UpTo(n), b)
  <2> HIDE DEF Body
  <2> QED BY <1>4
<1> DEFINE Same == {b \in Nat : \A n \in Nat : b <= n => UpTo(n)[b] = UpTo(b)[b]}
<1>6. 0 \in Same
  BY <1>5
<1>7. ASSUME NEW b \in Nat, b \in Same PROVE b + 1 \in Same
  <2> SUFFICES ASSUME NEW n \in Nat, b + 1 <= n PROVE UpTo(n)[b + 1] = UpTo(b + 1)[b + 1]
    OBVIOUS
  <2>1. b + 1 \in 0 .. n /\ b + 1 \in 0 .. (b + 1) /\ b + 1 # 0 /\ (b + 1) - 1 = b /\ b + 1 \in Nat
    OBVIOUS
  <2>2. UpTo(n)[b + 1] = 2 * UpTo(n)[b]
    BY <1>5, <2>1
  <2>3. UpTo(b + 1)[b + 1] = 2 * UpTo(b + 1)[b]
    BY <1>5, <2>1
  <2>4. UpTo(n)[b] = UpTo(b)[b] /\ UpTo(b + 1)[b] = UpTo(b)[b]
    <3>1. b <= n /\ b <= b + 1 /\ b + 1 \in Nat
      OBVIOUS
    <3> QED BY <1>7, <3>1
  <2> QED BY <2>2, <2>3, <2>4
<1>8. \A b \in Nat : b \in Same
  <2> HIDE DEF Same
  <2> QED BY <1>6, <1>7, SimpleInduction
<1> DEFINE g == [b \in Nat |-> UpTo(b)[b]]
<1>9. ASSUME NEW b \in Nat PROVE g[b] = Body(g, b)
  <2>1. CASE b = 0
    <3>1. 0 \in 0 .. 0
      OBVIOUS
    <3> QED BY <1>5, <2>1, <3>1
  <2>2. CASE b # 0
    <3>1. b - 1 \in Nat /\ b \in 0 .. b /\ b - 1 <= b
      BY <2>2
    <3>2. UpTo(b)[b] = 2 * UpTo(b)[b - 1]
      BY <1>5, <2>2, <3>1
    <3>3. UpTo(b)[b - 1] = UpTo(b - 1)[b - 1]
      BY <1>8, <3>1
    <3> QED BY <2>2, <3>1, <3>2, <3>3
  <2> QED BY <2>1, <2>2
<1> HIDE DEF Body
<1>10. g = [b \in Nat |-> Body(g, b)]
  BY <1>9
<1>11. TwoTo = CHOOSE f : f = [b \in Nat |-> Body(f, b)]
  BY DEF TwoTo, Body
<1> HIDE DEF g
<1>12. TwoTo = [b \in Nat |-> Body(TwoTo, b)]
  BY <1>10, <1>11
<1>13. ASSUME NEW b \in Nat PROVE TwoTo[b] = Body(TwoTo, b)
  BY <1>12
<1>14. ASSUME NEW b \in Nat PROVE TwoTo[b + 1] = 2 * TwoTo[b]
  <2>1. b + 1 \in Nat /\ b + 1 # 0 /\ (b + 1) - 1 = b
    OBVIOUS
  <2>2. TwoTo[b + 1] = Body(TwoTo, b + 1)
    BY <1>13, <2>1
  <2> QED BY <2>1, <2>2 DEF Body
<1>15. TwoTo[0] = 1
  BY <1>13 DEF Body
<1> QED BY <1>14, <1>15

\* They grow, and faster than their exponent.
LEMMA PowerFacts ==
  \A b \in Nat : /\ TwoTo[b] \in Nat \ {0} /\ TwoTo[b] > b
                 /\ TwoTo[b + 1] = 2 * TwoTo[b]
<1> DEFINE Good == {b \in Nat : TwoTo[b] \in Nat \ {0} /\ TwoTo[b] > b}
<1>1. 0 \in Good
  BY PowerExists
<1>2. ASSUME NEW b \in Nat, b \in Good PROVE b + 1 \in Good
  BY <1>2, PowerExists
<1>3. \A b \in Nat : b \in Good
  <2> HIDE DEF Good
  <2> QED BY <1>1, <1>2, SimpleInduction
<1> QED BY <1>3, PowerExists

LEMMA TriangleFacts ==
  ASSUME NEW s \in Nat
  PROVE  Triangle(s) \in Nat /\ 2 * Triangle(s) = s * (s + 1)
<1> DEFINE x == s * (s + 1)
<1>1. \E y \in Nat : x = 2 * y
  <2>1. PICK u \in Nat : s = 2 * u \/ s = 2 * u + 1
    <3>1. s \div 2 \in Nat /\ (s = 2 * (s \div 2) \/ s = 2 * (s \div 2) + 1)
      OBVIOUS
    <3> QED BY <3>1
  <2>2. CASE s = 2 * u
    <3>1. x = 2 * (u * (2 * u + 1)) /\ u * (2 * u + 1) \in Nat
      BY <2>2
    <3> QED BY <3>1
  <2>3. CASE s = 2 * u + 1
    <3>1. x = 2 * ((2 * u + 1) * (u + 1)) /\ (2 * u + 1) * (u + 1) \in Nat
      BY <2>3
    <3> QED BY <3>1
  <2> QED BY <2>1, <2>2, <2>3
<1>2. Triangle(s) = x \div 2
  BY DEF Triangle
<1> HIDE DEF x
<1>3. Triangle(s) \in Nat /\ 2 * Triangle(s) = x
  BY <1>1, <1>2
<1> QED BY <1>3 DEF x

LEMMA BucketType ==
  ASSUME NEW n \in Nat \ {0}, NEW hash \in Nat, NEW s \in Nat
  PROVE  Bucket(n, hash, s) \in 0 .. (n - 1)
<1>1. hash + Triangle(s) \in Nat
  BY TriangleFacts
<1> QED BY <1>1 DEF Bucket

\* A power of two that divides a product with an odd factor divides the other one.
LEMMA OddFactor ==
  \A c \in Nat : \A x, y, z \in Nat :
    (2 * x + 1) * y = TwoTo[c] * z => \E w \in Nat : y = TwoTo[c] * w
<1> DEFINE Good == {c \in Nat : \A x, y, z \in Nat :
                      (2 * x + 1) * y = TwoTo[c] * z => \E w \in Nat : y = TwoTo[c] * w}
<1>1. 0 \in Good
  <2>1. ASSUME NEW y \in Nat PROVE y = TwoTo[0] * y
    BY PowerExists
  <2> QED BY <2>1
<1>2. ASSUME NEW c \in Nat, c \in Good PROVE c + 1 \in Good
  <2> SUFFICES ASSUME NEW x \in Nat, NEW y \in Nat, NEW z \in Nat,
                      (2 * x + 1) * y = TwoTo[c + 1] * z
               PROVE  \E w \in Nat : y = TwoTo[c + 1] * w
    OBVIOUS
  <2> DEFINE t == TwoTo[c]
  <2>1. t \in Nat /\ TwoTo[c + 1] = 2 * t
    BY PowerFacts
  <2> HIDE DEF t
  <2>2. (2 * x + 1) * y = (2 * t) * z
    BY <2>1
  <2>3. \E v \in Nat : y = 2 * v
    <3> DEFINE d == t * z - x * y
    <3>1. y = 2 * d /\ d \in Int
      BY <2>1, <2>2
    <3> HIDE DEF d
    <3>2. d \in Nat
      BY <3>1
    <3> QED BY <3>1, <3>2
  <2>4. PICK v \in Nat : y = 2 * v
    BY <2>3
  <2>5. (2 * x + 1) * v = t * z
    <3> DEFINE l == (2 * x + 1) * v
               r == t * z
    <3>1. (2 * x + 1) * y = 2 * l /\ (2 * t) * z = 2 * r /\ l \in Int /\ r \in Int
      BY <2>1, <2>4
    <3> HIDE DEF l, r
    <3>2. l = r
      BY <2>2, <3>1
    <3> QED BY <3>2 DEF l, r
  <2>6. PICK w \in Nat : v = t * w
    BY <1>2, <2>5 DEF t
  <2>7. y = (2 * t) * w
    BY <2>1, <2>4, <2>6
  <2> QED BY <2>1, <2>7
<1>3. \A c \in Nat : c \in Good
  <2> HIDE DEF Good
  <2> QED BY <1>1, <1>2, SimpleInduction
<1> QED BY <1>3

\* The first n probes of a table of n buckets lead to n buckets.
LEMMA ProbesDiffer ==
  ASSUME NEW b \in Nat, NEW hash \in Nat,
         NEW p \in 0 .. (TwoTo[b] - 1), NEW q \in 0 .. (TwoTo[b] - 1), q < p
  PROVE  Bucket(TwoTo[b], hash, p) # Bucket(TwoTo[b], hash, q)
<1> DEFINE n == TwoTo[b]
           tp == Triangle(p)
           tq == Triangle(q)
<1>1. n \in Nat \ {0} /\ TwoTo[b + 1] = 2 * n /\ b + 1 \in Nat
  BY PowerFacts
<1>2. p \in Nat /\ q \in Nat /\ p < n /\ q < n
  BY <1>1
<1>3. tp \in Nat /\ tq \in Nat /\ 2 * tp = p * (p + 1) /\ 2 * tq = q * (q + 1)
  BY <1>2, TriangleFacts
<1> SUFFICES ASSUME (hash + tp) % n = (hash + tq) % n PROVE FALSE
  BY DEF Bucket
<1> HIDE DEF n, tp, tq
<1>4. PICK m \in Int : (hash + tp) - (hash + tq) = n * m
  <2> DEFINE x == hash + tp
             y == hash + tq
  <2>1. x \in Nat /\ y \in Nat /\ x % n = y % n
    BY <1>3
  <2> HIDE DEF x, y
  <2>2. x = n * (x \div n) + (x % n) /\ y = n * (y \div n) + (y % n)
    BY <1>1, <2>1
  <2>3. x \div n \in Int /\ y \div n \in Int
    BY <1>1, <2>1
  <2>4. x - y = n * (x \div n) - n * (y \div n)
    BY <1>1, <2>1, <2>2, <2>3
  <2>5. x - y = n * ((x \div n) - (y \div n)) /\ (x \div n) - (y \div n) \in Int
    BY <1>1, <2>3, <2>4
  <2> QED BY <2>5 DEF x, y
<1>5. (p - q) * (p + q + 1) = (2 * n) * m
  <2>1. tp - tq = n * m
    BY <1>3, <1>4
  <2>2. 2 * (tp - tq) = 2 * (n * m)
    BY <2>1
  <2>3. p * (p + 1) - q * (q + 1) = 2 * (n * m)
    <3> DEFINE pp == p * (p + 1)
               qq == q * (q + 1)
               nm == n * m
    <3>1. 2 * (tp - tq) = 2 * nm /\ 2 * tp = pp /\ 2 * tq = qq
      BY <1>3, <2>2
    <3>2. nm \in Int
      BY <1>1, <1>4
    <3> HIDE DEF pp, qq, nm
    <3>3. pp - qq = 2 * nm
      BY <1>3, <3>1, <3>2
    <3> QED BY <3>3 DEF pp, qq, nm
  <2>4. (p - q) * (p + q + 1) = p * (p + 1) - q * (q + 1)
    BY <1>2
  <2>5. (2 * n) * m = 2 * (n * m)
    BY <1>1, <1>4
  <2> QED BY <2>3, <2>4, <2>5
<1>6. m \in Nat
  <2>1. (p - q) * (p + q + 1) > 0
    <3>1. p - q >= 1 /\ p + q + 1 >= 1 /\ p - q \in Nat /\ p + q + 1 \in Nat
      BY <1>2
    <3> QED BY <3>1
  <2> SUFFICES ASSUME m < 0 PROVE FALSE
    OBVIOUS
  <2>2. (2 * n) * m < 0
    BY <1>1
  <2> QED BY <1>5, <2>1, <2>2
<1>7. ASSUME NEW x \in Nat, NEW y \in Nat, (2 * x + 1) * y = (2 * n) * m, y > 0
      PROVE  y >= 2 * n
  <2>1. (2 * x + 1) * y = TwoTo[b + 1] * m
    BY <1>1, <1>7
  <2>3. \E w \in Nat : y = TwoTo[b + 1] * w
    <3>1. \A u, v, z \in Nat :
            (2 * u + 1) * v = TwoTo[b + 1] * z => \E w \in Nat : v = TwoTo[b + 1] * w
      BY <1>1, OddFactor
    <3>2. \A v, z \in Nat :
            (2 * x + 1) * v = TwoTo[b + 1] * z => \E w \in Nat : v = TwoTo[b + 1] * w
      BY <3>1, Zenon
    <3>3. (2 * x + 1) * y = TwoTo[b + 1] * m => \E w \in Nat : y = TwoTo[b + 1] * w
      BY <1>6, <3>2, Zenon
    <3> QED BY <2>1, <3>3, Zenon
  <2>2. PICK w \in Nat : y = (2 * n) * w
    BY <1>1, <2>3
  <2>4. w >= 1
    BY <1>1, <1>7, <2>2
  <2> QED BY <1>1, <2>2, <2>4
<1>8. CASE \E x \in Nat : p - q = 2 * x + 1
  <2>1. PICK x \in Nat : p - q = 2 * x + 1
    BY <1>8
  <2> DEFINE y == p + q + 1
  <2>2. y \in Nat /\ y > 0
    BY <1>2
  <2>3. (2 * x + 1) * y = (2 * n) * m
    BY <1>5, <2>1
  <2> HIDE DEF y
  <2>4. y >= 2 * n
    BY <1>7, <2>2, <2>3
  <2> QED BY <1>1, <1>2, <2>4 DEF y
<1>9. CASE \E x \in Nat : p + q + 1 = 2 * x + 1
  <2>1. PICK x \in Nat : p + q + 1 = 2 * x + 1
    BY <1>9
  <2> DEFINE y == p - q
  <2>2. y \in Nat /\ y > 0
    BY <1>2
  <2>3. (2 * x + 1) * y = (2 * n) * m
    <3>1. y * (2 * x + 1) = (2 * n) * m
      BY <1>5, <2>1
    <3>2. y * (2 * x + 1) = (2 * x + 1) * y
      BY <2>2
    <3> QED BY <3>1, <3>2
  <2> HIDE DEF y
  <2>4. y >= 2 * n
    BY <1>7, <2>2, <2>3
  <2> QED BY <1>1, <1>2, <2>4 DEF y
<1>10. (\E x \in Nat : p - q = 2 * x + 1) \/ (\E x \in Nat : p + q + 1 = 2 * x + 1)
  <2> DEFINE d == p - q
  <2>1. d \in Nat /\ p + q + 1 = d + 2 * q + 1
    BY <1>2
  <2>2. PICK u \in Nat : d = 2 * u \/ d = 2 * u + 1
    <3>1. d \div 2 \in Nat /\ (d = 2 * (d \div 2) \/ d = 2 * (d \div 2) + 1)
      BY <2>1
    <3> QED BY <3>1
  <2>3. CASE d = 2 * u
    <3>1. p + q + 1 = 2 * (u + q) + 1 /\ u + q \in Nat
      BY <1>2, <2>1, <2>3
    <3> QED BY <3>1
  <2>4. CASE d = 2 * u + 1
    BY <2>4
  <2> QED BY <2>2, <2>3, <2>4
<1> QED BY <1>8, <1>9, <1>10

\* So every bucket is on the way of every key, and no way comes back too early.
LEMMA ProbesCover ==
  ASSUME NEW b \in Nat, NEW hash \in Nat, NEW i \in 0 .. (TwoTo[b] - 1)
  PROVE  \E s \in 0 .. (TwoTo[b] - 1) : Bucket(TwoTo[b], hash, s) = i
<1> DEFINE n == TwoTo[b]
           all == 0 .. (n - 1)
           f == [s \in all |-> Bucket(n, hash, s)]
<1>1. n \in Nat \ {0}
  BY PowerFacts
<1>2. ASSUME NEW s \in all PROVE Bucket(n, hash, s) \in all
  <2>1. s \in Nat
    BY <1>1
  <2> HIDE DEF n
  <2> QED BY <1>1, <2>1, BucketType
<1>3. \A p, q \in all : Bucket(n, hash, p) = Bucket(n, hash, q) => p = q
  <2> SUFFICES ASSUME NEW p \in all, NEW q \in all, p # q
               PROVE  Bucket(n, hash, p) # Bucket(n, hash, q)
    OBVIOUS
  <2>1. q < p \/ p < q
    BY <1>1
  <2> QED BY <2>1, ProbesDiffer
<1>4. IsFiniteSet(all)
  <2>1. 0 \in Int /\ n - 1 \in Int
    BY <1>1
  <2> HIDE DEF n
  <2> QED BY <2>1, FS_Interval
<1> HIDE DEF all
<1>5. f \in Injection(all, all)
  BY <1>2, <1>3 DEF Injection, IsInjective
<1>6. f \in Surjection(all, all)
  BY <1>4, <1>5, FS_Injection
<1>7. \E s \in all : f[s] = i
  BY <1>6 DEF Surjection, all
<1> QED BY <1>7 DEF all

LEMMA ProbesReturn ==
  ASSUME NEW b \in Nat, NEW hash \in Nat, NEW s \in 1 .. (TwoTo[b] - 1)
  PROVE  Bucket(TwoTo[b], hash, s) # Bucket(TwoTo[b], hash, 0)
<1>1. TwoTo[b] \in Nat \ {0}
  BY PowerFacts
<1>2. s \in 0 .. (TwoTo[b] - 1) /\ 0 \in 0 .. (TwoTo[b] - 1) /\ 0 < s
  BY <1>1
<1> QED BY <1>2, ProbesDiffer

-----------------------------------------------------------------------------
(***************************************************************************)
(* The invariant.  A table has n buckets, the state of each in F, those    *)
(* with an element in L, and the elements in X.                            *)
(***************************************************************************)
Power(n) == \E b \in Nat : n = TwoTo[b]

\* The probing for a hash comes to bucket i over buckets that are not empty.
Reached(n, F, i, hash) ==
  \E s \in 0 .. (n - 1) : /\ Bucket(n, hash, s) = i
                          /\ \A r \in 0 .. (s - 1) : F[Bucket(n, hash, r)] # "empty"

Sound(n, F, L, X) ==
  /\ \A i \in L : /\ X[i].key \in Keys /\ X[i].val \in Values
                  /\ F[i] # "empty" /\ Reached(n, F, i, Hash[X[i].key])
  /\ \A i, j \in L : X[i].key = X[j].key => i = j

\* The elements of a table make up the map d.
Stored(L, X) == {X[i] : i \in L}
Denotes(Z, d) == /\ d = [k \in {z.key : z \in Z} |-> d[k]]
                 /\ \A z \in Z : d[z.key] = z.val

Nonempty(n, F) == {i \in 0 .. (n - 1) : F[i] # "empty"}

Items == [key : Keys, val : Values]

KType(h) ==
  /\ h \in [n : Nat, size : Nat, occupied : Nat, limit : Nat,
            flags : [0 .. (h.n - 1) -> {"empty", "deleted", "live"}],
            items : [0 .. (h.n - 1) -> Items \cup {K!NoItem}]]
  /\ h.n # 0 => Power(h.n) /\ h.n >= 4

KCounts(h) ==
  /\ h.size = Cardinality(K!Live(h))
  /\ h.occupied = Cardinality(Nonempty(h.n, h.flags))
  /\ h.limit = (IF h.n = 0 THEN 0 ELSE K!UpperBound(h.n))
  /\ h.occupied <= h.limit

KInv(h, d) == /\ KType(h) /\ KCounts(h)
              /\ Sound(h.n, h.flags, K!Live(h), h.items)
              /\ Denotes(Stored(K!Live(h), h.items), d)

\* The buckets of a sparse_hash_map, and their states.
Buckets == {S!Nothing, S!Marker} \cup [state : {"used"}, key : Keys, val : Values]
State(s) == [i \in 0 .. (s.n - 1) |-> s.buckets[i].state]

SType(s) ==
  /\ s \in [n : Nat, buckets : [0 .. (s.n - 1) -> Buckets], deleted : Nat, shrink : BOOLEAN]
  /\ Power(s.n) /\ s.n >= MinBuckets

Markers(s) == {i \in 0 .. (s.n - 1) : s.buckets[i].state = "deleted"}

SCounts(s) == /\ s.deleted = Cardinality(Markers(s))
              /\ 10 * S!NumNonempty(s) <= 8 * s.n

SInv(s, d) == /\ SType(s) /\ SCounts(s)
              /\ Sound(s.n, State(s), S!Used(s), s.buckets)
              /\ Denotes(Stored(S!Used(s), s.buckets), d)

IInv == \/ kind = "khash" /\ KInv(table, dict)
        \/ kind = "sparse" /\ SInv(table, dict)

-----------------------------------------------------------------------------
(***************************************************************************)
(* Any open table: where the probing for a key ends, and what putting and  *)
(* erasing an element leave true.                                          *)
(***************************************************************************)
Stops(n, F, L, X, k, s) ==
  LET i == Bucket(n, Hash[k], s) IN F[i] = "empty" \/ (i \in L /\ X[i].key = k)

\* The first probe that ends the probing.
Hit(n, F, L, X, k, s) == /\ s \in 0 .. (n - 1) /\ Stops(n, F, L, X, k, s)
                         /\ \A r \in 0 .. (s - 1) : ~Stops(n, F, L, X, k, r)

LEMMA HashType == \A k \in Keys : Hash[k] \in Nat
BY OpenTablesAssumption

LEMMA PowerType == ASSUME NEW n, Power(n) PROVE n \in Nat \ {0}
BY PowerFacts DEF Power

LEMMA HitExists ==
  ASSUME NEW n, Power(n), NEW F, NEW L, NEW X, NEW k \in Keys,
         NEW e \in 0 .. (n - 1), F[e] = "empty"
  PROVE  \E s \in 0 .. (n - 1) : Hit(n, F, L, X, k, s)
<1> DEFINE T == {s \in 0 .. (n - 1) : Stops(n, F, L, X, k, s)}
<1>1. n \in Nat \ {0} /\ Hash[k] \in Nat
  BY PowerType, HashType
<1>2. \E s \in 0 .. (n - 1) : Bucket(n, Hash[k], s) = e
  <2>1. PICK b \in Nat : n = TwoTo[b]
    BY DEF Power
  <2>2. e \in 0 .. (TwoTo[b] - 1)
    BY <2>1
  <2>3. \E s \in 0 .. (TwoTo[b] - 1) : Bucket(TwoTo[b], Hash[k], s) = e
    BY <1>1, <2>2, ProbesCover
  <2> QED BY <2>1, <2>3, Zenon
<1>3. T # {} /\ T \in SUBSET Nat
  BY <1>1, <1>2 DEF Stops
<1>4. PICK s \in T : \A r \in T : s <= r
  BY <1>3, LeastNatural
<1>5. ASSUME NEW r \in 0 .. (s - 1) PROVE ~Stops(n, F, L, X, k, r)
  <2>1. r \in 0 .. (n - 1) /\ ~(s <= r)
    BY <1>1, <1>4
  <2> QED BY <1>4, <2>1
<1> QED BY <1>4, <1>5 DEF Hit

\* An element that is there is found, and the way to the end meets no empty bucket.
LEMMA HitFacts ==
  ASSUME NEW n, Power(n), NEW F, NEW L, NEW X, Sound(n, F, L, X), NEW k \in Keys,
         NEW s \in 0 .. (n - 1), Hit(n, F, L, X, k, s)
  PROVE  /\ Bucket(n, Hash[k], s) \in 0 .. (n - 1)
         /\ \A r \in 0 .. (s - 1) : F[Bucket(n, Hash[k], r)] # "empty"
         /\ Reached(n, F, Bucket(n, Hash[k], s), Hash[k])
         /\ \A j \in L : X[j].key = k => j = Bucket(n, Hash[k], s)
         /\ F[Bucket(n, Hash[k], s)] # "empty" =>
              Bucket(n, Hash[k], s) \in L /\ X[Bucket(n, Hash[k], s)].key = k
<1> DEFINE at(r) == Bucket(n, Hash[k], r)
<1>1. n \in Nat \ {0} /\ Hash[k] \in Nat /\ s \in Nat
  BY PowerType, HashType
<1>2. at(s) \in 0 .. (n - 1)
  BY <1>1, BucketType
<1>3. \A r \in 0 .. (s - 1) : F[at(r)] # "empty"
  BY DEF Hit, Stops
<1>4. F[at(s)] # "empty" => at(s) \in L /\ X[at(s)].key = k
  BY DEF Hit, Stops
<1>5. ASSUME NEW j \in L, X[j].key = k PROVE j = at(s)
  <2>1. Reached(n, F, j, Hash[k]) /\ F[j] # "empty"
    BY <1>5 DEF Sound
  <2>2. PICK t \in 0 .. (n - 1) : at(t) = j /\ \A r \in 0 .. (t - 1) : F[at(r)] # "empty"
    BY <2>1 DEF Reached
  <2>3. Stops(n, F, L, X, k, t)
    BY <1>5, <2>2 DEF Stops
  <2>4. ~(t < s)
    <3> SUFFICES ASSUME t < s PROVE FALSE
      OBVIOUS
    <3>1. t \in 0 .. (s - 1)
      BY <1>1
    <3> QED BY <2>3, <3>1 DEF Hit
  <2>5. CASE s < t
    <3>1. s \in 0 .. (t - 1)
      BY <1>1, <2>5
    <3>2. at(s) \in L /\ X[at(s)].key = k
      BY <1>4, <2>2, <3>1
    <3> QED BY <1>5, <3>2 DEF Sound
  <2>6. CASE s = t
    BY <2>2, <2>6
  <2> QED BY <1>1, <2>4, <2>5, <2>6
<1>6. Reached(n, F, at(s), Hash[k])
  BY <1>3 DEF Reached
<1> HIDE DEF at
<1> QED BY <1>2, <1>3, <1>4, <1>5, <1>6 DEF at

\* No empty bucket comes back: what was reached stays so.
LEMMA StaysReached ==
  ASSUME NEW n, Power(n), NEW F, NEW G, NEW i, NEW hash \in Nat, Reached(n, F, i, hash),
         \A j \in 0 .. (n - 1) : F[j] # "empty" => G[j] # "empty"
  PROVE  Reached(n, G, i, hash)
<1>1. PICK s \in 0 .. (n - 1) :
        /\ Bucket(n, hash, s) = i
        /\ \A r \in 0 .. (s - 1) : F[Bucket(n, hash, r)] # "empty"
  BY DEF Reached
<1>2. ASSUME NEW r \in 0 .. (s - 1) PROVE G[Bucket(n, hash, r)] # "empty"
  <2>1. r \in Nat /\ n \in Nat \ {0}
    BY PowerType
  <2>2. Bucket(n, hash, r) \in 0 .. (n - 1)
    BY <2>1, BucketType
  <2> QED BY <1>1, <2>2
<1> QED BY <1>1, <1>2 DEF Reached

\* An element put where the probing for its key leads.
PutFits(n, F, L, X, i, G, Y) ==
  /\ \A j \in 0 .. (n - 1) : F[j] # "empty" => G[j] # "empty"
  /\ G[i] # "empty" /\ Y[i].key \in Keys /\ Y[i].val \in Values
  /\ Reached(n, F, i, Hash[Y[i].key])
  /\ \A j \in L : j # i => Y[j] = X[j] /\ X[j].key # Y[i].key

LEMMA PutSound ==
  ASSUME NEW n, Power(n), NEW F, NEW L \in SUBSET (0 .. (n - 1)), NEW X, Sound(n, F, L, X),
         NEW i \in 0 .. (n - 1), NEW G, NEW Y, PutFits(n, F, L, X, i, G, Y)
  PROVE  Sound(n, G, L \cup {i}, Y)
<1> USE DEF PutFits
<1>1. ASSUME NEW j \in L \cup {i}
      PROVE  /\ Y[j].key \in Keys /\ Y[j].val \in Values
             /\ G[j] # "empty" /\ Reached(n, G, j, Hash[Y[j].key])
  <2>1. CASE j = i
    <3>1. Hash[Y[i].key] \in Nat
      BY HashType
    <3> QED BY <2>1, <3>1, StaysReached
  <2>2. CASE j # i
    <3>1. j \in L /\ Y[j] = X[j] /\ j \in 0 .. (n - 1)
      BY <2>2
    <3>2. X[j].key \in Keys /\ X[j].val \in Values /\ F[j] # "empty" /\ Reached(n, F, j, Hash[X[j].key])
      BY <3>1 DEF Sound
    <3>3. Hash[X[j].key] \in Nat
      BY <3>2, HashType
    <3>4. Reached(n, G, j, Hash[X[j].key])
      BY <3>2, <3>3, StaysReached
    <3> QED BY <3>1, <3>2, <3>4
  <2> QED BY <2>1, <2>2
<1>2. ASSUME NEW j \in L \cup {i}, NEW l \in L \cup {i}, Y[j].key = Y[l].key PROVE j = l
  BY <1>2 DEF Sound
<1> QED BY <1>1, <1>2 DEF Sound

LEMMA LessSound ==
  ASSUME NEW n, Power(n), NEW F, NEW L, NEW X, Sound(n, F, L, X),
         NEW M \in SUBSET L, NEW G, NEW Y,
         M \subseteq 0 .. (n - 1),
         \A j \in 0 .. (n - 1) : F[j] # "empty" => G[j] # "empty",
         \A j \in M : Y[j] = X[j]
  PROVE  Sound(n, G, M, Y)
<1>1. ASSUME NEW j \in M
      PROVE  /\ Y[j].key \in Keys /\ Y[j].val \in Values
             /\ G[j] # "empty" /\ Reached(n, G, j, Hash[Y[j].key])
  <2>1. Y[j] = X[j] /\ j \in 0 .. (n - 1) /\ X[j].key \in Keys /\ X[j].val \in Values
        /\ F[j] # "empty" /\ Reached(n, F, j, Hash[X[j].key])
    BY DEF Sound
  <2>2. Reached(n, G, j, Hash[X[j].key])
    BY <2>1, HashType, StaysReached
  <2> QED BY <2>1, <2>2
<1>2. ASSUME NEW j \in M, NEW l \in M, Y[j].key = Y[l].key PROVE j = l
  BY <1>2 DEF Sound
<1> QED BY <1>1, <1>2 DEF Sound

\* The same for the map.
LEMMA DenotesPut ==
  ASSUME NEW Z, NEW d, Denotes(Z, d), NEW z, NEW W \in SUBSET Z,
         \A y \in Z : (y.key = z.key) <=> y \notin W
  PROVE  Denotes(W \cup {z}, Over(Single(z.key, z.val), d))
<1> DEFINE e == Over(Single(z.key, z.val), d)
           keys == {y.key : y \in Z}
           new == {y.key : y \in W \cup {z}}
<1>1. DOMAIN d = keys
  BY DEF Denotes
<1>2. new = {z.key} \cup keys
  OBVIOUS
<1>3. e = [k \in {z.key} \cup keys |-> IF k = z.key THEN z.val ELSE d[k]]
  BY <1>1 DEF Over, Single
<1> HIDE DEF e, keys
<1>4. e = [k \in new |-> e[k]]
  BY <1>2, <1>3
<1>5. ASSUME NEW y \in W \cup {z} PROVE e[y.key] = y.val
  <2>1. CASE y = z
    BY <1>3, <2>1
  <2>2. CASE y \in W
    <3>1. y \in Z /\ y.key # z.key /\ d[y.key] = y.val /\ y.key \in keys
      BY <2>2 DEF Denotes, keys
    <3> QED BY <1>3, <3>1
  <2> QED BY <2>1, <2>2
<1> HIDE DEF new
<1> QED BY <1>4, <1>5 DEF Denotes, e, new

\* insert changes nothing for a key that is there.
LEMMA DenotesInsert ==
  ASSUME NEW Z, NEW d, Denotes(Z, d), NEW z, \A y \in Z : y.key # z.key
  PROVE  Denotes(Z \cup {z}, Over(d, Single(z.key, z.val)))
<1> DEFINE e == Over(d, Single(z.key, z.val))
           keys == {y.key : y \in Z}
           new == {y.key : y \in Z \cup {z}}
<1>1. DOMAIN d = keys
  BY DEF Denotes
<1>2. new = {z.key} \cup keys
  OBVIOUS
<1>3. e = [k \in {z.key} \cup keys |-> IF k \in keys THEN d[k] ELSE z.val]
  BY <1>1 DEF Over, Single
<1> HIDE DEF e
<1>4. e = [k \in new |-> e[k]]
  BY <1>2, <1>3
<1>5. ASSUME NEW y \in Z \cup {z} PROVE e[y.key] = y.val
  <2>1. CASE y = z
    BY <1>3, <2>1
  <2>2. CASE y \in Z
    BY <1>3, <2>2 DEF Denotes
  <2> QED BY <2>1, <2>2
<1> HIDE DEF new
<1> QED BY <1>4, <1>5 DEF Denotes, e, new

LEMMA DenotesSame ==
  ASSUME NEW Z, NEW d, Denotes(Z, d), NEW k, NEW v, NEW z \in Z, z.key = k
  PROVE  Denotes(Z, Over(d, Single(k, v)))
<1>1. DOMAIN d = {y.key : y \in Z}
  BY DEF Denotes
<1>2. k \in DOMAIN d
  BY <1>1
<1>3. Over(d, Single(k, v)) = [l \in DOMAIN d |-> d[l]]
  BY <1>2 DEF Over, Single
<1>4. Over(d, Single(k, v)) = d
  BY <1>1, <1>3 DEF Denotes
<1> QED BY <1>4

LEMMA DenotesErase ==
  ASSUME NEW Z, NEW d, Denotes(Z, d), NEW ks, NEW W \in SUBSET Z,
         \A y \in Z : (y.key \in ks) <=> y \notin W
  PROVE  Denotes(W, Restrict(d, DOMAIN d \ ks))
<1> DEFINE e == Restrict(d, DOMAIN d \ ks)
           keys == {y.key : y \in Z}
           new == {y.key : y \in W}
<1>1. DOMAIN d = keys
  BY DEF Denotes
<1>2. new = keys \ ks
  OBVIOUS
<1>3. e = [k \in keys \ ks |-> d[k]]
  BY <1>1 DEF Restrict
<1> HIDE DEF e
<1>4. e = [k \in new |-> e[k]]
  BY <1>2, <1>3
<1>5. ASSUME NEW y \in W PROVE e[y.key] = y.val
  BY <1>3 DEF Denotes
<1> HIDE DEF new
<1> QED BY <1>4, <1>5 DEF Denotes, e, new

LEMMA DenotesNothing == Denotes({}, << >>)
<1>1. << >> = [k \in {} |-> << >>[k]]
  OBVIOUS
<1> QED BY <1>1 DEF Denotes

-----------------------------------------------------------------------------
(***************************************************************************)
(* The operators of the two tables.                                        *)
(***************************************************************************)
LEMMA InstanceProbes ==
  \A n, k, s : /\ K!Probe(n, k, s) = Bucket(n, Hash[k], s)
               /\ S!Probe(n, k, s) = Bucket(n, Hash[k], s)
BY DEF K!Probe, S!Probe, K!Bucket, S!Bucket, Bucket, K!Triangle, S!Triangle, Triangle

LEMMA InstancePowers == K!TwoTo = TwoTo /\ S!TwoTo = TwoTo
BY DEF K!TwoTo, S!TwoTo, TwoTo

LEMMA InstanceMin == \A T : K!Min(T) = Min(T) /\ S!Min(T) = Min(T)
BY DEF K!Min, S!Min, Min

LEMMA InstanceMax == \A T : K!Max(T) = Max(T) /\ S!Max(T) = Max(T)
BY DEF K!Max, S!Max, Max

LEMMA InstanceCardinality == \A T : S!Cardinality(T) = Cardinality(T)
BY DEF S!Cardinality, Cardinality

\* Min of a set is its only element that is not above another one.
LEMMA MinIs ==
  ASSUME NEW T \in SUBSET Nat, NEW x \in T, \A y \in T : x <= y
  PROVE  Min(T) = x
<1>1. \E z \in T : \A y \in T : z <= y
  OBVIOUS
<1>2. Min(T) \in T /\ \A y \in T : Min(T) <= y
  BY <1>1 DEF Min
<1>3. Min(T) <= x /\ x <= Min(T) /\ x \in Nat /\ Min(T) \in Nat
  BY <1>2
<1> QED BY <1>3

LEMMA RoundUpFacts ==
  ASSUME NEW m \in Nat
  PROVE  Power(K!RoundUp(m)) /\ K!RoundUp(m) \in Nat /\ K!RoundUp(m) >= 4 /\ K!RoundUp(m) >= m
<1>1. CASE m <= 4
  <2>1. TwoTo[0] = 1 /\ TwoTo[0 + 1] = 2 * TwoTo[0] /\ TwoTo[1 + 1] = 2 * TwoTo[1]
    BY PowerExists
  <2>2. TwoTo[2] = 4
    BY <2>1
  <2> QED BY <1>1, <2>2 DEF K!RoundUp, Power
<1>2. CASE m > 4
  <2> DEFINE Good(b) == TwoTo[b] >= m /\ \A c \in 0 .. (b - 1) : TwoTo[c] < m
             b == CHOOSE b \in 0 .. m : Good(b)
             T == {c \in Nat : TwoTo[c] >= m}
  <2>1. \A c \in Nat : TwoTo[c] \in Nat /\ TwoTo[c] > c
    BY PowerFacts
  <2>2. m \in T /\ T \in SUBSET Nat
    BY <2>1
  <2>3. PICK e \in T : \A c \in T : e <= c
    BY <2>2, LeastNatural
  <2>4. e \in 0 .. m /\ TwoTo[e] >= m
    BY <2>2, <2>3
  <2>5. ASSUME NEW c \in 0 .. (e - 1) PROVE TwoTo[c] < m
    <3>1. c \in Nat /\ ~(e <= c)
      BY <2>4
    <3>2. c \notin T
      BY <2>3, <3>1
    <3> QED BY <2>1, <3>1, <3>2
  <2>6. \E c \in 0 .. m : Good(c)
    BY <2>4, <2>5
  <2> HIDE DEF Good
  <2>7. b \in 0 .. m /\ Good(b)
    BY <2>6
  <2>8. K!RoundUp(m) = TwoTo[b]
    BY <1>2, InstancePowers DEF K!RoundUp, K!PowerAbove, Good
  <2> HIDE DEF b
  <2>9. TwoTo[b] >= m /\ TwoTo[b] \in Nat /\ b \in Nat
    BY <2>1, <2>7 DEF Good
  <2> QED BY <1>2, <2>8, <2>9 DEF Power
<1> QED BY <1>1, <1>2

LEMMA UpperBoundFacts ==
  ASSUME NEW n \in Nat, n >= 4
  PROVE  /\ K!UpperBound(n) \in Nat /\ K!UpperBound(n) < n
         /\ \A m \in Nat : 2 * m < n => m < K!UpperBound(n)
BY DEF K!UpperBound

LEMMA UpperBoundGrows ==
  ASSUME NEW m \in Nat, NEW n \in Nat, 4 <= m, m < n
  PROVE  K!UpperBound(m) <= K!UpperBound(n)
BY DEF K!UpperBound

\* Doubling makes room for an element more.
LEMMA UpperBoundDoubles ==
  ASSUME NEW m \in Nat, NEW n \in Nat, 4 <= m, 2 * m <= n
  PROVE  K!UpperBound(m) < K!UpperBound(n)
BY DEF K!UpperBound

LEMMA FiniteBuckets ==
  ASSUME NEW n \in Nat, NEW T \in SUBSET (0 .. (n - 1))
  PROVE  /\ IsFiniteSet(T) /\ Cardinality(T) \in Nat /\ Cardinality(T) <= n
         /\ Cardinality(T) < n => \E i \in 0 .. (n - 1) : i \notin T
<1>1. IsFiniteSet(0 .. (n - 1)) /\ Cardinality(0 .. (n - 1)) = n
  BY FS_Interval
<1>2. IsFiniteSet(T) /\ Cardinality(T) \in Nat /\ Cardinality(T) <= n
  BY <1>1, FS_Subset, FS_CardinalityType
<1>3. (\A i \in 0 .. (n - 1) : i \in T) => T = 0 .. (n - 1)
  OBVIOUS
<1> QED BY <1>1, <1>2, <1>3

LEMMA OneMore ==
  ASSUME NEW T, IsFiniteSet(T), NEW i
  PROVE  /\ IsFiniteSet(T \cup {i}) /\ Cardinality(T) \in Nat
         /\ Cardinality(T \cup {i}) = Cardinality(T) + (IF i \in T THEN 0 ELSE 1)
<1>1. i \in T => T \cup {i} = T
  OBVIOUS
<1>2. Cardinality(T) \in Nat
  BY FS_CardinalityType
<1> QED BY <1>1, <1>2, FS_AddElement

LEMMA OneLess ==
  ASSUME NEW T, IsFiniteSet(T), NEW i \in T
  PROVE  /\ IsFiniteSet(T \ {i}) /\ Cardinality(T) \in Nat \ {0}
         /\ Cardinality(T \ {i}) = Cardinality(T) - 1
<1>1. Cardinality(T) \in Nat /\ Cardinality(T) # 0
  BY FS_CardinalityType, FS_EmptySet
<1> QED BY <1>1, FS_RemoveElement

-----------------------------------------------------------------------------
(***************************************************************************)
(* khash: lookups, kh_put on a table that is prepared, kh_del, kh_clear.   *)
(***************************************************************************)
LEMMA KHashParts ==
  ASSUME NEW h, KType(h)
  PROVE  /\ h.n \in Nat /\ h.size \in Nat /\ h.occupied \in Nat /\ h.limit \in Nat
         /\ h.flags \in [0 .. (h.n - 1) -> {"empty", "deleted", "live"}]
         /\ h.items \in [0 .. (h.n - 1) -> Items \cup {K!NoItem}]
         /\ h = [n |-> h.n, size |-> h.size, occupied |-> h.occupied, limit |-> h.limit,
                 flags |-> h.flags, items |-> h.items]
         /\ K!Live(h) \in SUBSET (0 .. (h.n - 1))
         /\ Nonempty(h.n, h.flags) \in SUBSET (0 .. (h.n - 1))
BY DEF KType, K!Live, Nonempty

LEMMA KHashRoom ==
  ASSUME NEW h, KType(h), KCounts(h), h.n # 0
  PROVE  \E e \in 0 .. (h.n - 1) : h.flags[e] = "empty"
<1>1. h.n \in Nat /\ h.n >= 4 /\ Nonempty(h.n, h.flags) \in SUBSET (0 .. (h.n - 1))
  BY KHashParts DEF KType
<1>2. Cardinality(Nonempty(h.n, h.flags)) < h.n
  BY <1>1, UpperBoundFacts, FiniteBuckets DEF KCounts
<1>3. PICK e \in 0 .. (h.n - 1) : e \notin Nonempty(h.n, h.flags)
  BY <1>1, <1>2, FiniteBuckets
<1> QED BY <1>3 DEF Nonempty

LEMMA LastProbeFacts ==
  ASSUME NEW h, KType(h), h.n # 0, NEW k \in Keys, NEW e \in 0 .. (h.n - 1), h.flags[e] = "empty"
  PROVE  /\ K!LastProbe(h, k) \in 0 .. (h.n - 1)
         /\ Hit(h.n, h.flags, K!Live(h), h.items, k, K!LastProbe(h, k))
<1> DEFINE n == h.n
           ends(s) == LET i == K!Probe(n, k, s)
                      IN  K!IsEmpty(h, i) \/ K!Holds(h, i, k) \/ K!Returned(h, k, s)
           T == {s \in 0 .. (2 * n) : ends(s)}
<1>1. Power(n) /\ n \in Nat \ {0} /\ Hash[k] \in Nat
  BY PowerType, HashType DEF KType
<1>2. PICK s \in 0 .. (n - 1) : Hit(n, h.flags, K!Live(h), h.items, k, s)
  BY <1>1, HitExists
<1>3. ASSUME NEW r \in 0 .. (n - 1)
      PROVE  ends(r) <=> Stops(n, h.flags, K!Live(h), h.items, k, r)
  <2>1. r \in Nat /\ Bucket(n, Hash[k], r) \in 0 .. (n - 1)
    <3>1. r \in Nat
      BY <1>1
    <3> HIDE DEF n
    <3> QED BY <1>1, <3>1, BucketType
  <2>2. ~K!Returned(h, k, r)
    <3> SUFFICES ASSUME r > 0 PROVE Bucket(n, Hash[k], r) # Bucket(n, Hash[k], 0)
      BY InstanceProbes DEF K!Returned
    <3>1. PICK b \in Nat : n = TwoTo[b]
      BY <1>1 DEF Power
    <3>2. r \in 1 .. (TwoTo[b] - 1)
      BY <2>1, <3>1
    <3> QED BY <1>1, <3>1, <3>2, ProbesReturn
  <2>3. K!Probe(n, k, r) = Bucket(n, Hash[k], r)
    BY InstanceProbes
  <2> QED BY <2>1, <2>2, <2>3 DEF Stops, K!IsEmpty, K!Holds, K!Live
<1> HIDE DEF ends, n
<1>4. s \in T /\ T \in SUBSET Nat
  BY <1>1, <1>2, <1>3 DEF Hit
<1>5. ASSUME NEW r \in T PROVE s <= r
  <2> SUFFICES ASSUME r < s PROVE FALSE
    BY <1>1
  <2>1. r \in 0 .. (s - 1) /\ r \in 0 .. (n - 1)
    BY <1>1
  <2> QED BY <1>2, <1>3, <2>1 DEF Hit
<1>6. K!LastProbe(h, k) = Min(T)
  BY InstanceMin DEF K!LastProbe, ends, n
<1> HIDE DEF T
<1>7. K!LastProbe(h, k) = s
  BY <1>4, <1>5, <1>6, MinIs
<1> QED BY <1>2, <1>7 DEF n

\* Where the probing for a key ends in a table of khash.
LEMMA KHashFind ==
  ASSUME NEW h, KType(h), KCounts(h), Sound(h.n, h.flags, K!Live(h), h.items),
         h.n # 0, NEW k \in Keys
  PROVE  LET s == K!LastProbe(h, k)
             i == K!Probe(h.n, k, s)
         IN  /\ s \in 0 .. (h.n - 1) /\ i \in 0 .. (h.n - 1)
             /\ \A r \in 0 .. (s - 1) : h.flags[K!Probe(h.n, k, r)] # "empty"
             /\ Reached(h.n, h.flags, i, Hash[k])
             /\ \A j \in K!Live(h) : h.items[j].key = k => j = i
             /\ h.flags[i] # "empty" => i \in K!Live(h) /\ h.items[i].key = k
<1> DEFINE s == K!LastProbe(h, k)
<1>1. Power(h.n)
  BY DEF KType
<1>2. \E e \in 0 .. (h.n - 1) : h.flags[e] = "empty"
  BY KHashRoom
<1>3. s \in 0 .. (h.n - 1) /\ Hit(h.n, h.flags, K!Live(h), h.items, k, s)
  BY <1>2, LastProbeFacts
<1> HIDE DEF s
<1>4. /\ Bucket(h.n, Hash[k], s) \in 0 .. (h.n - 1)
      /\ \A r \in 0 .. (s - 1) : h.flags[Bucket(h.n, Hash[k], r)] # "empty"
      /\ Reached(h.n, h.flags, Bucket(h.n, Hash[k], s), Hash[k])
      /\ \A j \in K!Live(h) : h.items[j].key = k => j = Bucket(h.n, Hash[k], s)
      /\ h.flags[Bucket(h.n, Hash[k], s)] # "empty" =>
           Bucket(h.n, Hash[k], s) \in K!Live(h) /\ h.items[Bucket(h.n, Hash[k], s)].key = k
  BY <1>1, <1>3, HitFacts
<1>5. \A r : K!Probe(h.n, k, r) = Bucket(h.n, Hash[k], r)
  BY InstanceProbes
<1> QED BY <1>3, <1>4, <1>5 DEF s

\* kh_get
LEMMA KHashGet ==
  ASSUME NEW h, KType(h), KCounts(h), Sound(h.n, h.flags, K!Live(h), h.items), NEW k \in Keys
  PROVE  /\ K!Get(h, k) = h.n \/ (K!Get(h, k) \in K!Live(h) /\ h.items[K!Get(h, k)].key = k)
         /\ \A j \in K!Live(h) : h.items[j].key = k => j = K!Get(h, k)
         /\ h.n \notin K!Live(h)
<1>1. h.n \in Nat /\ h.n \notin K!Live(h) /\ (h.n = 0 => K!Live(h) = {})
  BY KHashParts DEF K!Live
<1>2. CASE h.n = 0
  BY <1>1, <1>2 DEF K!Get
<1>3. CASE h.n # 0
  <2> DEFINE i == K!Probe(h.n, k, K!LastProbe(h, k))
  <2>1. /\ i \in 0 .. (h.n - 1)
        /\ \A j \in K!Live(h) : h.items[j].key = k => j = i
    BY <1>3, KHashFind
  <2>2. K!Get(h, k) = IF K!Holds(h, i, k) THEN i ELSE h.n
    BY <1>3 DEF K!Get
  <2> HIDE DEF i
  <2>3. K!Holds(h, i, k) <=> i \in K!Live(h) /\ h.items[i].key = k
    BY <2>1 DEF K!Holds, K!Live
  <2> QED BY <1>1, <2>1, <2>2, <2>3
<1> QED BY <1>2, <1>3

\* The bucket kh_put chooses: the key's own, or one without element on its way.
LEMMA SiteFacts ==
  ASSUME NEW h, KType(h), KCounts(h), Sound(h.n, h.flags, K!Live(h), h.items),
         h.n # 0, NEW k \in Keys
  PROVE  LET i == K!Site(h, k)
         IN  /\ i \in 0 .. (h.n - 1) /\ Reached(h.n, h.flags, i, Hash[k])
             /\ \A j \in K!Live(h) : h.items[j].key = k => j = i
             /\ i \in K!Live(h) => h.items[i].key = k
<1> DEFINE s == K!LastProbe(h, k)
           i == K!Probe(h.n, k, s)
           passed == {r \in 0 .. (s - 1) : h.flags[K!Probe(h.n, k, r)] = "deleted"}
           site == IF passed = {} THEN h.n ELSE K!Probe(h.n, k, K!Max(passed))
<1>1. /\ s \in 0 .. (h.n - 1) /\ i \in 0 .. (h.n - 1)
      /\ \A r \in 0 .. (s - 1) : h.flags[K!Probe(h.n, k, r)] # "empty"
      /\ Reached(h.n, h.flags, i, Hash[k])
      /\ \A j \in K!Live(h) : h.items[j].key = k => j = i
      /\ h.flags[i] # "empty" => i \in K!Live(h) /\ h.items[i].key = k
  BY KHashFind
<1>2. K!Site(h, k) = IF K!Holds(h, i, k) \/ site = h.n THEN i ELSE site
  BY DEF K!Site
<1>3. h.n \in Nat \ {0} /\ Hash[k] \in Nat
  BY KHashParts, HashType
<1> HIDE DEF s
<1>4. i \in K!Live(h) => h.items[i].key = k
  BY <1>1 DEF K!Live
<1>5. CASE K!Holds(h, i, k) \/ site = h.n
  BY <1>1, <1>2, <1>4, <1>5
<1>6. CASE ~(K!Holds(h, i, k) \/ site = h.n)
  <2>1. passed # {} /\ passed \in SUBSET Nat
    BY <1>1, <1>6
  <2>2. K!Max(passed) \in passed
    <3>1. passed \in SUBSET (0 .. s) /\ s \in Nat
      BY <1>1
    <3> HIDE DEF passed
    <3>2. Max(passed) \in passed
      BY <2>1, <3>1, GreatestNatural
    <3> QED BY <3>2, InstanceMax
  <2> DEFINE r == K!Max(passed)
  <2>3. r \in 0 .. (s - 1) /\ r \in 0 .. (h.n - 1) /\ r \in Nat /\ h.flags[K!Probe(h.n, k, r)] = "deleted"
    BY <1>1, <1>3, <2>2
  <2>4. site = K!Probe(h.n, k, r)
    BY <2>1
  <2> HIDE DEF r, passed, site
  <2>5. site = Bucket(h.n, Hash[k], r) /\ site \in 0 .. (h.n - 1)
    BY <1>3, <2>3, <2>4, InstanceProbes, BucketType
  <2>6. \A q \in 0 .. (r - 1) : h.flags[Bucket(h.n, Hash[k], q)] # "empty"
    <3>1. \A q \in 0 .. (r - 1) : q \in 0 .. (s - 1)
      BY <1>1, <2>3
    <3>2. \A q \in 0 .. (r - 1) : h.flags[K!Probe(h.n, k, q)] # "empty"
      BY <1>1, <3>1
    <3> QED BY <3>2, InstanceProbes
  <2>7. Reached(h.n, h.flags, site, Hash[k])
    BY <2>3, <2>5, <2>6 DEF Reached
  <2>8. site \notin K!Live(h)
    BY <2>3, <2>4 DEF K!Live
  <2>9. ASSUME NEW j \in K!Live(h), h.items[j].key = k PROVE FALSE
    <3>1. j = i
      BY <1>1, <2>9
    <3> QED BY <1>6, <2>9, <3>1 DEF K!Holds, K!Live
  <2> QED BY <1>2, <1>6, <2>5, <2>7, <2>8, <2>9
<1> QED BY <1>5, <1>6

\* kh_put and the assignment, in a table that has room.
LEMMA KHashPutAt ==
  ASSUME NEW h, NEW d, KInv(h, d), h.n # 0, h.occupied < h.limit,
         NEW k \in Keys, NEW v \in Values
  PROVE  KInv(K!PutAt(h, k, v), Over(Single(k, v), d))
<1> DEFINE i == K!Site(h, k)
           item == [key |-> k, val |-> v]
           flags == [h.flags EXCEPT ![i] = "live"]
           items == [h.items EXCEPT ![i] = item]
           g == K!PutAt(h, k, v)
           L == K!Live(h)
           X == h.items
<1>1. KType(h) /\ KCounts(h) /\ Sound(h.n, h.flags, L, X) /\ Denotes(Stored(L, X), d) /\ Power(h.n)
  BY DEF KInv, KType
<1>2. /\ i \in 0 .. (h.n - 1) /\ Reached(h.n, h.flags, i, Hash[k])
      /\ \A j \in L : X[j].key = k => j = i
      /\ i \in L => X[i].key = k
  BY <1>1, SiteFacts
<1>3. /\ h.n \in Nat /\ h.size \in Nat /\ h.occupied \in Nat /\ h.limit \in Nat
      /\ h.flags \in [0 .. (h.n - 1) -> {"empty", "deleted", "live"}]
      /\ h.items \in [0 .. (h.n - 1) -> Items \cup {K!NoItem}]
      /\ h = [n |-> h.n, size |-> h.size, occupied |-> h.occupied, limit |-> h.limit,
              flags |-> h.flags, items |-> h.items]
      /\ L \in SUBSET (0 .. (h.n - 1))
      /\ Nonempty(h.n, h.flags) \in SUBSET (0 .. (h.n - 1))
  BY <1>1, KHashParts
<1>4. g = [n |-> h.n, size |-> h.size + (IF h.flags[i] = "live" THEN 0 ELSE 1),
           occupied |-> h.occupied + (IF h.flags[i] = "empty" THEN 1 ELSE 0), limit |-> h.limit,
           flags |-> flags, items |-> items]
  <2>1. g = [h EXCEPT !.flags[i] = "live", !.items[i] = item,
                      !.size = @ + (IF h.flags[i] = "live" THEN 0 ELSE 1),
                      !.occupied = @ + (IF h.flags[i] = "empty" THEN 1 ELSE 0)]
    BY DEF K!PutAt
  <2> HIDE DEF i, item, g
  <2> QED BY <1>3, <2>1
<1> HIDE DEF i, g
<1>5. item \in Items
  BY DEF Items
<1>6. KType(g)
  <2>1. flags \in [0 .. (h.n - 1) -> {"empty", "deleted", "live"}]
    BY <1>3
  <2>2. items \in [0 .. (h.n - 1) -> Items \cup {K!NoItem}]
    BY <1>3, <1>5
  <2> HIDE DEF flags, items
  <2> QED BY <1>1, <1>3, <1>4, <2>1, <2>2 DEF KType
<1>7. K!Live(g) = L \cup {i}
  BY <1>2, <1>3, <1>4 DEF K!Live
<1>8. Nonempty(g.n, g.flags) = Nonempty(h.n, h.flags) \cup {i}
  BY <1>2, <1>3, <1>4 DEF Nonempty
<1>9. KCounts(g)
  <2>1. Cardinality(L \cup {i}) = Cardinality(L) + (IF i \in L THEN 0 ELSE 1)
    BY <1>3, FiniteBuckets, OneMore
  <2>2. Cardinality(Nonempty(h.n, h.flags) \cup {i}) =
          Cardinality(Nonempty(h.n, h.flags)) + (IF i \in Nonempty(h.n, h.flags) THEN 0 ELSE 1)
    BY <1>3, FiniteBuckets, OneMore
  <2>3. i \in L <=> h.flags[i] = "live"
    BY <1>2 DEF K!Live
  <2>4. i \in Nonempty(h.n, h.flags) <=> h.flags[i] # "empty"
    BY <1>2 DEF Nonempty
  <2> HIDE DEF L, flags, items
  <2>5. h.size = Cardinality(L) /\ h.occupied = Cardinality(Nonempty(h.n, h.flags))
    BY <1>1 DEF KCounts, L
  <2>6. g.size = Cardinality(K!Live(g)) /\ g.occupied = Cardinality(Nonempty(g.n, g.flags))
    BY <1>4, <1>7, <1>8, <2>1, <2>2, <2>3, <2>4, <2>5
  <2>7. g.limit = h.limit /\ g.n = h.n /\ g.occupied <= h.occupied + 1
    BY <1>3, <1>4
  <2>8. g.occupied <= g.limit
    <3>1. g.occupied \in Nat
      BY <1>3, <1>4
    <3> QED BY <1>3, <2>7, <3>1
  <2> QED BY <1>1, <2>6, <2>7, <2>8 DEF KCounts
<1>10. Sound(g.n, g.flags, K!Live(g), g.items)
  <2>1. \A j \in 0 .. (h.n - 1) : h.flags[j] # "empty" => flags[j] # "empty"
    BY <1>3
  <2>2. flags[i] # "empty" /\ items[i] = item
    BY <1>2, <1>3
  <2>3. item.key = k /\ item.val = v
    OBVIOUS
  <2>4. \A j \in L : j # i => items[j] = X[j] /\ X[j].key # k
    BY <1>2, <1>3
  <2>7. /\ items[i].key = k /\ items[i].val = v
        /\ \A j \in L : j # i => items[j] = X[j] /\ X[j].key # items[i].key
    BY <2>2, <2>3, <2>4
  <2> HIDE DEF flags, items, item, L, X
  <2>8. /\ items[i].key \in Keys /\ items[i].val \in Values
        /\ Reached(h.n, h.flags, i, Hash[items[i].key])
    BY <1>2, <2>7
  <2>9. PutFits(h.n, h.flags, L, X, i, flags, items)
    BY <2>1, <2>2, <2>7, <2>8 DEF PutFits
  <2>5. Sound(h.n, flags, L \cup {i}, items)
    BY <1>1, <1>2, <1>3, <2>9, PutSound
  <2>6. g.n = h.n /\ g.flags = flags /\ g.items = items
    BY <1>4
  <2> QED BY <1>7, <2>5, <2>6
<1>11. Denotes(Stored(K!Live(g), g.items), Over(Single(k, v), d))
  <2> DEFINE W == {X[j] : j \in L \ {i}}
             Z == {X[j] : j \in L}
  <2>1. \A y \in Z : y.key = k <=> y \notin W
    <3> SUFFICES ASSUME NEW j \in L PROVE X[j].key = k <=> X[j] \notin W
      OBVIOUS
    <3>1. CASE j = i
      <4>1. X[j].key = k
        BY <1>2, <3>1
      <4>2. ASSUME X[j] \in W PROVE FALSE
        <5>1. PICK l \in L \ {i} : X[j] = X[l]
          BY <4>2
        <5> QED BY <1>2, <4>1, <5>1
      <4> QED BY <4>1, <4>2
    <3>2. CASE j # i
      BY <1>2, <3>2
    <3> QED BY <3>1, <3>2
  <2>2. {items[j] : j \in L \cup {i}} = W \cup {item}
    <3>1. items[i] = item
      BY <1>2, <1>3
    <3>2. \A j \in L \ {i} : items[j] = X[j]
      BY <1>3
    <3> HIDE DEF items, item
    <3> QED BY <3>1, <3>2
  <2>3. W \in SUBSET Z /\ item.key = k /\ item.val = v
    OBVIOUS
  <2>4. Denotes(Z, d)
    BY <1>1 DEF Stored
  <2> HIDE DEF W, Z, item
  <2>5. Denotes(W \cup {item}, Over(Single(k, v), d))
    BY <2>1, <2>3, <2>4, DenotesPut
  <2>6. g.items = items
    BY <1>4
  <2> QED BY <1>7, <2>2, <2>5, <2>6 DEF Stored
<1> QED BY <1>6, <1>9, <1>10, <1>11 DEF KInv, g

\* A table whose buckets are all empty.
LEMMA KHashEmpty ==
  ASSUME NEW h, KType(h), h.flags = K!Flags(h.n, "empty"), h.size = 0, h.occupied = 0,
         h.limit = IF h.n = 0 THEN 0 ELSE K!UpperBound(h.n)
  PROVE  KInv(h, << >>)
<1>1. h.n \in Nat /\ h.limit \in Nat
  BY KHashParts
<1>2. K!Live(h) = {} /\ Nonempty(h.n, h.flags) = {}
  BY DEF K!Live, Nonempty, K!Flags
<1>3. KCounts(h)
  BY <1>1, <1>2, FS_EmptySet DEF KCounts
<1>4. Sound(h.n, h.flags, K!Live(h), h.items)
  BY <1>2 DEF Sound
<1>5. Stored(K!Live(h), h.items) = {}
  BY <1>2 DEF Stored
<1> QED BY <1>3, <1>4, <1>5, DenotesNothing DEF KInv

LEMMA KHashInitial == KInv(K!Initial, << >>)
<1> DEFINE h == K!Initial
<1>1. h = [n |-> 0, size |-> 0, occupied |-> 0, limit |-> 0,
           flags |-> K!Flags(0, "empty"), items |-> K!NoItems(0)]
  BY DEF K!Initial
<1>2. K!Flags(0, "empty") \in [0 .. (0 - 1) -> {"empty", "deleted", "live"}]
  BY DEF K!Flags
<1>3. K!NoItems(0) \in [0 .. (0 - 1) -> Items \cup {K!NoItem}]
  BY DEF K!NoItems
<1> HIDE DEF h
<1>4. KType(h)
  BY <1>1, <1>2, <1>3 DEF KType
<1>5. KInv(h, << >>)
  BY <1>1, <1>4, KHashEmpty
<1> QED BY <1>5 DEF h

LEMMA KHashCleared ==
  ASSUME NEW h, NEW d, KInv(h, d)
  PROVE  KInv(K!Cleared(h), << >>)
<1> DEFINE g == K!Cleared(h)
<1>1. KType(h) /\ KCounts(h)
  BY DEF KInv
<1>2. /\ h.n \in Nat /\ h.limit \in Nat
      /\ h = [n |-> h.n, size |-> h.size, occupied |-> h.occupied, limit |-> h.limit,
              flags |-> h.flags, items |-> h.items]
  BY <1>1, KHashParts
<1>3. g = [n |-> h.n, size |-> 0, occupied |-> 0, limit |-> h.limit,
           flags |-> K!Flags(h.n, "empty"), items |-> K!NoItems(h.n)]
  <2>1. g = [h EXCEPT !.flags = K!Flags(h.n, "empty"), !.size = 0, !.occupied = 0,
                      !.items = K!NoItems(h.n)]
    BY DEF K!Cleared
  <2> HIDE DEF g
  <2> QED BY <1>2, <2>1
<1> HIDE DEF g
<1>4. /\ K!Flags(h.n, "empty") \in [0 .. (h.n - 1) -> {"empty", "deleted", "live"}]
      /\ K!NoItems(h.n) \in [0 .. (h.n - 1) -> Items \cup {K!NoItem}]
  BY DEF K!Flags, K!NoItems
<1>5. KType(g)
  BY <1>1, <1>2, <1>3, <1>4 DEF KType
<1>6. KInv(g, << >>)
  BY <1>1, <1>3, <1>5, KHashEmpty DEF KCounts
<1> QED BY <1>6 DEF g

\* kh_del at what kh_get returned.
LEMMA KHashDeleted ==
  ASSUME NEW h, NEW d, KInv(h, d), NEW k \in Keys
  PROVE  KInv(K!Deleted(h, K!Get(h, k)), Restrict(d, DOMAIN d \ {k}))
<1> DEFINE i == K!Get(h, k)
           flags == [h.flags EXCEPT ![i] = "deleted"]
           items == [h.items EXCEPT ![i] = K!NoItem]
           g == K!Deleted(h, i)
           L == K!Live(h)
           X == h.items
           Z == {X[j] : j \in L}
           e == Restrict(d, DOMAIN d \ {k})
<1>1. KType(h) /\ KCounts(h) /\ Sound(h.n, h.flags, L, X) /\ Denotes(Z, d)
  BY DEF KInv, Stored
<1>2. /\ i = h.n \/ (i \in L /\ X[i].key = k)
      /\ \A j \in L : X[j].key = k => j = i
      /\ h.n \notin L
  BY <1>1, KHashGet
<1>3. /\ h.n \in Nat /\ h.size \in Nat /\ h.occupied \in Nat /\ h.limit \in Nat
      /\ h.flags \in [0 .. (h.n - 1) -> {"empty", "deleted", "live"}]
      /\ h.items \in [0 .. (h.n - 1) -> Items \cup {K!NoItem}]
      /\ h = [n |-> h.n, size |-> h.size, occupied |-> h.occupied, limit |-> h.limit,
              flags |-> h.flags, items |-> h.items]
      /\ L \in SUBSET (0 .. (h.n - 1))
  BY <1>1, KHashParts
<1>4. CASE i = h.n
  <2>1. g = h
    BY <1>4 DEF K!Deleted
  <2>2. \A y \in Z : y.key \in {k} <=> y \notin Z
    BY <1>2, <1>4
  <2> HIDE DEF Z, g, i
  <2>3. Denotes(Z, e)
    BY <1>1, <2>2, DenotesErase
  <2> QED BY <1>1, <2>1, <2>3 DEF KInv, Stored, Z, g, i
<1>5. CASE i # h.n
  <2> DEFINE W == {X[j] : j \in L \ {i}}
  <2>1. i \in L /\ X[i].key = k /\ i \in 0 .. (h.n - 1) /\ h.flags[i] = "live"
    BY <1>2, <1>3, <1>5 DEF K!Live
  <2>2. g = [n |-> h.n, size |-> h.size - 1, occupied |-> h.occupied, limit |-> h.limit,
             flags |-> flags, items |-> items]
    <3>1. g = [h EXCEPT !.flags[i] = "deleted", !.items[i] = K!NoItem, !.size = @ - 1]
      BY <1>5, <2>1 DEF K!Deleted
    <3> HIDE DEF g, i
    <3> QED BY <1>3, <3>1
  <2> HIDE DEF g, i
  <2>3. h.size = Cardinality(L) /\ h.size \in Nat \ {0} /\ Cardinality(L \ {i}) = h.size - 1
    <3>1. IsFiniteSet(L)
      BY <1>3, FiniteBuckets
    <3> QED BY <1>1, <2>1, <3>1, OneLess DEF KCounts
  <2>4. KType(g)
    <3>1. flags \in [0 .. (h.n - 1) -> {"empty", "deleted", "live"}]
      BY <1>3
    <3>2. items \in [0 .. (h.n - 1) -> Items \cup {K!NoItem}]
      BY <1>3
    <3> HIDE DEF flags, items
    <3> QED BY <1>1, <1>3, <2>2, <2>3, <3>1, <3>2 DEF KType
  <2>5. K!Live(g) = L \ {i}
    BY <1>3, <2>1, <2>2 DEF K!Live
  <2>6. Nonempty(g.n, g.flags) = Nonempty(h.n, h.flags)
    BY <1>3, <2>1, <2>2 DEF Nonempty
  <2>7. KCounts(g)
    <3> HIDE DEF L
    <3> QED BY <1>1, <2>2, <2>3, <2>5, <2>6 DEF KCounts
  <2>8. Sound(g.n, g.flags, K!Live(g), g.items)
    <3>1. Power(h.n)
      BY <1>1, <1>3, <2>1 DEF KType
    <3>2. \A j \in 0 .. (h.n - 1) : h.flags[j] # "empty" => flags[j] # "empty"
      BY <1>3
    <3>3. \A j \in L \ {i} : items[j] = X[j]
      BY <1>3
    <3>4. L \ {i} \in SUBSET L /\ L \ {i} \subseteq 0 .. (h.n - 1)
      BY <1>3
    <3> HIDE DEF flags, items, L, X
    <3>5. Sound(h.n, flags, L \ {i}, items)
      BY <1>1, <3>1, <3>2, <3>3, <3>4, LessSound
    <3> QED BY <2>2, <2>5, <3>5
  <2>9. Denotes(Stored(K!Live(g), g.items), e)
    <3>1. \A y \in Z : y.key \in {k} <=> y \notin W
      <4> SUFFICES ASSUME NEW j \in L PROVE X[j].key = k <=> X[j] \notin W
        OBVIOUS
      <4>1. CASE j = i
        <5>1. ASSUME X[j] \in W PROVE FALSE
          <6>1. PICK l \in L \ {i} : X[j] = X[l]
            BY <5>1
          <6> QED BY <1>2, <2>1, <4>1, <6>1
        <5> QED BY <2>1, <4>1, <5>1
      <4>2. CASE j # i
        BY <1>2, <4>2
      <4> QED BY <4>1, <4>2
    <3>2. {items[j] : j \in L \ {i}} = W
      <4>1. \A j \in L \ {i} : items[j] = X[j]
        BY <1>3
      <4> HIDE DEF items
      <4> QED BY <4>1
    <3>3. W \in SUBSET Z
      OBVIOUS
    <3> HIDE DEF W, Z
    <3>4. Denotes(W, e)
      BY <1>1, <3>1, <3>3, DenotesErase
    <3> QED BY <2>2, <2>5, <3>2, <3>4 DEF Stored
  <2> QED BY <2>4, <2>7, <2>8, <2>9 DEF KInv, g, i
<1> QED BY <1>4, <1>5

-----------------------------------------------------------------------------
(***************************************************************************)
(* kh_resize: a rehash moves every element to the fresh buckets, whatever  *)
(* it kicks out on the way.                                                *)
(***************************************************************************)
Old(h, r)   == {i \in 0 .. (h.n - 1) : r.old[i] = "live"}
Fresh(n, r) == {i \in 0 .. (n - 1) : r.fresh[i] = "live"}
Out(r)      == IF r.out = << >> THEN {} ELSE {r.out[1]}

RType(h, n, r) ==
  r \in [old   : [0 .. (h.n - 1) -> {"empty", "deleted", "live"}],
         fresh : [0 .. (n - 1) -> {"empty", "live"}],
         items : [0 .. (IF n < h.n THEN h.n - 1 ELSE n - 1) -> Items \cup {K!NoItem}],
         out   : {<< >>} \cup {<<x>> : x \in Items}]

\* Each element of the old table is in an old bucket, in a fresh one or out.
RInv(h, n, r) ==
  LET all == Old(h, r) \cup Fresh(n, r)
  IN  /\ RType(h, n, r)
      /\ Old(h, r) \cap Fresh(n, r) = {}
      /\ Stored(all, r.items) \cup Out(r) = Stored(K!Live(h), h.items)
      /\ \A i, j \in all : r.items[i].key = r.items[j].key => i = j
      /\ \A x \in Out(r), i \in all : r.items[i].key # x.key
      /\ Cardinality(all) + Cardinality(Out(r)) = h.size
      /\ Sound(n, r.fresh, Fresh(n, r), r.items)

LEMMA FirstFreeFacts ==
  ASSUME NEW n, Power(n), NEW fresh, NEW k \in Keys, NEW e \in 0 .. (n - 1), fresh[e] = "empty"
  PROVE  LET i == K!FirstFree(n, fresh, k)
         IN  i \in 0 .. (n - 1) /\ fresh[i] = "empty" /\ Reached(n, fresh, i, Hash[k])
<1> DEFINE T == {s \in 0 .. (2 * n) : fresh[K!Probe(n, k, s)] = "empty"}
<1>1. n \in Nat \ {0} /\ Hash[k] \in Nat
  BY PowerType, HashType
<1>2. PICK s \in 0 .. (n - 1) : Hit(n, fresh, {}, fresh, k, s)
  BY HitExists
<1>3. fresh[Bucket(n, Hash[k], s)] = "empty"
  BY <1>2 DEF Hit, Stops
<1>4. \A r \in 0 .. (s - 1) : fresh[Bucket(n, Hash[k], r)] # "empty"
  BY <1>2 DEF Hit, Stops
<1>5. s \in T /\ T \in SUBSET Nat
  BY <1>1, <1>3, InstanceProbes
<1>6. ASSUME NEW r \in T PROVE s <= r
  <2> SUFFICES ASSUME r < s PROVE FALSE
    BY <1>1
  <2>1. r \in 0 .. (s - 1)
    BY <1>1
  <2> QED BY <1>4, <2>1, InstanceProbes
<1>7. K!FirstFree(n, fresh, k) = K!Probe(n, k, Min(T))
  BY InstanceMin DEF K!FirstFree
<1> HIDE DEF T
<1>8. K!FirstFree(n, fresh, k) = Bucket(n, Hash[k], s)
  BY <1>5, <1>6, <1>7, MinIs, InstanceProbes
<1>9. Bucket(n, Hash[k], s) \in 0 .. (n - 1)
  <2>1. s \in Nat
    BY <1>1
  <2> QED BY <1>1, <2>1, BucketType
<1>10. Reached(n, fresh, Bucket(n, Hash[k], s), Hash[k])
  BY <1>4 DEF Reached
<1> QED BY <1>3, <1>8, <1>9, <1>10

LEMMA RehashParts ==
  ASSUME NEW h, KType(h), NEW n, Power(n), NEW r, RType(h, n, r)
  PROVE  /\ r.old \in [0 .. (h.n - 1) -> {"empty", "deleted", "live"}]
         /\ r.fresh \in [0 .. (n - 1) -> {"empty", "live"}]
         /\ r.items \in [0 .. (IF n < h.n THEN h.n - 1 ELSE n - 1) -> Items \cup {K!NoItem}]
         /\ r = [old |-> r.old, fresh |-> r.fresh, items |-> r.items, out |-> r.out]
         /\ r.out # << >> => r.out[1] \in Items /\ r.out = <<r.out[1]>>
         /\ Old(h, r) \in SUBSET (0 .. (h.n - 1)) /\ Fresh(n, r) \in SUBSET (0 .. (n - 1))
         /\ h.n \in Nat /\ n \in Nat \ {0}
         /\ IsFiniteSet(Old(h, r)) /\ IsFiniteSet(Fresh(n, r))
         /\ IsFiniteSet(Old(h, r) \cup Fresh(n, r))
         /\ Old(h, r) \cup Fresh(n, r) \in SUBSET DOMAIN r.items
         /\ \A i \in 0 .. (h.n - 1) : i \in DOMAIN r.items
         /\ \A i \in 0 .. (n - 1) : i \in DOMAIN r.items
<1>1. h.n \in Nat /\ n \in Nat \ {0}
  BY KHashParts, PowerType
<1>2. /\ r.old \in [0 .. (h.n - 1) -> {"empty", "deleted", "live"}]
      /\ r.fresh \in [0 .. (n - 1) -> {"empty", "live"}]
      /\ r.items \in [0 .. (IF n < h.n THEN h.n - 1 ELSE n - 1) -> Items \cup {K!NoItem}]
      /\ r = [old |-> r.old, fresh |-> r.fresh, items |-> r.items, out |-> r.out]
  BY DEF RType
<1>3. r.out \in {<< >>} \cup {<<x>> : x \in Items}
  BY DEF RType
<1>4. r.out # << >> => r.out[1] \in Items /\ r.out = <<r.out[1]>>
  BY <1>3
<1>5. Old(h, r) \in SUBSET (0 .. (h.n - 1)) /\ Fresh(n, r) \in SUBSET (0 .. (n - 1))
  BY DEF Old, Fresh
<1>6. IsFiniteSet(Old(h, r)) /\ IsFiniteSet(Fresh(n, r))
  BY <1>1, <1>5, FiniteBuckets
<1>7. IsFiniteSet(Old(h, r) \cup Fresh(n, r))
  BY <1>6, FS_Union
<1>8. /\ \A i \in 0 .. (h.n - 1) : i \in DOMAIN r.items
      /\ \A i \in 0 .. (n - 1) : i \in DOMAIN r.items
  BY <1>1, <1>2
<1>9. Old(h, r) \cup Fresh(n, r) \in SUBSET DOMAIN r.items
  BY <1>5, <1>8
<1> QED BY <1>1, <1>2, <1>4, <1>5, <1>6, <1>7, <1>8, <1>9

\* A rehash to n buckets, which have room for the elements.
Room(h, n) == /\ KType(h) /\ Power(n) /\ h.size < n
              /\ Stored(K!Live(h), h.items) \subseteq Items

\* One turn of the kick-out loop.
LEMMA KickOutFacts ==
  ASSUME NEW h, NEW n, Room(h, n), NEW r, RInv(h, n, r)
  PROVE  LET g == K!KickOut(n, r)
         IN  /\ RInv(h, n, g) /\ Old(h, g) \subseteq Old(h, r)
             /\ g.out # << >> => Cardinality(Old(h, g)) = Cardinality(Old(h, r)) - 1
<1> DEFINE g == K!KickOut(n, r)
           O == Old(h, r)
           F == Fresh(n, r)
           all == O \cup F
<1>1. KType(h) /\ Power(n) /\ h.size < n /\ Stored(K!Live(h), h.items) \subseteq Items
  BY DEF Room
<1>2. /\ RType(h, n, r) /\ O \cap F = {}
      /\ Stored(all, r.items) \cup Out(r) = Stored(K!Live(h), h.items)
      /\ \A i, j \in all : r.items[i].key = r.items[j].key => i = j
      /\ \A x \in Out(r), i \in all : r.items[i].key # x.key
      /\ Cardinality(all) + Cardinality(Out(r)) = h.size
      /\ Sound(n, r.fresh, F, r.items)
  BY DEF RInv
<1>3. /\ r.old \in [0 .. (h.n - 1) -> {"empty", "deleted", "live"}]
      /\ r.fresh \in [0 .. (n - 1) -> {"empty", "live"}]
      /\ r.items \in [0 .. (IF n < h.n THEN h.n - 1 ELSE n - 1) -> Items \cup {K!NoItem}]
      /\ r = [old |-> r.old, fresh |-> r.fresh, items |-> r.items, out |-> r.out]
      /\ r.out # << >> => r.out[1] \in Items /\ r.out = <<r.out[1]>>
      /\ O \in SUBSET (0 .. (h.n - 1)) /\ F \in SUBSET (0 .. (n - 1))
      /\ h.n \in Nat /\ n \in Nat \ {0}
      /\ IsFiniteSet(O) /\ IsFiniteSet(F) /\ IsFiniteSet(all)
      /\ all \in SUBSET DOMAIN r.items
      /\ \A i \in 0 .. (h.n - 1) : i \in DOMAIN r.items
      /\ \A i \in 0 .. (n - 1) : i \in DOMAIN r.items
  BY <1>1, <1>2, RehashParts
<1>4. CASE r.out = << >>
  <2>1. g = r
    BY <1>4 DEF K!KickOut
  <2> QED BY <1>4, <2>1
<1>5. CASE r.out # << >>
  <2> DEFINE item == r.out[1]
             i == K!FirstFree(n, r.fresh, item.key)
             out == K!Displaced(r, i)
             old == IF out THEN [r.old EXCEPT ![i] = "deleted"] ELSE r.old
             fresh == [r.fresh EXCEPT ![i] = "live"]
             items == [r.items EXCEPT ![i] = item]
  <2>1. item \in Items /\ item.key \in Keys /\ item.val \in Values /\ Out(r) = {item}
    BY <1>3, <1>5 DEF Items, Out
  <2>2. \E e \in 0 .. (n - 1) : r.fresh[e] = "empty"
    <3>1. Cardinality(F) <= Cardinality(all) /\ Cardinality(F) \in Nat /\ Cardinality(all) \in Nat
      BY <1>3, FS_Subset, FS_CardinalityType
    <3>2. Cardinality(Out(r)) = 1
      BY <2>1, FS_Singleton
    <3>3. h.size \in Nat
      BY <1>1, KHashParts
    <3> HIDE DEF F, all
    <3>4. Cardinality(F) < n
      BY <1>1, <1>2, <1>3, <3>1, <3>2, <3>3
    <3>5. PICK e \in 0 .. (n - 1) : e \notin F
      BY <1>3, <3>4, FiniteBuckets
    <3> QED BY <1>3, <3>5 DEF F, Fresh
  <2>3. i \in 0 .. (n - 1) /\ r.fresh[i] = "empty" /\ Reached(n, r.fresh, i, Hash[item.key])
    BY <1>1, <2>1, <2>2, FirstFreeFacts
  <2>4. g = [old |-> old, fresh |-> fresh, items |-> items,
             out |-> IF out THEN <<r.items[i]>> ELSE << >>]
    BY <1>5 DEF K!KickOut
  <2> HIDE DEF item, i, g
  <2>5. i \notin F /\ (out <=> i \in O)
    BY <1>3, <2>3 DEF Fresh, Old, K!Displaced
  <2>6. i \in DOMAIN r.items
    BY <1>3, <2>3
  <2>7. F \cup {i} = Fresh(n, g) /\ O \ {i} = Old(h, g)
    <3>1. F \cup {i} = {j \in 0 .. (n - 1) : fresh[j] = "live"}
      BY <1>3, <2>3 DEF Fresh
    <3>2. O \ {i} = {j \in 0 .. (h.n - 1) : old[j] = "live"}
      BY <1>3, <2>5 DEF Old
    <3> QED BY <2>4, <3>1, <3>2 DEF Fresh, Old
  <2>8. out => r.items[i] \in Items
    <3>1. out => r.items[i] \in Stored(all, r.items)
      BY <2>5 DEF Stored
    <3> QED BY <1>1, <1>2, <3>1
  <2>9. RType(h, n, g)
    <3>1. old \in [0 .. (h.n - 1) -> {"empty", "deleted", "live"}]
      BY <1>3
    <3>2. fresh \in [0 .. (n - 1) -> {"empty", "live"}]
      BY <1>3
    <3>3. items \in [0 .. (IF n < h.n THEN h.n - 1 ELSE n - 1) -> Items \cup {K!NoItem}]
      BY <1>3, <2>1
    <3>4. (IF out THEN <<r.items[i]>> ELSE << >>) \in {<< >>} \cup {<<x>> : x \in Items}
      BY <2>8
    <3> HIDE DEF old, fresh, items, out
    <3> QED BY <2>4, <3>1, <3>2, <3>3, <3>4 DEF RType
  <2>10. items[i] = item /\ \A j \in all : j # i => items[j] = r.items[j]
    BY <1>3, <2>6
  <2>11. \A j \in all : r.items[j].key # item.key
    BY <1>2, <2>1
  <2>12. Sound(n, fresh, F \cup {i}, items)
    <3>1. \A j \in 0 .. (n - 1) : r.fresh[j] # "empty" => fresh[j] # "empty"
      BY <1>3
    <3>2. fresh[i] # "empty"
      BY <1>3, <2>3
    <3> HIDE DEF fresh, items
    <3>3. \A j \in F : j # i => items[j] = r.items[j] /\ r.items[j].key # items[i].key
      BY <2>10, <2>11
    <3>4. PutFits(n, r.fresh, F, r.items, i, fresh, items)
      BY <2>1, <2>3, <2>10, <3>1, <3>2, <3>3 DEF PutFits
    <3> QED BY <1>1, <1>2, <1>3, <2>3, <3>4, PutSound
  <2>13. g.items = items /\ g.fresh = fresh /\ g.out = (IF out THEN <<r.items[i]>> ELSE << >>)
    BY <2>4
  <2> HIDE DEF items, fresh, old
  <2>14. Sound(n, g.fresh, Fresh(n, g), g.items)
    BY <2>7, <2>12, <2>13
  <2>15. Old(h, g) \cap Fresh(n, g) = {}
    BY <1>2, <2>7
  <2>16. Out(g) = (IF out THEN {r.items[i]} ELSE {})
    <3>1. CASE out
      <4>1. g.out = <<r.items[i]>>
        BY <2>13, <3>1
      <4>2. g.out # << >> /\ g.out[1] = r.items[i]
        BY <4>1
      <4> QED BY <3>1, <4>2 DEF Out
    <3>2. CASE ~out
      BY <2>13, <3>2 DEF Out
    <3> QED BY <3>1, <3>2
  <2>17. CASE out
    <3>1. Old(h, g) \cup Fresh(n, g) = all
      BY <2>5, <2>7, <2>17
    <3>2. Stored(all, g.items) \cup Out(g) = Stored(all, r.items) \cup {item}
      <4>1. i \in all
        BY <2>5, <2>17
      <4> HIDE DEF all
      <4>2. Stored(all, items) = {r.items[j] : j \in all \ {i}} \cup {item}
        BY <2>10, <4>1 DEF Stored
      <4>3. Stored(all, r.items) = {r.items[j] : j \in all \ {i}} \cup {r.items[i]}
        BY <4>1 DEF Stored
      <4> QED BY <2>13, <2>16, <2>17, <4>2, <4>3
    <3>3. \A j, l \in all : g.items[j].key = g.items[l].key => j = l
      BY <1>2, <2>10, <2>11, <2>13
    <3>4. \A x \in Out(g), j \in all : g.items[j].key # x.key
      BY <1>2, <2>5, <2>10, <2>11, <2>13, <2>16, <2>17
    <3>5. Cardinality(Out(g)) = Cardinality(Out(r))
      BY <2>1, <2>16, <2>17, FS_Singleton
    <3>6. RInv(h, n, g)
      <4> HIDE DEF all, O, F, out
      <4> QED BY <1>2, <2>1, <2>9, <2>14, <2>15, <3>1, <3>2, <3>3, <3>4, <3>5 DEF RInv
    <3>7. Cardinality(Old(h, g)) = Cardinality(O) - 1
      BY <1>3, <2>5, <2>7, <2>17, OneLess
    <3> QED BY <2>7, <3>6, <3>7 DEF g
  <2>18. CASE ~out
    <3>1. Old(h, g) \cup Fresh(n, g) = all \cup {i} /\ i \notin all /\ Out(g) = {}
      BY <2>5, <2>7, <2>16, <2>18
    <3>2. Stored(all \cup {i}, g.items) \cup Out(g) = Stored(all, r.items) \cup {item}
      <4> HIDE DEF all
      <4> QED BY <2>10, <2>13, <3>1 DEF Stored
    <3>3. \A j, l \in all \cup {i} : g.items[j].key = g.items[l].key => j = l
      BY <1>2, <2>10, <2>11, <2>13
    <3>4. \A x \in Out(g), j \in all \cup {i} : g.items[j].key # x.key
      BY <3>1
    <3>5. Cardinality(all \cup {i}) + Cardinality(Out(g)) = Cardinality(all) + Cardinality(Out(r))
      <4>1. Cardinality(all \cup {i}) = Cardinality(all) + 1 /\ Cardinality(all) \in Nat
        BY <1>3, <3>1, OneMore
      <4>2. Cardinality(Out(g)) = 0 /\ Cardinality(Out(r)) = 1
        BY <2>1, <3>1, FS_EmptySet, FS_Singleton
      <4> QED BY <4>1, <4>2
    <3>6. RInv(h, n, g)
      <4> HIDE DEF all, O, F, out
      <4> QED BY <1>2, <2>1, <2>9, <2>14, <2>15, <3>1, <3>2, <3>3, <3>4, <3>5 DEF RInv
    <3>7. g.out = << >>
      BY <2>13, <2>18
    <3> QED BY <2>7, <3>6, <3>7 DEF g
  <2> QED BY <2>17, <2>18
<1> QED BY <1>4, <1>5

\* A loop of m turns over the members of D has a value after each of them.
Turns(m, start, G, f) ==
  \A j \in 0 .. m : f[j] = IF j = 0 THEN start ELSE G[<<f[j - 1], j>>]

LEMMA TurnsExist ==
  ASSUME NEW m \in Nat, NEW D, NEW start \in D, NEW G \in [D \X (1 .. m) -> D]
  PROVE  \E f \in [0 .. m -> D] : Turns(m, start, G, f)
<1> DEFINE Runs(l, f) == Turns(l, start, G, f)
           Counts == {l \in Nat : l <= m => \E f \in [0 .. l -> D] : Runs(l, f)}
<1>1. 0 \in Counts
  <2> DEFINE f == [j \in 0 .. 0 |-> start]
  <2>1. f \in [0 .. 0 -> D] /\ Runs(0, f)
    BY DEF Turns
  <2> HIDE DEF f, Runs
  <2> QED BY <2>1
<1>2. ASSUME NEW l \in Nat, l \in Counts PROVE l + 1 \in Counts
  <2> SUFFICES ASSUME l + 1 <= m PROVE \E f \in [0 .. (l + 1) -> D] : Runs(l + 1, f)
    OBVIOUS
  <2>1. l <= m /\ l + 1 \in 1 .. m
    OBVIOUS
  <2>2. PICK f \in [0 .. l -> D] : Runs(l, f)
    BY <1>2, <2>1
  <2> DEFINE next == G[<<f[l], l + 1>>]
             g == [j \in 0 .. (l + 1) |-> IF j = l + 1 THEN next ELSE f[j]]
  <2>3. next \in D
    BY <2>1
  <2> HIDE DEF next
  <2>4. g \in [0 .. (l + 1) -> D]
    BY <2>3
  <2>5. ASSUME NEW j \in 0 .. (l + 1)
        PROVE  g[j] = IF j = 0 THEN start ELSE G[<<g[j - 1], j>>]
    <3>1. CASE j = l + 1
      <4>1. g[j] = next /\ j # 0 /\ j - 1 = l /\ g[l] = f[l]
        BY <3>1
      <4> HIDE DEF g
      <4> QED BY <3>1, <4>1 DEF next
    <3>2. CASE j # l + 1
      <4>1. j \in 0 .. l /\ g[j] = f[j] /\ (j # 0 => g[j - 1] = f[j - 1])
        BY <3>2
      <4> HIDE DEF g
      <4> QED BY <2>2, <4>1 DEF Turns
    <3> QED BY <3>1, <3>2
  <2> HIDE DEF g
  <2>6. Runs(l + 1, g)
    BY <2>5 DEF Turns
  <2> QED BY <2>4, <2>6
<1>3. \A l \in Nat : l \in Counts
  <2> HIDE DEF Counts
  <2> QED BY <1>1, <1>2, SimpleInduction
<1> HIDE DEF Runs
<1>4. \E f \in [0 .. m -> D] : Runs(m, f)
  BY <1>3
<1> QED BY <1>4 DEF Runs, Turns

\* When the loop is over nothing is out of the table.
LEMMA PutBackFacts ==
  ASSUME NEW h, NEW n, Room(h, n), NEW r, RInv(h, n, r),
         NEW m \in Nat, Cardinality(Old(h, r)) < m
  PROVE  LET g == K!PutBack(n, m, r)
         IN  RInv(h, n, g) /\ Old(h, g) \subseteq Old(h, r) /\ g.out = << >>
<1> DEFINE Set == [old   : [0 .. (h.n - 1) -> {"empty", "deleted", "live"}],
                   fresh : [0 .. (n - 1) -> {"empty", "live"}],
                   items : [0 .. (IF n < h.n THEN h.n - 1 ELSE n - 1) -> Items \cup {K!NoItem}],
                   out   : {<< >>} \cup {<<x>> : x \in Items}]
           D == {q \in Set : RInv(h, n, q)}
           Body(f, t) == IF t = 0 THEN r ELSE K!KickOut(n, f[t - 1])
           Turn == CHOOSE f : f = [t \in 0 .. m |-> Body(f, t)]
<1>1. \A q : RInv(h, n, q) => q \in D
  BY DEF RInv, RType
<1>2. K!PutBack(n, m, r) = Turn[m]
  BY DEF K!PutBack
<1> HIDE DEF Set
<1>3. \E f : f = [t \in 0 .. m |-> Body(f, t)]
  <2> DEFINE G == [p \in D \X (1 .. m) |-> K!KickOut(n, p[1])]
  <2>1. \A q \in D : K!KickOut(n, q) \in D
    BY <1>1, KickOutFacts
  <2>2. G \in [D \X (1 .. m) -> D] /\ r \in D
    BY <1>1, <2>1
  <2>3. \A q \in D, j \in 1 .. m : G[<<q, j>>] = K!KickOut(n, q)
    OBVIOUS
  <2> HIDE DEF G, D
  <2>4. PICK f \in [0 .. m -> D] :
          Turns(m, r, G, f)
    BY <2>2, TurnsExist
  <2>5. ASSUME NEW j \in 0 .. m PROVE f[j] = Body(f, j)
    <3>1. CASE j = 0
      BY <2>4, <3>1 DEF Turns
    <3>2. CASE j # 0
      <4>1. j - 1 \in 0 .. m /\ j \in 1 .. m
        BY <3>2
      <4>2. f[j - 1] \in D
        BY <4>1
      <4> QED BY <2>3, <2>4, <3>2, <4>1, <4>2 DEF Turns
    <3> QED BY <3>1, <3>2
  <2> HIDE DEF Body
  <2>6. f = [j \in 0 .. m |-> Body(f, j)]
    BY <2>5
  <2> QED BY <2>6
<1>4. ASSUME NEW t \in 0 .. m PROVE Turn[t] = Body(Turn, t)
  <2> HIDE DEF Body
  <2>1. Turn = [j \in 0 .. m |-> Body(Turn, j)]
    BY <1>3
  <2> HIDE DEF Turn
  <2> QED BY <2>1
<1> HIDE DEF Turn
<1> DEFINE Good(q, t) == /\ RInv(h, n, q) /\ Old(h, q) \subseteq Old(h, r)
                         /\ q.out = << >> \/ Cardinality(Old(h, q)) + t <= Cardinality(Old(h, r))
           Counts == {t \in Nat : t <= m => Good(Turn[t], t)}
<1>5. Cardinality(Old(h, r)) \in Nat
  BY RehashParts, FS_CardinalityType DEF RInv, Room
<1>6. 0 \in Counts
  <2>1. Turn[0] = r
    BY <1>4
  <2> QED BY <1>5, <2>1
<1>7. ASSUME NEW t \in Nat, t \in Counts PROVE t + 1 \in Counts
  <2> SUFFICES ASSUME t + 1 <= m PROVE Good(Turn[t + 1], t + 1)
    OBVIOUS
  <2>1. t + 1 \in 0 .. m /\ t + 1 # 0 /\ (t + 1) - 1 = t /\ t <= m
    OBVIOUS
  <2> DEFINE q == Turn[t]
             g == K!KickOut(n, q)
  <2>2. Turn[t + 1] = g
    BY <1>4, <2>1
  <2>3. Good(q, t)
    BY <1>7, <2>1
  <2> HIDE DEF q
  <2>4. /\ RInv(h, n, g) /\ Old(h, g) \subseteq Old(h, q)
        /\ g.out # << >> => Cardinality(Old(h, g)) = Cardinality(Old(h, q)) - 1
    BY <2>3, KickOutFacts
  <2>5. q.out = << >> => g.out = << >>
    BY DEF K!KickOut
  <2>6. Cardinality(Old(h, q)) \in Nat /\ Cardinality(Old(h, g)) \in Nat
    <3> HIDE DEF g
    <3> QED BY <2>3, <2>4, RehashParts, FS_CardinalityType DEF RInv, Room
  <2> HIDE DEF g
  <2>7. g.out = << >> \/ Cardinality(Old(h, g)) + (t + 1) <= Cardinality(Old(h, r))
    BY <1>5, <2>3, <2>4, <2>5, <2>6
  <2>8. Good(g, t + 1)
    BY <2>3, <2>4, <2>7
  <2> QED BY <2>2, <2>8
<1>8. Good(Turn[m], m)
  <2> HIDE DEF Counts, Good
  <2>1. \A t \in Nat : t \in Counts
    BY <1>6, <1>7, SimpleInduction
  <2> QED BY <2>1 DEF Counts
<1> DEFINE g == Turn[m]
<1>9. Good(g, m)
  BY <1>8
<1> HIDE DEF g
<1>10. Cardinality(Old(h, g)) \in Nat
  BY <1>9, RehashParts, FS_CardinalityType DEF RInv, Room
<1>11. g.out = << >>
  BY <1>5, <1>9, <1>10
<1> QED BY <1>2, <1>9, <1>11 DEF g

LEMMA TakenOutFacts ==
  ASSUME NEW h, NEW n, Room(h, n), NEW r, RInv(h, n, r), r.out = << >>, NEW j \in Old(h, r)
  PROVE  LET g == K!TakenOut(r, j)
         IN  RInv(h, n, g) /\ Old(h, g) = Old(h, r) \ {j}
<1> DEFINE g == K!TakenOut(r, j)
           O == Old(h, r)
           F == Fresh(n, r)
           all == O \cup F
           old == [r.old EXCEPT ![j] = "deleted"]
           item == r.items[j]
<1>1. KType(h) /\ Power(n) /\ Stored(K!Live(h), h.items) \subseteq Items
  BY DEF Room
<1>2. /\ RType(h, n, r) /\ O \cap F = {}
      /\ Stored(all, r.items) \cup Out(r) = Stored(K!Live(h), h.items)
      /\ \A i, l \in all : r.items[i].key = r.items[l].key => i = l
      /\ Cardinality(all) + Cardinality(Out(r)) = h.size
      /\ Sound(n, r.fresh, F, r.items)
  BY DEF RInv
<1>3. /\ r.old \in [0 .. (h.n - 1) -> {"empty", "deleted", "live"}]
      /\ r.fresh \in [0 .. (n - 1) -> {"empty", "live"}]
      /\ r.items \in [0 .. (IF n < h.n THEN h.n - 1 ELSE n - 1) -> Items \cup {K!NoItem}]
      /\ r = [old |-> r.old, fresh |-> r.fresh, items |-> r.items, out |-> r.out]
      /\ O \in SUBSET (0 .. (h.n - 1)) /\ IsFiniteSet(all)
  BY <1>1, <1>2, RehashParts
<1>4. g = [old |-> old, fresh |-> r.fresh, items |-> r.items, out |-> <<item>>]
  <2>1. g = [r EXCEPT !.old[j] = "deleted", !.out = <<r.items[j]>>]
    BY DEF K!TakenOut
  <2> HIDE DEF g
  <2> QED BY <1>3, <2>1
<1> HIDE DEF g
<1>5. Out(r) = {}
  BY DEF Out
<1>6. j \in all /\ item \in Stored(all, r.items)
  BY DEF Stored
<1>7. item \in Items
  BY <1>1, <1>2, <1>6
<1>8. RType(h, n, g)
  <2>1. old \in [0 .. (h.n - 1) -> {"empty", "deleted", "live"}]
    BY <1>3
  <2>2. <<item>> \in {<< >>} \cup {<<x>> : x \in Items}
    BY <1>7
  <2> HIDE DEF old, item
  <2> QED BY <1>3, <1>4, <2>1, <2>2 DEF RType
<1>9. Old(h, g) = O \ {j} /\ Fresh(n, g) = F
  <2>1. O \ {j} = {i \in 0 .. (h.n - 1) : old[i] = "live"}
    BY <1>3 DEF Old
  <2> QED BY <1>4, <2>1 DEF Old, Fresh
<1>10. g.out = <<item>> /\ g.items = r.items /\ g.fresh = r.fresh
  BY <1>4
<1>11. Out(g) = {item}
  <2>1. g.out # << >> /\ g.out[1] = item
    BY <1>10
  <2> QED BY <2>1 DEF Out
<1>12. Old(h, g) \cup Fresh(n, g) = all \ {j} /\ Old(h, g) \cap Fresh(n, g) = {}
  BY <1>2, <1>9
<1>13. Stored(all \ {j}, r.items) \cup {item} = Stored(all, r.items)
  <2> HIDE DEF all
  <2> QED BY <1>6 DEF Stored
<1>14. \A i \in all \ {j} : r.items[i].key # item.key
  BY <1>2
<1>15. Cardinality(all \ {j}) + Cardinality({item}) = h.size
  <2>1. Cardinality(all) \in Nat /\ Cardinality(all \ {j}) = Cardinality(all) - 1
    BY <1>3, <1>6, OneLess
  <2>2. Cardinality({item}) = 1 /\ Cardinality(Out(r)) = 0
    BY <1>5, FS_Singleton, FS_EmptySet
  <2> QED BY <1>2, <2>1, <2>2
<1>16. RInv(h, n, g)
  <2> HIDE DEF all, O, F, item
  <2>1. Stored(all \ {j}, g.items) \cup Out(g) = Stored(K!Live(h), h.items)
    BY <1>2, <1>5, <1>10, <1>11, <1>13
  <2>2. \A i, l \in all \ {j} : g.items[i].key = g.items[l].key => i = l
    BY <1>2, <1>10
  <2>3. \A x \in Out(g), i \in all \ {j} : g.items[i].key # x.key
    BY <1>10, <1>11, <1>14
  <2>4. Cardinality(all \ {j}) + Cardinality(Out(g)) = h.size
    BY <1>11, <1>15
  <2>5. Sound(n, g.fresh, Fresh(n, g), g.items)
    BY <1>2, <1>9, <1>10
  <2> QED BY <1>8, <1>12, <2>1, <2>2, <2>3, <2>4, <2>5 DEF RInv
<1> QED BY <1>9, <1>16 DEF g

LEMMA RehashFacts ==
  ASSUME NEW h, NEW n, Room(h, n), NEW r, RInv(h, n, r), r.out = << >>,
         NEW j \in 0 .. (h.n - 1)
  PROVE  LET g == K!Rehash(n, h.n, r, j)
         IN  RInv(h, n, g) /\ g.out = << >> /\ Old(h, g) \subseteq Old(h, r) \ {j}
<1> DEFINE g == K!Rehash(n, h.n, r, j)
           q == K!TakenOut(r, j)
<1>1. KType(h) /\ Power(n) /\ RType(h, n, r)
  BY DEF Room, RInv
<1>2. /\ r.old \in [0 .. (h.n - 1) -> {"empty", "deleted", "live"}]
      /\ h.n \in Nat /\ Old(h, r) \in SUBSET (0 .. (h.n - 1)) /\ IsFiniteSet(Old(h, r))
  BY <1>1, RehashParts
<1>3. K!Displaced(r, j) <=> j \in Old(h, r)
  BY <1>2 DEF K!Displaced, Old
<1>4. CASE j \notin Old(h, r)
  <2>1. g = r
    BY <1>3, <1>4 DEF K!Rehash
  <2> QED BY <1>4, <2>1
<1>5. CASE j \in Old(h, r)
  <2>1. g = K!PutBack(n, h.n, q)
    BY <1>3, <1>5 DEF K!Rehash
  <2>2. RInv(h, n, q) /\ Old(h, q) = Old(h, r) \ {j}
    BY <1>5, TakenOutFacts
  <2> HIDE DEF q
  <2>3. Cardinality(Old(h, q)) < h.n
    <3>1. Cardinality(Old(h, r)) <= h.n
      BY <1>2, FiniteBuckets
    <3>2. Cardinality(Old(h, r)) \in Nat \ {0} /\ Cardinality(Old(h, q)) = Cardinality(Old(h, r)) - 1
      BY <1>2, <1>5, <2>2, OneLess
    <3> QED BY <1>2, <3>1, <3>2
  <2>4. RInv(h, n, g) /\ Old(h, g) \subseteq Old(h, q) /\ g.out = << >>
    <3> DEFINE p == K!PutBack(n, h.n, q)
    <3>1. RInv(h, n, p) /\ Old(h, p) \subseteq Old(h, q) /\ p.out = << >>
      BY <1>2, <2>2, <2>3, PutBackFacts
    <3> HIDE DEF p, g
    <3> QED BY <2>1, <3>1 DEF p
  <2> QED BY <2>2, <2>4
<1> QED BY <1>4, <1>5

LEMMA RehashedFacts ==
  ASSUME NEW h, NEW n, Room(h, n), NEW start, RInv(h, n, start), start.out = << >>
  PROVE  LET g == K!Rehashed(n, h.n, start)
         IN  RInv(h, n, g) /\ g.out = << >> /\ Old(h, g) = {}
<1> DEFINE m == h.n
           Set == [old   : [0 .. (h.n - 1) -> {"empty", "deleted", "live"}],
                   fresh : [0 .. (n - 1) -> {"empty", "live"}],
                   items : [0 .. (IF n < h.n THEN h.n - 1 ELSE n - 1) -> Items \cup {K!NoItem}],
                   out   : {<< >>} \cup {<<x>> : x \in Items}]
           D == {q \in Set : RInv(h, n, q) /\ q.out = << >>}
           Body(f, j) == IF j = 0 THEN start ELSE K!Rehash(n, m, f[j - 1], j - 1)
           After == CHOOSE f : f = [j \in 0 .. m |-> Body(f, j)]
<1>1. \A q : RInv(h, n, q) /\ q.out = << >> => q \in D
  BY DEF RInv, RType
<1>2. K!Rehashed(n, m, start) = After[m]
  BY DEF K!Rehashed
<1>3. m \in Nat
  BY KHashParts DEF Room
<1> HIDE DEF Set
<1>4. ASSUME NEW q \in D, NEW j \in 1 .. m PROVE K!Rehash(n, m, q, j - 1) \in D
  <2>1. j - 1 \in 0 .. (h.n - 1)
    BY <1>3
  <2>2. RInv(h, n, K!Rehash(n, m, q, j - 1)) /\ K!Rehash(n, m, q, j - 1).out = << >>
    BY <2>1, RehashFacts
  <2> QED BY <1>1, <2>2
<1> HIDE DEF m
<1>5. \E f : f = [j \in 0 .. m |-> Body(f, j)]
  <2> DEFINE G == [p \in D \X (1 .. m) |-> K!Rehash(n, m, p[1], p[2] - 1)]
  <2>1. \A q \in D, j \in 1 .. m : G[<<q, j>>] = K!Rehash(n, m, q, j - 1)
    OBVIOUS
  <2>2. G \in [D \X (1 .. m) -> D] /\ start \in D
    BY <1>1, <1>4
  <2> HIDE DEF G, D
  <2>3. PICK f \in [0 .. m -> D] : Turns(m, start, G, f)
    BY <1>3, <2>2, TurnsExist
  <2>4. ASSUME NEW j \in 0 .. m PROVE f[j] = Body(f, j)
    <3>1. CASE j = 0
      BY <2>3, <3>1 DEF Turns
    <3>2. CASE j # 0
      <4>1. j - 1 \in 0 .. m /\ j \in 1 .. m
        BY <1>3, <3>2
      <4>2. f[j - 1] \in D
        BY <4>1
      <4> QED BY <2>1, <2>3, <3>2, <4>1, <4>2 DEF Turns
    <3> QED BY <3>1, <3>2
  <2> HIDE DEF Body
  <2>5. f = [j \in 0 .. m |-> Body(f, j)]
    BY <2>4
  <2> QED BY <2>5
<1>6. ASSUME NEW j \in 0 .. m PROVE After[j] = Body(After, j)
  <2> HIDE DEF Body
  <2>1. After = [i \in 0 .. m |-> Body(After, i)]
    BY <1>5
  <2> HIDE DEF After
  <2> QED BY <2>1
<1> HIDE DEF After
<1> DEFINE Good(q, j) == /\ RInv(h, n, q) /\ q.out = << >>
                         /\ \A i \in 0 .. (j - 1) : i \notin Old(h, q)
           Counts == {j \in Nat : j <= m => Good(After[j], j)}
<1>7. 0 \in Counts
  <2>1. After[0] = start
    BY <1>3, <1>6
  <2> QED BY <2>1
<1>8. ASSUME NEW j \in Nat, j \in Counts PROVE j + 1 \in Counts
  <2> SUFFICES ASSUME j + 1 <= m PROVE Good(After[j + 1], j + 1)
    OBVIOUS
  <2>1. /\ j + 1 \in 0 .. m /\ j + 1 # 0 /\ (j + 1) - 1 = j /\ j <= m
        /\ j \in 0 .. (h.n - 1)
    BY <1>3 DEF m
  <2> DEFINE q == After[j]
             g == K!Rehash(n, m, q, j)
  <2>2. After[j + 1] = g
    BY <1>6, <2>1
  <2>3. Good(q, j)
    BY <1>8, <2>1
  <2> HIDE DEF q
  <2>4. RInv(h, n, g) /\ g.out = << >> /\ Old(h, g) \subseteq Old(h, q) \ {j}
    BY <2>1, <2>3, RehashFacts DEF m
  <2> HIDE DEF g
  <2>5. ASSUME NEW i \in 0 .. ((j + 1) - 1) PROVE i \notin Old(h, g)
    <3>1. i = j \/ i \in 0 .. (j - 1)
      OBVIOUS
    <3> QED BY <2>3, <2>4, <3>1
  <2>6. Good(g, j + 1)
    BY <2>4, <2>5
  <2> QED BY <2>2, <2>6
<1>9. Good(After[m], m)
  <2> HIDE DEF Counts, Good
  <2>1. \A j \in Nat : j \in Counts
    BY <1>7, <1>8, SimpleInduction
  <2> QED BY <1>3, <2>1 DEF Counts
<1>10. Old(h, After[m]) = {}
  BY <1>9 DEF Old, m
<1> QED BY <1>2, <1>9, <1>10 DEF m

LEMMA StoredItems ==
  ASSUME NEW h, KType(h), Sound(h.n, h.flags, K!Live(h), h.items)
  PROVE  Stored(K!Live(h), h.items) \subseteq Items
<1> SUFFICES ASSUME NEW i \in K!Live(h) PROVE h.items[i] \in Items
  BY DEF Stored
<1>1. h.items \in [0 .. (h.n - 1) -> Items \cup {K!NoItem}] /\ i \in 0 .. (h.n - 1)
  BY KHashParts
<1>2. h.items[i] \in Items \cup {K!NoItem}
  BY <1>1
<1>3. h.items[i].key \in Keys /\ h.items[i].val \in Values
  BY DEF Sound
<1>4. h.items[i] = K!NoItem => h.items[i] = [key |-> h.items[i].key, val |-> h.items[i].val]
  BY DEF K!NoItem
<1>5. [key |-> h.items[i].key, val |-> h.items[i].val] \in Items
  BY <1>3 DEF Items
<1> QED BY <1>2, <1>4, <1>5

\* kh_resize keeps the map, and purges the deleted buckets when it does anything.
LEMMA KHashResized ==
  ASSUME NEW h, NEW d, KInv(h, d), NEW m \in Nat
  PROVE  LET g == K!Resize(h, m)
             n == K!RoundUp(m)
         IN  /\ KInv(g, d)
             /\ h.size < K!UpperBound(n) =>
                  g.n = n /\ g.occupied = h.size /\ g.limit = K!UpperBound(n)
<1> DEFINE g == K!Resize(h, m)
           n == K!RoundUp(m)
           L == K!Live(h)
           items == [i \in 0 .. (IF n < h.n THEN h.n - 1 ELSE n - 1) |->
                       IF i < h.n THEN h.items[i] ELSE K!NoItem]
           start == [old |-> h.flags, fresh |-> K!Flags(n, "empty"), items |-> items, out |-> << >>]
           end == K!Rehashed(n, h.n, start)
           X == [i \in 0 .. (n - 1) |-> IF end.fresh[i] = "live" THEN end.items[i] ELSE K!NoItem]
<1>1. KType(h) /\ KCounts(h) /\ Sound(h.n, h.flags, L, h.items) /\ Denotes(Stored(L, h.items), d)
  BY DEF KInv
<1>2. /\ h.n \in Nat /\ h.size \in Nat
      /\ h.flags \in [0 .. (h.n - 1) -> {"empty", "deleted", "live"}]
      /\ h.items \in [0 .. (h.n - 1) -> Items \cup {K!NoItem}]
      /\ L \in SUBSET (0 .. (h.n - 1))
  BY <1>1, KHashParts
<1>3. Power(n) /\ n \in Nat /\ n >= 4
  BY RoundUpFacts
<1>4. K!UpperBound(n) \in Nat /\ K!UpperBound(n) < n
  BY <1>3, UpperBoundFacts
<1>5. CASE h.size >= K!UpperBound(n)
  <2>1. g = h
    BY <1>5 DEF K!Resize
  <2> HIDE DEF g, n
  <2> QED BY <1>2, <1>4, <1>5, <2>1 DEF g, n
<1>6. CASE h.size < K!UpperBound(n)
  <2>1. g = [n |-> n, size |-> h.size, occupied |-> h.size, limit |-> K!UpperBound(n),
             flags |-> end.fresh, items |-> X]
    <3>1. ~(h.size >= K!UpperBound(n))
      <4> HIDE DEF n
      <4> QED BY <1>2, <1>4, <1>6
    <3> QED BY <3>1 DEF K!Resize
  <2> HIDE DEF g, n
  <2>2. Room(h, n)
    BY <1>1, <1>2, <1>3, <1>4, <1>6, StoredItems DEF Room
  <2>3. start.out = << >> /\ start.items = items /\ start.old = h.flags
        /\ start.fresh = K!Flags(n, "empty")
    OBVIOUS
  <2>4. Old(h, start) = L /\ Fresh(n, start) = {} /\ Out(start) = {}
    BY <2>3 DEF Old, Fresh, Out, K!Flags, K!Live
  <2>5. \A i \in L : items[i] = h.items[i]
    <3> SUFFICES ASSUME NEW i \in L PROVE items[i] = h.items[i]
      OBVIOUS
    <3>1. i \in 0 .. (h.n - 1)
      BY <1>2
    <3>2. i < h.n /\ i \in 0 .. (IF n < h.n THEN h.n - 1 ELSE n - 1)
      BY <1>2, <1>3, <3>1
    <3> QED BY <3>2
  <2>6. RInv(h, n, start)
    <3>1. items \in [0 .. (IF n < h.n THEN h.n - 1 ELSE n - 1) -> Items \cup {K!NoItem}]
      <4> SUFFICES ASSUME NEW i \in 0 .. (IF n < h.n THEN h.n - 1 ELSE n - 1)
                   PROVE  (IF i < h.n THEN h.items[i] ELSE K!NoItem) \in Items \cup {K!NoItem}
        OBVIOUS
      <4>1. i < h.n => i \in 0 .. (h.n - 1)
        BY <1>2, <1>3
      <4> QED BY <1>2, <4>1
    <3>2. K!Flags(n, "empty") \in [0 .. (n - 1) -> {"empty", "live"}]
      BY DEF K!Flags
    <3> HIDE DEF items
    <3>3. RType(h, n, start)
      BY <1>2, <3>1, <3>2 DEF RType
    <3> HIDE DEF start, L
    <3>4. Stored(L, items) = Stored(L, h.items)
      BY <2>5 DEF Stored
    <3>5. \A i, j \in L : h.items[i].key = h.items[j].key => i = j
      BY <1>1 DEF Sound
    <3>6. h.size = Cardinality(L) /\ Cardinality({}) = 0
      BY <1>1, FS_EmptySet DEF KCounts, L
    <3>7. Sound(n, start.fresh, {}, start.items)
      BY DEF Sound
    <3>8. L \cup {} = L
      OBVIOUS
    <3>9. Cardinality(L) + Cardinality({}) = h.size
      BY <1>2, <3>6
    <3>10. Stored(Old(h, start) \cup Fresh(n, start), start.items) \cup Out(start) =
             Stored(K!Live(h), h.items)
      BY <2>3, <2>4, <3>4, <3>8 DEF L
    <3>11. \A i, j \in L : start.items[i].key = start.items[j].key => i = j
      BY <2>3, <2>5, <3>5
    <3> QED BY <2>4, <3>3, <3>7, <3>8, <3>9, <3>10, <3>11 DEF RInv
  <2> HIDE DEF start
  <2>7. RInv(h, n, end) /\ end.out = << >> /\ Old(h, end) = {}
    BY <2>2, <2>3, <2>6, RehashedFacts
  <2> HIDE DEF end
  <2> DEFINE F == Fresh(n, end)
  <2>8. RType(h, n, end)
    BY <2>7 DEF RInv
  <2>9. /\ end.fresh \in [0 .. (n - 1) -> {"empty", "live"}]
        /\ end.items \in [0 .. (IF n < h.n THEN h.n - 1 ELSE n - 1) -> Items \cup {K!NoItem}]
        /\ F \in SUBSET (0 .. (n - 1))
        /\ \A i \in 0 .. (n - 1) : i \in DOMAIN end.items
    BY <1>1, <1>3, <2>8, RehashParts
  <2>10. {} \cup F = F /\ Out(end) = {}
    BY <2>7 DEF Out
  <2>11. /\ Stored(F, end.items) = Stored(L, h.items)
         /\ Cardinality(F) = h.size
         /\ Sound(n, end.fresh, F, end.items)
    <3> HIDE DEF F, L
    <3>1. Stored(F, end.items) \cup {} = Stored(L, h.items)
      BY <2>7, <2>10 DEF RInv, F, L
    <3>2. Cardinality(F) + Cardinality({}) = h.size
      BY <2>7, <2>10 DEF RInv, F
    <3>3. IsFiniteSet(F)
      BY <1>3, <2>9, FiniteBuckets
    <3>4. Cardinality({}) = 0 /\ Cardinality(F) \in Nat
      BY <3>3, FS_EmptySet, FS_CardinalityType
    <3>5. Sound(n, end.fresh, F, end.items)
      BY <2>7 DEF RInv, F
    <3> QED BY <3>1, <3>2, <3>4, <3>5
  <2>12. \A i \in F : X[i] = end.items[i]
    BY <2>9 DEF Fresh
  <2>13. X \in [0 .. (n - 1) -> Items \cup {K!NoItem}]
    <3> SUFFICES ASSUME NEW i \in 0 .. (n - 1) PROVE end.items[i] \in Items \cup {K!NoItem}
      OBVIOUS
    <3> QED BY <2>9
  <2>14. end.fresh \in [0 .. (n - 1) -> {"empty", "deleted", "live"}]
    BY <2>9
  <2> HIDE DEF X
  <2>15. g.n = n /\ g.size = h.size /\ g.occupied = h.size /\ g.limit = K!UpperBound(n)
         /\ g.flags = end.fresh /\ g.items = X
    BY <2>1
  <2>16. KType(g)
    BY <1>2, <1>3, <1>4, <2>1, <2>13, <2>14 DEF KType
  <2>17. K!Live(g) = F /\ Nonempty(g.n, g.flags) = F
    BY <2>9, <2>15 DEF K!Live, Nonempty, Fresh
  <2> HIDE DEF F
  <2>18. KCounts(g)
    BY <1>2, <1>3, <1>4, <1>6, <2>11, <2>15, <2>17 DEF KCounts
  <2>19. Sound(g.n, g.flags, K!Live(g), g.items)
    <3>1. Sound(n, end.fresh, F, X)
      BY <1>3, <2>9, <2>11, <2>12, LessSound DEF F
    <3> QED BY <2>15, <2>17, <3>1
  <2>20. Denotes(Stored(K!Live(g), g.items), d)
    <3>1. Stored(F, X) = Stored(F, end.items)
      BY <2>12 DEF Stored
    <3> QED BY <1>1, <2>11, <2>15, <2>17, <3>1
  <2> QED BY <2>15, <2>16, <2>18, <2>19, <2>20 DEF KInv, g, n
<1>7. h.size >= K!UpperBound(n) \/ h.size < K!UpperBound(n)
  <2> HIDE DEF n
  <2> QED BY <1>2, <1>4
<1> QED BY <1>5, <1>6, <1>7

LEMMA PowerGrows == \A a, b \in Nat : a <= b => TwoTo[a] <= TwoTo[b]
<1> SUFFICES ASSUME NEW a \in Nat PROVE \A b \in Nat : a <= b => TwoTo[a] <= TwoTo[b]
  OBVIOUS
<1> DEFINE Good == {c \in Nat : TwoTo[a] <= TwoTo[a + c]}
<1>1. 0 \in Good
  BY PowerFacts
<1>2. ASSUME NEW c \in Nat, c \in Good PROVE c + 1 \in Good
  <2>1. a + c \in Nat /\ a + (c + 1) = (a + c) + 1
    OBVIOUS
  <2>2. TwoTo[(a + c) + 1] = 2 * TwoTo[a + c] /\ TwoTo[a + c] \in Nat /\ TwoTo[a] \in Nat
    BY <2>1, PowerFacts
  <2> QED BY <1>2, <2>1, <2>2
<1>3. \A c \in Nat : c \in Good
  <2> HIDE DEF Good
  <2> QED BY <1>1, <1>2, SimpleInduction
<1> SUFFICES ASSUME NEW b \in Nat, a <= b PROVE TwoTo[a] <= TwoTo[b]
  OBVIOUS
<1>4. b - a \in Nat /\ a + (b - a) = b
  OBVIOUS
<1> QED BY <1>3, <1>4

\* A greater power of two is twice as great at least.
LEMMA NextPower ==
  ASSUME NEW m, Power(m), NEW n, Power(n), m < n
  PROVE  2 * m <= n
<1>1. PICK a \in Nat : m = TwoTo[a]
  BY DEF Power
<1>2. PICK b \in Nat : n = TwoTo[b]
  BY DEF Power
<1>3. m \in Nat /\ n \in Nat
  BY PowerType
<1>4. ~(b <= a)
  <2> SUFFICES ASSUME b <= a PROVE FALSE
    OBVIOUS
  <2>1. n <= m
    BY <1>1, <1>2, PowerGrows
  <2> QED BY <1>3, <2>1
<1>5. a + 1 \in Nat /\ a + 1 <= b /\ TwoTo[a + 1] = 2 * m
  BY <1>1, <1>4, PowerFacts
<1>6. TwoTo[a + 1] <= TwoTo[b]
  BY <1>5, PowerGrows
<1> QED BY <1>2, <1>5, <1>6

LEMMA PowerEven ==
  ASSUME NEW n, Power(n), n >= 4
  PROVE  \E m \in Nat : n = 2 * m
<1>1. PICK b \in Nat : n = TwoTo[b]
  BY DEF Power
<1>2. b # 0
  BY <1>1, PowerExists
<1>3. b - 1 \in Nat /\ (b - 1) + 1 = b
  BY <1>2
<1>4. TwoTo[(b - 1) + 1] = 2 * TwoTo[b - 1] /\ TwoTo[b - 1] \in Nat
  BY <1>3, PowerFacts
<1> QED BY <1>1, <1>3, <1>4

\* What kh_put resizes, if it has to, has room for one element more.
LEMMA KHashPrepared ==
  ASSUME NEW h, NEW d, KInv(h, d)
  PROVE  LET g == K!Prepared(h)
         IN  KInv(g, d) /\ g.n # 0 /\ g.occupied < g.limit
<1> DEFINE g == K!Prepared(h)
<1>1. KType(h) /\ KCounts(h)
  BY DEF KInv
<1>2. h.n \in Nat /\ h.size \in Nat /\ h.occupied \in Nat /\ h.limit \in Nat
  BY <1>1, KHashParts
<1>3. CASE ~K!AtLimit(h)
  <2>1. g = h
    BY <1>3 DEF K!Prepared
  <2>2. h.occupied < h.limit
    BY <1>2, <1>3 DEF K!AtLimit
  <2>3. h.n # 0
    BY <1>1, <1>2, <2>2 DEF KCounts
  <2> QED BY <2>1, <2>2, <2>3
<1>4. CASE K!AtLimit(h)
  <2> DEFINE m == IF h.n > 2 * h.size THEN h.n - 1 ELSE h.n + 1
             n == K!RoundUp(m)
  <2>1. g = K!Resize(h, m)
    BY <1>4 DEF K!Prepared
  <2>2. m \in Nat
    BY <1>2
  <2>3. Power(n) /\ n \in Nat /\ n >= 4 /\ n >= m
    BY <2>2, RoundUpFacts
  <2>4. h.size <= h.occupied /\ h.occupied = h.limit
    <3>1. K!Live(h) \subseteq Nonempty(h.n, h.flags)
      BY DEF K!Live, Nonempty
    <3>2. IsFiniteSet(Nonempty(h.n, h.flags))
      BY <1>1, <1>2, KHashParts, FiniteBuckets
    <3>3. Cardinality(K!Live(h)) <= Cardinality(Nonempty(h.n, h.flags))
      BY <3>1, <3>2, FS_Subset
    <3> QED BY <1>1, <1>2, <1>4, <3>3 DEF KCounts, K!AtLimit
  <2> HIDE DEF n, g
  <2>5. h.size < K!UpperBound(n)
    <3>1. CASE 2 * h.size < n
      BY <1>2, <2>3, <3>1, UpperBoundFacts
    <3>2. CASE h.n > 2 * h.size
      <4>1. m = h.n - 1 /\ Power(h.n) /\ h.n >= 4
        BY <1>1, <1>2, <3>2 DEF KType
      <4>2. PICK l \in Nat : h.n = 2 * l
        BY <4>1, PowerEven
      <4>3. 2 * h.size < n
        BY <1>2, <2>3, <3>2, <4>1, <4>2
      <4> QED BY <3>1, <4>3
    <3>3. CASE h.n = 0
      <4>1. h.size = 0
        BY <1>1, <1>2, <2>4, <3>3 DEF KCounts
      <4>2. 2 * h.size < n
        BY <2>3, <4>1
      <4> QED BY <3>1, <4>2
    <3>4. CASE ~(h.n > 2 * h.size) /\ h.n # 0
      <4>1. Power(h.n) /\ h.n >= 4 /\ m = h.n + 1 /\ h.limit = K!UpperBound(h.n)
        BY <1>1, <1>2, <3>4 DEF KType, KCounts
      <4>2. h.n < n
        BY <1>2, <2>3, <4>1
      <4>3. 2 * h.n <= n
        BY <2>3, <4>1, <4>2, NextPower
      <4>4. K!UpperBound(h.n) < K!UpperBound(n)
        BY <1>2, <2>3, <4>1, <4>3, UpperBoundDoubles
      <4>5. K!UpperBound(n) \in Nat
        BY <2>3, UpperBoundFacts
      <4> QED BY <1>2, <2>4, <4>1, <4>4, <4>5
    <3> QED BY <3>2, <3>3, <3>4
  <2>6. KInv(g, d) /\ g.n = n /\ g.occupied = h.size /\ g.limit = K!UpperBound(n)
    BY <2>1, <2>2, <2>5, KHashResized DEF n
  <2> QED BY <2>3, <2>5, <2>6 DEF g
<1> QED BY <1>3, <1>4

LEMMA KHashPutFacts ==
  ASSUME NEW h, NEW d, KInv(h, d), NEW k \in Keys, NEW v \in Values
  PROVE  KInv(K!Put(h, k, v), Over(Single(k, v), d))
<1> DEFINE g == K!Prepared(h)
<1>1. KInv(g, d) /\ g.n # 0 /\ g.occupied < g.limit
  BY KHashPrepared
<1> HIDE DEF g
<1>2. KInv(K!PutAt(g, k, v), Over(Single(k, v), d))
  BY <1>1, KHashPutAt
<1> QED BY <1>2 DEF K!Put, g

-----------------------------------------------------------------------------
(***************************************************************************)
(* sparse_hash_map: what its operators return of a table of the right type.*)
(***************************************************************************)
LEMMA MinBucketsFacts == MinBuckets \in Nat /\ Power(MinBuckets) /\ MinBuckets >= 4
<1>1. PICK b \in 2 .. 30 : MinBuckets = TwoTo[b]
  BY OpenTablesAssumption
<1>2. b \in Nat /\ 2 \in Nat /\ 2 <= b
  OBVIOUS
<1>3. TwoTo[2] <= TwoTo[b] /\ TwoTo[b] \in Nat
  BY <1>2, PowerGrows, PowerFacts
<1>4. TwoTo[0] = 1 /\ TwoTo[0 + 1] = 2 * TwoTo[0] /\ TwoTo[1 + 1] = 2 * TwoTo[1]
  BY PowerExists
<1>5. TwoTo[2] = 4
  BY <1>4
<1> QED BY <1>1, <1>2, <1>3, <1>5 DEF Power

LEMMA BucketStates ==
  /\ S!Nothing.state = "empty" /\ S!Marker.state = "deleted"
  /\ \A b \in Buckets : /\ b.state \in {"empty", "deleted", "used"}
                        /\ b.state = "used" => b.key \in Keys /\ b.val \in Values
  /\ \A k \in Keys, v \in Values :
       /\ S!Element(k, v) \in Buckets /\ S!Element(k, v).state = "used"
       /\ S!Element(k, v).key = k /\ S!Element(k, v).val = v
BY DEF Buckets, S!Nothing, S!Marker, S!Element

LEMMA SParts ==
  ASSUME NEW s, SType(s)
  PROVE  /\ s.n \in Nat \ {0} /\ Power(s.n) /\ s.n >= 4 /\ s.n >= MinBuckets
         /\ s.deleted \in Nat /\ s.shrink \in BOOLEAN
         /\ s.buckets \in [0 .. (s.n - 1) -> Buckets]
         /\ s = [n |-> s.n, buckets |-> s.buckets, deleted |-> s.deleted, shrink |-> s.shrink]
         /\ S!Used(s) \in SUBSET (0 .. (s.n - 1)) /\ Markers(s) \in SUBSET (0 .. (s.n - 1))
         /\ S!Used(s) \cap Markers(s) = {}
         /\ IsFiniteSet(S!Used(s)) /\ IsFiniteSet(Markers(s))
         /\ S!NumNonempty(s) = Cardinality(S!Used(s)) + Cardinality(Markers(s))
         /\ Cardinality(S!Used(s)) \in Nat /\ Cardinality(Markers(s)) \in Nat
<1>1. /\ s.n \in Nat /\ Power(s.n) /\ s.n >= MinBuckets
      /\ s.deleted \in Nat /\ s.shrink \in BOOLEAN
      /\ s.buckets \in [0 .. (s.n - 1) -> Buckets]
      /\ s = [n |-> s.n, buckets |-> s.buckets, deleted |-> s.deleted, shrink |-> s.shrink]
  BY DEF SType
<1>2. s.n \in Nat \ {0} /\ s.n >= 4
  BY <1>1, PowerType, MinBucketsFacts
<1>3. DOMAIN s.buckets = 0 .. (s.n - 1)
  BY <1>1
<1>4. S!Used(s) \in SUBSET (0 .. (s.n - 1)) /\ Markers(s) \in SUBSET (0 .. (s.n - 1))
      /\ S!Used(s) \cap Markers(s) = {}
  BY <1>3 DEF S!Used, S!Is, Markers
<1>5. /\ IsFiniteSet(S!Used(s)) /\ IsFiniteSet(Markers(s))
      /\ Cardinality(S!Used(s)) \in Nat /\ Cardinality(Markers(s)) \in Nat
  BY <1>1, <1>4, FiniteBuckets
<1>6. {i \in DOMAIN s.buckets : s.buckets[i].state # "empty"} = S!Used(s) \cup Markers(s)
  <2>1. \A i \in 0 .. (s.n - 1) : s.buckets[i].state \in {"empty", "deleted", "used"}
    BY <1>1, BucketStates
  <2> QED BY <1>3, <2>1 DEF S!Used, S!Is, Markers
<1>7. Cardinality(S!Used(s) \cup Markers(s)) = Cardinality(S!Used(s)) + Cardinality(Markers(s))
  <2> DEFINE U == S!Used(s)
             M == Markers(s)
  <2>1. Cardinality(U \cap M) = 0 /\ IsFiniteSet(U) /\ IsFiniteSet(M)
        /\ Cardinality(U) \in Nat /\ Cardinality(M) \in Nat
    BY <1>4, <1>5, FS_EmptySet
  <2> HIDE DEF U, M
  <2>2. Cardinality(U \cup M) = Cardinality(U) + Cardinality(M) - Cardinality(U \cap M)
    BY <2>1, FS_Union
  <2>3. Cardinality(U \cup M) = Cardinality(U) + Cardinality(M)
    BY <2>1, <2>2
  <2> QED BY <2>3 DEF U, M
<1>8. S!NumNonempty(s) = Cardinality(S!Used(s)) + Cardinality(Markers(s))
  BY <1>6, <1>7, InstanceCardinality DEF S!NumNonempty
<1> QED BY <1>1, <1>2, <1>4, <1>5, <1>8

LEMMA StateFacts ==
  ASSUME NEW s, SType(s), NEW i \in 0 .. (s.n - 1)
  PROVE  /\ State(s)[i] = s.buckets[i].state
         /\ State(s)[i] \in {"empty", "deleted", "used"}
         /\ i \in S!Used(s) <=> State(s)[i] = "used"
         /\ i \in Markers(s) <=> State(s)[i] = "deleted"
<1>1. s.buckets \in [0 .. (s.n - 1) -> Buckets]
  BY SParts
<1>2. s.buckets[i] \in Buckets /\ DOMAIN s.buckets = 0 .. (s.n - 1)
  BY <1>1
<1>3. State(s)[i] = s.buckets[i].state
  BY DEF State
<1> QED BY <1>2, <1>3, BucketStates DEF S!Used, S!Is, Markers

LEMMA SRoom ==
  ASSUME NEW s, SType(s), 10 * S!NumNonempty(s) <= 8 * s.n
  PROVE  \E e \in 0 .. (s.n - 1) : State(s)[e] = "empty"
<1> DEFINE T == {i \in DOMAIN s.buckets : s.buckets[i].state # "empty"}
<1>1. s.n \in Nat /\ s.n >= 4 /\ DOMAIN s.buckets = 0 .. (s.n - 1)
  BY SParts
<1>2. T \in SUBSET (0 .. (s.n - 1))
  BY <1>1
<1>3. S!NumNonempty(s) = Cardinality(T)
  BY InstanceCardinality DEF S!NumNonempty
<1>4. Cardinality(T) \in Nat
  BY <1>1, <1>2, FiniteBuckets
<1> HIDE DEF T
<1>5. Cardinality(T) < s.n
  BY <1>1, <1>3, <1>4
<1>6. PICK e \in 0 .. (s.n - 1) : e \notin T
  BY <1>1, <1>2, <1>5, FiniteBuckets
<1>7. s.buckets[e].state = "empty"
  BY <1>1, <1>6 DEF T
<1> QED BY <1>7, StateFacts

LEMMA ProbingFacts ==
  ASSUME NEW s, SType(s), 10 * S!NumNonempty(s) <= 8 * s.n, NEW k \in Keys
  PROVE  /\ S!Probing(s, k) \in 0 .. (s.n - 1)
         /\ Hit(s.n, State(s), S!Used(s), s.buckets, k, S!Probing(s, k))
<1> DEFINE n == s.n
           ends(p) == LET i == S!Probe(n, k, p)
                      IN  S!Is(s, i, "empty") \/ S!Holds(s, i, k)
           T == {p \in 0 .. (n - 1) : ends(p)}
<1>1. Power(n) /\ n \in Nat \ {0} /\ Hash[k] \in Nat
  BY SParts, HashType
<1>2. \E e \in 0 .. (n - 1) : State(s)[e] = "empty"
  BY SRoom
<1>3. PICK p \in 0 .. (n - 1) : Hit(n, State(s), S!Used(s), s.buckets, k, p)
  BY <1>1, <1>2, HitExists
<1>4. ASSUME NEW r \in 0 .. (n - 1)
      PROVE  ends(r) <=> Stops(n, State(s), S!Used(s), s.buckets, k, r)
  <2>1. Bucket(n, Hash[k], r) \in 0 .. (n - 1)
    <3>1. r \in Nat
      BY <1>1
    <3> HIDE DEF n
    <3> QED BY <1>1, <3>1, BucketType
  <2>2. S!Probe(n, k, r) = Bucket(n, Hash[k], r)
    BY InstanceProbes
  <2> DEFINE i == Bucket(n, Hash[k], r)
  <2>3. /\ State(s)[i] = s.buckets[i].state
        /\ i \in S!Used(s) <=> State(s)[i] = "used"
    BY <2>1, StateFacts
  <2> QED BY <2>2, <2>3 DEF Stops, S!Is, S!Holds
<1> HIDE DEF ends, n
<1>5. p \in T /\ T \in SUBSET Nat
  BY <1>1, <1>3, <1>4 DEF Hit
<1>6. ASSUME NEW r \in T PROVE p <= r
  <2> SUFFICES ASSUME r < p PROVE FALSE
    BY <1>1
  <2>1. r \in 0 .. (p - 1) /\ r \in 0 .. (n - 1)
    BY <1>1
  <2> QED BY <1>3, <1>4, <2>1 DEF Hit
<1>7. S!Probing(s, k) = Min(T)
  BY InstanceMin DEF S!Probing, ends, n
<1> HIDE DEF T
<1>8. S!Probing(s, k) = p
  BY <1>5, <1>6, <1>7, MinIs
<1> QED BY <1>3, <1>8 DEF n

\* find_position: a table that is loaded as its thresholds allow.
Loaded(s) == SType(s) /\ 10 * S!NumNonempty(s) <= 8 * s.n
             /\ Sound(s.n, State(s), S!Used(s), s.buckets)

LEMMA SFind ==
  ASSUME NEW s, Loaded(s), NEW k \in Keys
  PROVE  LET p == S!Probing(s, k)
             i == S!Probe(s.n, k, p)
         IN  /\ p \in 0 .. (s.n - 1) /\ i \in 0 .. (s.n - 1)
             /\ \A r \in 0 .. (p - 1) : State(s)[S!Probe(s.n, k, r)] # "empty"
             /\ Reached(s.n, State(s), i, Hash[k])
             /\ \A j \in S!Used(s) : s.buckets[j].key = k => j = i
             /\ State(s)[i] # "empty" => i \in S!Used(s) /\ s.buckets[i].key = k
             /\ S!Holds(s, i, k) <=> i \in S!Used(s)
<1> DEFINE p == S!Probing(s, k)
<1>1. SType(s) /\ 10 * S!NumNonempty(s) <= 8 * s.n /\ Sound(s.n, State(s), S!Used(s), s.buckets)
      /\ Power(s.n)
  BY SParts DEF Loaded
<1>2. p \in 0 .. (s.n - 1) /\ Hit(s.n, State(s), S!Used(s), s.buckets, k, p)
  BY <1>1, ProbingFacts
<1> HIDE DEF p
<1>3. /\ Bucket(s.n, Hash[k], p) \in 0 .. (s.n - 1)
      /\ \A r \in 0 .. (p - 1) : State(s)[Bucket(s.n, Hash[k], r)] # "empty"
      /\ Reached(s.n, State(s), Bucket(s.n, Hash[k], p), Hash[k])
      /\ \A j \in S!Used(s) : s.buckets[j].key = k => j = Bucket(s.n, Hash[k], p)
      /\ State(s)[Bucket(s.n, Hash[k], p)] # "empty" =>
           Bucket(s.n, Hash[k], p) \in S!Used(s) /\ s.buckets[Bucket(s.n, Hash[k], p)].key = k
  BY <1>1, <1>2, HitFacts
<1>4. \A r : S!Probe(s.n, k, r) = Bucket(s.n, Hash[k], r)
  BY InstanceProbes
<1> DEFINE i == S!Probe(s.n, k, p)
<1>5. /\ i \in 0 .. (s.n - 1)
      /\ State(s)[i] # "empty" => i \in S!Used(s) /\ s.buckets[i].key = k
  BY <1>3, <1>4
<1>6. S!Holds(s, i, k) <=> i \in S!Used(s)
  <2> HIDE DEF i
  <2>1. i \in S!Used(s) <=> State(s)[i] = "used"
    BY <1>1, <1>5, StateFacts
  <2>2. State(s)[i] = s.buckets[i].state
    BY <1>1, <1>5, StateFacts
  <2> QED BY <1>5, <2>1, <2>2 DEF S!Holds, S!Is
<1> QED BY <1>2, <1>3, <1>4, <1>6 DEF p

LEMMA SPosition ==
  ASSUME NEW s, Loaded(s), NEW k \in Keys
  PROVE  LET i == S!Position(s, k)
         IN  /\ i = -1 \/ (i \in S!Used(s) /\ s.buckets[i].key = k)
             /\ \A j \in S!Used(s) : s.buckets[j].key = k => j = i
             /\ -1 \notin S!Used(s)
<1> DEFINE i == S!Probe(s.n, k, S!Probing(s, k))
<1>1. SType(s)
  BY DEF Loaded
<1>2. S!Used(s) \in SUBSET (0 .. (s.n - 1)) /\ s.n \in Nat
  BY <1>1, SParts
<1>3. -1 \notin S!Used(s)
  BY <1>2
<1>4. /\ \A j \in S!Used(s) : s.buckets[j].key = k => j = i
      /\ S!Holds(s, i, k) <=> i \in S!Used(s)
      /\ State(s)[i] # "empty" => s.buckets[i].key = k
      /\ i \in 0 .. (s.n - 1)
  BY SFind
<1>5. S!Position(s, k) = IF S!Holds(s, i, k) THEN i ELSE -1
  BY DEF S!Position, S!IllegalBucket
<1> HIDE DEF i
<1>6. i \in S!Used(s) => s.buckets[i].key = k
  BY <1>1, <1>4, StateFacts
<1> QED BY <1>3, <1>4, <1>5, <1>6

\* find
LEMMA SFindKey ==
  ASSUME NEW s, Loaded(s), s.deleted = Cardinality(Markers(s)), NEW k \in Keys
  PROVE  LET i == S!Find(s, k)
         IN  /\ i = -1 \/ (i \in S!Used(s) /\ s.buckets[i].key = k)
             /\ \A j \in S!Used(s) : s.buckets[j].key = k => j = i
             /\ -1 \notin S!Used(s)
<1>1. SType(s)
  BY DEF Loaded
<1>2. /\ S!NumNonempty(s) = Cardinality(S!Used(s)) + Cardinality(Markers(s))
      /\ Cardinality(S!Used(s)) \in Nat /\ Cardinality(Markers(s)) \in Nat
      /\ IsFiniteSet(S!Used(s))
  BY <1>1, SParts
<1>3. S!Size(s) = Cardinality(S!Used(s))
  BY <1>2 DEF S!Size
<1>4. CASE S!Size(s) = 0
  <2>1. S!Used(s) = {}
    BY <1>2, <1>3, <1>4, FS_EmptySet
  <2> QED BY <1>4, <2>1 DEF S!Find, S!IllegalBucket
<1>5. CASE S!Size(s) # 0
  <2>1. S!Find(s, k) = S!Position(s, k)
    BY <1>5 DEF S!Find
  <2> QED BY <2>1, SPosition
<1> QED BY <1>4, <1>5

LEMMA SInsertPosition ==
  ASSUME NEW s, Loaded(s), NEW k \in Keys, S!Position(s, k) = -1
  PROVE  LET i == S!InsertPosition(s, k)
         IN  /\ i \in 0 .. (s.n - 1) /\ Reached(s.n, State(s), i, Hash[k])
             /\ i \notin S!Used(s)
             /\ \A j \in S!Used(s) : s.buckets[j].key # k
<1> DEFINE last == S!Probing(s, k)
           e == S!Probe(s.n, k, last)
           passed == {p \in 0 .. last : S!Is(s, S!Probe(s.n, k, p), "deleted")}
           i == S!InsertPosition(s, k)
<1>1. SType(s)
  BY DEF Loaded
<1>2. s.n \in Nat \ {0} /\ Hash[k] \in Nat /\ S!Used(s) \in SUBSET (0 .. (s.n - 1))
  BY <1>1, SParts, HashType
<1>3. /\ last \in 0 .. (s.n - 1) /\ e \in 0 .. (s.n - 1)
      /\ \A r \in 0 .. (last - 1) : State(s)[S!Probe(s.n, k, r)] # "empty"
      /\ Reached(s.n, State(s), e, Hash[k])
      /\ State(s)[e] # "empty" => e \in S!Used(s) /\ s.buckets[e].key = k
  BY SFind
<1>4. \A j \in S!Used(s) : s.buckets[j].key # k
  <2>1. -1 \notin S!Used(s) /\ \A j \in S!Used(s) : s.buckets[j].key = k => j = -1
    BY SPosition
  <2> QED BY <2>1
<1>5. e \notin S!Used(s)
  BY <1>1, <1>3, <1>4, StateFacts
<1>6. i = IF passed = {} THEN e ELSE S!Probe(s.n, k, S!Min(passed))
  BY DEF S!InsertPosition
<1> HIDE DEF last
<1>7. CASE passed = {}
  BY <1>3, <1>4, <1>5, <1>6, <1>7
<1>8. CASE passed # {}
  <2>1. passed \in SUBSET Nat
    BY <1>3
  <2> DEFINE p == S!Min(passed)
  <2>2. p \in passed
    <3> HIDE DEF passed
    <3>1. \E x \in passed : \A y \in passed : x <= y
      BY <1>8, <2>1, LeastNatural
    <3>2. Min(passed) \in passed
      BY <3>1 DEF Min
    <3> QED BY <3>2, InstanceMin
  <2>3. p \in 0 .. last /\ p \in Nat /\ p \in 0 .. (s.n - 1) /\ S!Is(s, S!Probe(s.n, k, p), "deleted")
    BY <1>2, <1>3, <2>2
  <2>4. i = S!Probe(s.n, k, p)
    BY <1>6, <1>8
  <2> HIDE DEF p, passed, i
  <2>5. i = Bucket(s.n, Hash[k], p) /\ i \in 0 .. (s.n - 1)
    BY <1>2, <2>3, <2>4, InstanceProbes, BucketType
  <2>6. \A r \in 0 .. (p - 1) : State(s)[Bucket(s.n, Hash[k], r)] # "empty"
    <3>1. \A r \in 0 .. (p - 1) : r \in 0 .. (last - 1)
      BY <1>2, <1>3, <2>3
    <3>2. \A r \in 0 .. (p - 1) : State(s)[S!Probe(s.n, k, r)] # "empty"
      BY <1>3, <3>1
    <3> QED BY <3>2, InstanceProbes
  <2>7. Reached(s.n, State(s), i, Hash[k])
    BY <2>3, <2>5, <2>6 DEF Reached
  <2>8. i \notin S!Used(s)
    BY <2>3, <2>4 DEF S!Used, S!Is
  <2> QED BY <1>4, <2>5, <2>7, <2>8 DEF i
<1> QED BY <1>7, <1>8

LEMMA OverAbsent ==
  ASSUME NEW d, NEW k, NEW v, k \notin DOMAIN d
  PROVE  Over(Single(k, v), d) = Over(d, Single(k, v))
BY DEF Over, Single

LEMMA OverTwice ==
  ASSUME NEW d, NEW k, NEW v, NEW w
  PROVE  Over(Single(k, v), Over(d, Single(k, w))) = Over(Single(k, v), d)
BY DEF Over, Single

\* An element put into bucket i, over one of the same key or none.
PutMakes(s, i, item, g) ==
  /\ S!Used(g) = S!Used(s) \cup {i} /\ Markers(g) = Markers(s) \ {i}
  /\ Sound(g.n, State(g), S!Used(g), g.buckets)
  /\ Stored(S!Used(g), g.buckets) = Stored(S!Used(s) \ {i}, s.buckets) \cup {item}

LEMMA SBucketPut ==
  ASSUME NEW s, SType(s), Sound(s.n, State(s), S!Used(s), s.buckets),
         NEW k \in Keys, NEW v \in Values, NEW i \in 0 .. (s.n - 1),
         Reached(s.n, State(s), i, Hash[k]),
         \A j \in S!Used(s) : s.buckets[j].key = k => j = i,
         i \in S!Used(s) => s.buckets[i].key = k,
         NEW g, SType(g), g.n = s.n, g.buckets = [s.buckets EXCEPT ![i] = S!Element(k, v)]
  PROVE  PutMakes(s, i, S!Element(k, v), g)
<1> DEFINE U == S!Used(s)
           X == s.buckets
           Y == g.buckets
           item == S!Element(k, v)
<1>1. /\ s.n \in Nat \ {0} /\ Power(s.n) /\ U \in SUBSET (0 .. (s.n - 1))
      /\ X \in [0 .. (s.n - 1) -> Buckets] /\ Markers(s) \in SUBSET (0 .. (s.n - 1))
      /\ S!Used(g) \in SUBSET (0 .. (s.n - 1)) /\ Markers(g) \in SUBSET (0 .. (s.n - 1))
  BY SParts
<1>2. item \in Buckets /\ item.state = "used" /\ item.key = k /\ item.val = v
  BY BucketStates
<1>3. Y[i] = item /\ \A j \in 0 .. (s.n - 1) : j # i => Y[j] = X[j]
  BY <1>1
<1> HIDE DEF Y, item
<1>4. ASSUME NEW j \in 0 .. (s.n - 1)
      PROVE  /\ State(s)[j] = X[j].state /\ State(g)[j] = Y[j].state
             /\ State(s)[j] \in {"empty", "deleted", "used"}
             /\ j \in U <=> State(s)[j] = "used"
             /\ j \in S!Used(g) <=> State(g)[j] = "used"
             /\ j \in Markers(s) <=> State(s)[j] = "deleted"
             /\ j \in Markers(g) <=> State(g)[j] = "deleted"
  <2>1. j \in 0 .. (g.n - 1)
    OBVIOUS
  <2> QED BY <2>1, StateFacts DEF Y
<1>5. S!Used(g) = U \cup {i} /\ Markers(g) = Markers(s) \ {i}
  <2>1. ASSUME NEW j \in 0 .. (s.n - 1)
        PROVE  /\ j \in S!Used(g) <=> j \in U \/ j = i
               /\ j \in Markers(g) <=> j \in Markers(s) /\ j # i
    <3>1. CASE j = i
      <4>1. State(g)[j] = "used"
        BY <1>2, <1>3, <1>4, <3>1
      <4> QED BY <1>4, <3>1, <4>1
    <3>2. CASE j # i
      <4>1. State(g)[j] = State(s)[j]
        BY <1>3, <1>4, <3>2
      <4> QED BY <1>4, <3>2, <4>1
    <3> QED BY <3>1, <3>2
  <2> HIDE DEF U
  <2> QED BY <1>1, <2>1
<1>6. Sound(g.n, State(g), S!Used(g), Y)
  <2>1. \A j \in 0 .. (s.n - 1) : State(s)[j] # "empty" => State(g)[j] # "empty"
    BY <1>2, <1>3, <1>4
  <2>2. State(g)[i] # "empty"
    BY <1>2, <1>3, <1>4
  <2>3. \A j \in U : j # i => Y[j] = X[j] /\ X[j].key # Y[i].key
    BY <1>1, <1>2, <1>3
  <2>4. PutFits(s.n, State(s), U, X, i, State(g), Y)
    BY <1>2, <1>3, <2>1, <2>2, <2>3 DEF PutFits
  <2>5. Sound(s.n, State(g), U \cup {i}, Y)
    BY <1>1, <2>4, PutSound
  <2> QED BY <1>5, <2>5
<1>7. Stored(S!Used(g), Y) = Stored(U \ {i}, X) \cup {item}
  <2>1. \A j \in U \ {i} : Y[j] = X[j]
    BY <1>1, <1>3
  <2> HIDE DEF U, X
  <2> QED BY <1>3, <1>5, <2>1 DEF Stored
<1> QED BY <1>5, <1>6, <1>7 DEF Y, item, PutMakes

\* The map after it.
LEMMA SBucketDenotes ==
  ASSUME NEW s, NEW d, SType(s), Denotes(Stored(S!Used(s), s.buckets), d),
         NEW k \in Keys, NEW v \in Values, NEW i \in 0 .. (s.n - 1),
         \A j \in S!Used(s) : s.buckets[j].key = k => j = i,
         i \in S!Used(s) => s.buckets[i].key = k,
         NEW Z, Z = Stored(S!Used(s) \ {i}, s.buckets) \cup {S!Element(k, v)}
  PROVE  Denotes(Z, Over(Single(k, v), d))
<1> DEFINE U == S!Used(s)
           X == s.buckets
           W == {X[j] : j \in U \ {i}}
           Y == {X[j] : j \in U}
           item == S!Element(k, v)
<1>1. \A y \in Y : y.key = k <=> y \notin W
  <2> SUFFICES ASSUME NEW j \in U PROVE X[j].key = k <=> X[j] \notin W
    OBVIOUS
  <2>1. CASE j = i
    <3>1. X[j].key = k
      BY <2>1
    <3>2. ASSUME X[j] \in W PROVE FALSE
      <4>1. PICK l \in U \ {i} : X[j] = X[l]
        BY <3>2
      <4> QED BY <3>1, <4>1
    <3> QED BY <3>1, <3>2
  <2>2. CASE j # i
    BY <2>2
  <2> QED BY <2>1, <2>2
<1>2. W \in SUBSET Y /\ Denotes(Y, d) /\ Z = W \cup {item}
  BY DEF Stored
<1>3. item.key = k /\ item.val = v
  BY BucketStates
<1> HIDE DEF W, Y, item, X, U
<1>4. \A y \in Y : (y.key = item.key) <=> y \notin W
  BY <1>1, <1>3
<1>5. Denotes(W \cup {item}, Over(Single(item.key, item.val), d))
  BY <1>2, <1>4, DenotesPut
<1> QED BY <1>2, <1>3, <1>5

LEMMA SInvParts ==
  ASSUME NEW s, NEW d, SInv(s, d)
  PROVE  /\ SType(s) /\ Loaded(s) /\ s.deleted = Cardinality(Markers(s))
         /\ Sound(s.n, State(s), S!Used(s), s.buckets)
         /\ Denotes(Stored(S!Used(s), s.buckets), d)
         /\ S!Size(s) = Cardinality(S!Used(s))
         /\ S!NumNonempty(s) = S!Size(s) + s.deleted
         /\ S!Size(s) \in Nat /\ s.deleted \in Nat /\ S!NumNonempty(s) \in Nat
         /\ 10 * S!NumNonempty(s) <= 8 * s.n
<1>1. SType(s) /\ s.deleted = Cardinality(Markers(s)) /\ 10 * S!NumNonempty(s) <= 8 * s.n
  BY DEF SInv, SCounts
<1>2. /\ S!NumNonempty(s) = Cardinality(S!Used(s)) + Cardinality(Markers(s))
      /\ Cardinality(S!Used(s)) \in Nat /\ Cardinality(Markers(s)) \in Nat
  BY <1>1, SParts
<1>3. S!Size(s) = Cardinality(S!Used(s))
  BY <1>1, <1>2 DEF S!Size
<1> QED BY <1>1, <1>2, <1>3 DEF SInv, Loaded

\* insert_noresize, in a table with room for one element more.
LEMMA SInserted ==
  ASSUME NEW s, NEW d, SInv(s, d), 10 * (S!NumNonempty(s) + 1) <= 8 * s.n,
         NEW k \in Keys, NEW v \in Values
  PROVE  LET g == S!InsertNoResize(s, S!Element(k, v))
         IN  /\ SInv(g, Over(d, Single(k, v))) /\ g.n = s.n
             /\ S!NumNonempty(g) <= S!NumNonempty(s) + 1
<1> DEFINE item == S!Element(k, v)
           g == S!InsertNoResize(s, item)
           i == S!InsertPosition(s, k)
           U == S!Used(s)
<1>1. /\ SType(s) /\ Loaded(s) /\ s.deleted = Cardinality(Markers(s))
      /\ Sound(s.n, State(s), U, s.buckets)
      /\ Denotes(Stored(U, s.buckets), d)
      /\ S!NumNonempty(s) \in Nat
  BY SInvParts
<1>2. /\ s.n \in Nat /\ s.deleted \in Nat /\ s.shrink \in BOOLEAN
      /\ s.buckets \in [0 .. (s.n - 1) -> Buckets]
      /\ s = [n |-> s.n, buckets |-> s.buckets, deleted |-> s.deleted, shrink |-> s.shrink]
      /\ Markers(s) \in SUBSET (0 .. (s.n - 1))
      /\ IsFiniteSet(U) /\ IsFiniteSet(Markers(s))
      /\ S!NumNonempty(s) = Cardinality(U) + Cardinality(Markers(s))
      /\ Cardinality(U) \in Nat /\ Cardinality(Markers(s)) \in Nat
  BY <1>1, SParts
<1>3. item \in Buckets /\ item.key = k /\ item.val = v
  BY BucketStates
<1> HIDE DEF item
<1>4. CASE S!Position(s, k) # -1
  <2>1. g = s
    BY <1>3, <1>4 DEF S!InsertNoResize, S!IllegalBucket
  <2>2. PICK j \in U : s.buckets[j].key = k
    BY <1>1, <1>4, SPosition
  <2>3. s.buckets[j] \in Stored(U, s.buckets)
    BY <2>2 DEF Stored
  <2>4. Denotes(Stored(U, s.buckets), Over(d, Single(k, v)))
    BY <1>1, <2>2, <2>3, DenotesSame
  <2> HIDE DEF g
  <2> QED BY <1>1, <2>1, <2>4 DEF SInv, g, item
<1>5. CASE S!Position(s, k) = -1
  <2> DEFINE marked == S!Is(s, i, "deleted")
             less == IF marked THEN 1 ELSE 0
             buckets == [s.buckets EXCEPT ![i] = item]
  <2>1. /\ i \in 0 .. (s.n - 1) /\ Reached(s.n, State(s), i, Hash[k])
        /\ i \notin U /\ \A j \in U : s.buckets[j].key # k
    BY <1>1, <1>5, SInsertPosition
  <2>2. g = [s EXCEPT !.buckets[i] = item, !.deleted = @ - less]
    BY <1>3, <1>5 DEF S!InsertNoResize, S!IllegalBucket
  <2> HIDE DEF i, g
  <2>3. marked <=> i \in Markers(s)
    BY <2>1 DEF S!Is, Markers
  <2>4. s.deleted - less \in Nat
    <3>1. i \in Markers(s) => Cardinality(Markers(s)) # 0
      BY <1>2, FS_EmptySet
    <3> QED BY <1>1, <1>2, <2>3, <3>1
  <2> HIDE DEF less, marked
  <2>5. g = [n |-> s.n, buckets |-> buckets, deleted |-> s.deleted - less, shrink |-> s.shrink]
    BY <1>2, <2>2
  <2>6. SType(g)
    <3>1. buckets \in [0 .. (s.n - 1) -> Buckets]
      BY <1>2, <1>3
    <3>2. Power(s.n) /\ s.n >= MinBuckets
      BY <1>1, SParts
    <3> HIDE DEF buckets
    <3> QED BY <1>2, <2>4, <2>5, <3>1, <3>2 DEF SType
  <2>7. g.n = s.n /\ g.buckets = [s.buckets EXCEPT ![i] = S!Element(k, v)]
    BY <2>5 DEF item
  <2>8. /\ S!Used(g) = U \cup {i} /\ Markers(g) = Markers(s) \ {i}
        /\ Sound(g.n, State(g), S!Used(g), g.buckets)
        /\ Denotes(Stored(S!Used(g), g.buckets), Over(Single(k, v), d))
    <3>1. PutMakes(s, i, S!Element(k, v), g)
      <4>1. /\ \A j \in S!Used(s) : s.buckets[j].key = k => j = i
            /\ i \in S!Used(s) => s.buckets[i].key = k
        BY <2>1
      <4> QED BY <1>1, <2>1, <2>6, <2>7, <4>1, SBucketPut
    <3>2. Denotes(Stored(S!Used(g), g.buckets), Over(Single(k, v), d))
      <4>1. Stored(S!Used(g), g.buckets) = Stored(U \ {i}, s.buckets) \cup {S!Element(k, v)}
        BY <3>1 DEF PutMakes
      <4> QED BY <1>1, <2>1, <4>1, SBucketDenotes
    <3> QED BY <3>1, <3>2 DEF PutMakes
  <2>9. g.deleted = Cardinality(Markers(g))
    <3> HIDE DEF buckets
    <3>1. CASE marked
      <4>1. Cardinality(Markers(s) \ {i}) = Cardinality(Markers(s)) - 1
        BY <1>2, <2>3, <3>1, OneLess
      <4>2. less = 1
        BY <3>1 DEF less
      <4>3. g.deleted = s.deleted - 1
        BY <2>5, <4>2
      <4> QED BY <1>1, <2>8, <4>1, <4>3
    <3>2. CASE ~marked
      <4>1. Markers(s) \ {i} = Markers(s)
        BY <2>3, <3>2
      <4>2. less = 0
        BY <3>2 DEF less
      <4>3. g.deleted = s.deleted
        BY <1>2, <2>5, <4>2
      <4> QED BY <1>1, <2>8, <4>1, <4>3
    <3> QED BY <3>1, <3>2
  <2>10. S!NumNonempty(g) <= S!NumNonempty(s) + 1 /\ S!NumNonempty(g) \in Nat
    <3>1. Cardinality(U \cup {i}) = Cardinality(U) + 1
      BY <1>2, <2>1, OneMore
    <3>2. /\ S!NumNonempty(g) = Cardinality(S!Used(g)) + Cardinality(Markers(g))
          /\ Cardinality(S!Used(g)) \in Nat /\ Cardinality(Markers(g)) \in Nat
      BY <2>6, SParts
    <3>3. Cardinality(Markers(g)) <= Cardinality(Markers(s))
      BY <1>2, <2>8, FS_Subset
    <3> HIDE DEF U
    <3> QED BY <1>2, <2>8, <3>1, <3>2, <3>3
  <2>11. 10 * S!NumNonempty(g) <= 8 * g.n
    BY <1>1, <1>2, <2>7, <2>10
  <2>12. Over(Single(k, v), d) = Over(d, Single(k, v))
    <3>1. DOMAIN d = {z.key : z \in Stored(U, s.buckets)}
      BY <1>1 DEF Denotes
    <3>2. k \notin DOMAIN d
      BY <2>1, <3>1 DEF Stored
    <3> QED BY <3>2, OverAbsent
  <2> QED BY <2>6, <2>7, <2>8, <2>9, <2>10, <2>11, <2>12 DEF SInv, SCounts, g, item
<1> QED BY <1>4, <1>5

\* Elements erased, each leaving a marker.
LEMMA SErased ==
  ASSUME NEW s, NEW d, SInv(s, d), NEW range \in SUBSET S!Used(s)
  PROVE  SInv(S!EraseRange(s, range),
              Restrict(d, DOMAIN d \ {s.buckets[i].key : i \in range}))
<1> DEFINE g == S!EraseRange(s, range)
           U == S!Used(s)
           X == s.buckets
           ks == {X[i].key : i \in range}
           e == Restrict(d, DOMAIN d \ ks)
           buckets == [i \in DOMAIN X |-> IF i \in range THEN S!Marker ELSE X[i]]
<1>1. /\ SType(s) /\ s.deleted = Cardinality(Markers(s))
      /\ Sound(s.n, State(s), U, X) /\ Denotes(Stored(U, X), d)
      /\ S!NumNonempty(s) \in Nat /\ 10 * S!NumNonempty(s) <= 8 * s.n
  BY SInvParts
<1>2. /\ s.n \in Nat /\ Power(s.n) /\ s.n >= MinBuckets /\ s.deleted \in Nat /\ s.shrink \in BOOLEAN
      /\ X \in [0 .. (s.n - 1) -> Buckets] /\ DOMAIN X = 0 .. (s.n - 1)
      /\ s = [n |-> s.n, buckets |-> X, deleted |-> s.deleted, shrink |-> s.shrink]
      /\ U \in SUBSET (0 .. (s.n - 1)) /\ Markers(s) \in SUBSET (0 .. (s.n - 1))
      /\ U \cap Markers(s) = {}
      /\ IsFiniteSet(U) /\ IsFiniteSet(Markers(s))
      /\ S!NumNonempty(s) = Cardinality(U) + Cardinality(Markers(s))
      /\ Cardinality(U) \in Nat /\ Cardinality(Markers(s)) \in Nat
  BY <1>1, SParts
<1>3. IsFiniteSet(range) /\ Cardinality(range) \in Nat /\ Cardinality(range) <= Cardinality(U)
  BY <1>2, FS_Subset, FS_CardinalityType
<1>4. g = [n |-> s.n, buckets |-> buckets, deleted |-> s.deleted + Cardinality(range),
           shrink |-> TRUE]
  <2>1. g = [s EXCEPT !.buckets = buckets, !.deleted = @ + Cardinality(range), !.shrink = TRUE]
    BY InstanceCardinality DEF S!EraseRange
  <2> HIDE DEF g, buckets
  <2> QED BY <1>2, <2>1
<1> HIDE DEF g
<1>5. \A i \in 0 .. (s.n - 1) : buckets[i] = IF i \in range THEN S!Marker ELSE X[i]
  BY <1>2
<1>6. buckets \in [0 .. (s.n - 1) -> Buckets]
  BY <1>2 DEF Buckets
<1> HIDE DEF buckets
<1>7. SType(g)
  BY <1>2, <1>3, <1>4, <1>6 DEF SType
<1>8. g.n = s.n /\ g.buckets = buckets /\ g.deleted = s.deleted + Cardinality(range)
  BY <1>4
<1>9. ASSUME NEW i \in 0 .. (s.n - 1)
      PROVE  /\ i \in S!Used(g) <=> i \in U \ range
             /\ i \in Markers(g) <=> i \in Markers(s) \cup range
             /\ State(s)[i] # "empty" => State(g)[i] # "empty"
             /\ State(s)[i] = X[i].state /\ State(g)[i] = buckets[i].state
  <2>1. i \in 0 .. (g.n - 1)
    BY <1>8
  <2>2. /\ State(g)[i] = buckets[i].state
        /\ i \in S!Used(g) <=> State(g)[i] = "used"
        /\ i \in Markers(g) <=> State(g)[i] = "deleted"
    BY <1>7, <1>8, <2>1, StateFacts
  <2>3. /\ State(s)[i] = X[i].state
        /\ i \in U <=> State(s)[i] = "used"
        /\ i \in Markers(s) <=> State(s)[i] = "deleted"
    BY <1>1, StateFacts
  <2>4. CASE i \in range
    <3>1. State(g)[i] = "deleted"
      BY <1>5, <2>2, <2>4, BucketStates
    <3> HIDE DEF U
    <3> QED BY <2>2, <2>3, <2>4, <3>1
  <2>5. CASE i \notin range
    <3>1. State(g)[i] = State(s)[i]
      BY <1>5, <2>2, <2>3, <2>5
    <3> HIDE DEF U
    <3> QED BY <2>2, <2>3, <2>5, <3>1
  <2> QED BY <2>4, <2>5
<1>10. S!Used(g) = U \ range /\ Markers(g) = Markers(s) \cup range
  <2>1. S!Used(g) \in SUBSET (0 .. (s.n - 1)) /\ Markers(g) \in SUBSET (0 .. (s.n - 1))
    BY <1>7, <1>8, SParts
  <2> HIDE DEF U
  <2> QED BY <1>2, <1>9, <2>1 DEF U
<1>11. Cardinality(Markers(g)) = s.deleted + Cardinality(range)
  <2> DEFINE M == Markers(s)
  <2>1. Cardinality(M \cap range) = 0
    <3>1. M \cap range = {}
      BY <1>2
    <3> QED BY <3>1, FS_EmptySet
  <2>2. IsFiniteSet(M) /\ Cardinality(M) = s.deleted
    BY <1>1, <1>2
  <2>3. Markers(g) = M \cup range
    BY <1>10
  <2> HIDE DEF M
  <2>4. Cardinality(M \cup range) = Cardinality(M) + Cardinality(range) - Cardinality(M \cap range)
    BY <1>3, <2>2, FS_Union
  <2> QED BY <1>2, <1>3, <2>1, <2>2, <2>3, <2>4
<1>12. 10 * S!NumNonempty(g) <= 8 * g.n
  <2>1. Cardinality(U \ range) = Cardinality(U) - Cardinality(range)
    <3> HIDE DEF U
    <3>1. U \cap range = range
      BY DEF U
    <3>2. Cardinality(U \ range) = Cardinality(U) - Cardinality(U \cap range)
      BY <1>2, <1>3, FS_Difference
    <3> QED BY <3>1, <3>2
  <2>2. S!NumNonempty(g) = Cardinality(S!Used(g)) + Cardinality(Markers(g))
    BY <1>7, SParts
  <2>3. S!NumNonempty(g) = S!NumNonempty(s)
    <3> HIDE DEF U
    <3> QED BY <1>1, <1>2, <1>3, <1>10, <1>11, <2>1, <2>2
  <2> QED BY <1>1, <1>8, <2>3
<1>13. \A i \in U \ range : buckets[i] = X[i]
  BY <1>2, <1>5
<1>14. Sound(g.n, State(g), S!Used(g), g.buckets)
  <2>1. U \ range \in SUBSET U /\ U \ range \subseteq 0 .. (s.n - 1)
    BY <1>2
  <2> HIDE DEF U, X
  <2>2. \A i \in 0 .. (s.n - 1) : State(s)[i] # "empty" => State(g)[i] # "empty"
    BY <1>9
  <2>3. Sound(s.n, State(g), U \ range, buckets)
    BY <1>1, <1>2, <1>13, <2>1, <2>2, LessSound
  <2> QED BY <1>8, <1>10, <2>3
<1>15. Denotes(Stored(S!Used(g), g.buckets), e)
  <2> DEFINE Z == {X[i] : i \in U}
             W == {X[i] : i \in U \ range}
  <2>1. \A y \in Z : y.key \in ks <=> y \notin W
    <3> SUFFICES ASSUME NEW i \in U PROVE X[i].key \in ks <=> X[i] \notin W
      OBVIOUS
    <3>1. \A j \in U : X[i].key = X[j].key => i = j
      BY <1>1 DEF Sound
    <3>2. CASE i \in range
      <4>1. X[i].key \in ks
        BY <3>2
      <4>2. ASSUME X[i] \in W PROVE FALSE
        <5>1. PICK l \in U \ range : X[i] = X[l]
          BY <4>2
        <5> QED BY <3>1, <3>2, <5>1
      <4> QED BY <4>1, <4>2
    <3>3. CASE i \notin range
      <4>1. X[i] \in W
        BY <3>3
      <4>2. ASSUME X[i].key \in ks PROVE FALSE
        <5>1. PICK l \in range : X[i].key = X[l].key
          BY <4>2
        <5> QED BY <3>1, <3>3, <5>1
      <4> QED BY <4>1, <4>2
    <3> QED BY <3>2, <3>3
  <2>2. {buckets[i] : i \in U \ range} = W
    <3> HIDE DEF U, X
    <3> QED BY <1>13
  <2>3. W \in SUBSET Z /\ Denotes(Z, d)
    BY <1>1 DEF Stored
  <2> HIDE DEF W, Z, ks
  <2>4. Denotes(W, e)
    BY <2>1, <2>3, DenotesErase
  <2> QED BY <1>8, <1>10, <2>2, <2>4 DEF Stored
<1> QED BY <1>7, <1>8, <1>11, <1>12, <1>14, <1>15 DEF SInv, SCounts, g

LEMMA PowerProduct == \A a, b \in Nat : TwoTo[a] * TwoTo[b] = TwoTo[a + b]
<1> SUFFICES ASSUME NEW a \in Nat PROVE \A b \in Nat : TwoTo[a] * TwoTo[b] = TwoTo[a + b]
  OBVIOUS
<1> DEFINE Good == {b \in Nat : TwoTo[a] * TwoTo[b] = TwoTo[a + b]}
<1>1. 0 \in Good
  <2>1. TwoTo[0] = 1 /\ TwoTo[a] \in Nat /\ a + 0 = a
    BY PowerFacts, PowerExists
  <2> QED BY <2>1
<1>2. ASSUME NEW b \in Nat, b \in Good PROVE b + 1 \in Good
  <2> DEFINE x == TwoTo[a]
             y == TwoTo[b]
             z == TwoTo[a + b]
  <2>1. x \in Nat /\ y \in Nat /\ z \in Nat /\ x * y = z
    BY <1>2, PowerFacts
  <2>2. TwoTo[b + 1] = 2 * y /\ TwoTo[(a + b) + 1] = 2 * z /\ a + (b + 1) = (a + b) + 1
    BY PowerFacts
  <2> HIDE DEF x, y, z
  <2>3. x * (2 * y) = 2 * (x * y)
    BY <2>1
  <2>4. TwoTo[a] * TwoTo[b + 1] = TwoTo[a + (b + 1)]
    BY <2>1, <2>2, <2>3 DEF x
  <2> QED BY <2>4
<1>3. \A b \in Nat : b \in Good
  <2> HIDE DEF Good
  <2> QED BY <1>1, <1>2, SimpleInduction
<1> QED BY <1>3

LEMMA DoubledFacts ==
  ASSUME NEW b \in Nat
  PROVE  /\ S!Doubled(b) \in Nat /\ Power(S!Doubled(b)) /\ S!Doubled(b) >= MinBuckets
         /\ S!Doubled(b) > 4 * b
<1> DEFINE t == TwoTo[b]
           n == MinBuckets * t
<1>1. PICK a \in Nat : MinBuckets = TwoTo[a]
  BY MinBucketsFacts DEF Power
<1>2. t \in Nat \ {0} /\ t > b /\ MinBuckets \in Nat /\ MinBuckets >= 4
  BY PowerFacts, MinBucketsFacts
<1>3. n = TwoTo[a + b] /\ a + b \in Nat
  BY <1>1, PowerProduct
<1>4. S!Doubled(b) = n
  BY InstancePowers DEF S!Doubled
<1> HIDE DEF t
<1>5. n >= MinBuckets /\ n >= 4 * t /\ n \in Nat
  <2>1. t >= 1
    BY <1>2
  <2> QED BY <1>2, <2>1
<1> HIDE DEF n
<1> QED BY <1>2, <1>3, <1>4, <1>5 DEF Power

LEMMA MinSizeFacts ==
  ASSUME NEW m \in Nat, NEW wanted \in Nat
  PROVE  LET n == S!MinSize(m, wanted)
         IN  n \in Nat /\ Power(n) /\ n >= MinBuckets /\ n >= wanted /\ 10 * m < 8 * n
<1> DEFINE fits(b) == S!Fits(S!Doubled(b), m, wanted)
           Good(b) == fits(b) /\ \A c \in 0 .. (b - 1) : ~fits(c)
           T == {b \in Nat : fits(b)}
           b == CHOOSE b \in 0 .. (m + wanted) : Good(b)
<1>1. S!MinSize(m, wanted) = S!Doubled(b)
  BY DEF S!MinSize
<1>2. fits(m + wanted)
  <2>1. m + wanted \in Nat
    OBVIOUS
  <2>2. S!Doubled(m + wanted) \in Nat /\ S!Doubled(m + wanted) > 4 * (m + wanted)
    BY <2>1, DoubledFacts
  <2> QED BY <2>2 DEF S!Fits
<1> HIDE DEF fits
<1>3. m + wanted \in T /\ T \in SUBSET Nat
  BY <1>2
<1>4. PICK e \in T : \A c \in T : e <= c
  BY <1>3, LeastNatural
<1>5. e \in 0 .. (m + wanted) /\ fits(e)
  BY <1>3, <1>4
<1>6. ASSUME NEW c \in 0 .. (e - 1) PROVE ~fits(c)
  <2>1. c \in Nat /\ ~(e <= c)
    BY <1>5
  <2> QED BY <1>4, <2>1
<1>7. \E c \in 0 .. (m + wanted) : Good(c)
  BY <1>5, <1>6
<1> HIDE DEF Good
<1>8. b \in 0 .. (m + wanted) /\ Good(b)
  BY <1>7
<1> HIDE DEF b
<1>9. b \in Nat /\ fits(b)
  BY <1>8 DEF Good
<1>10. S!Doubled(b) \in Nat /\ Power(S!Doubled(b)) /\ S!Doubled(b) >= MinBuckets
  BY <1>9, DoubledFacts
<1> QED BY <1>1, <1>9, <1>10 DEF fits, S!Fits

LEMMA MinSizeLeast == S!MinSize(0, MinBuckets) = MinBuckets
<1> DEFINE fits(b) == S!Fits(S!Doubled(b), 0, MinBuckets)
           Good(b) == fits(b) /\ \A c \in 0 .. (b - 1) : ~fits(c)
           b == CHOOSE b \in 0 .. (0 + MinBuckets) : Good(b)
<1>1. S!MinSize(0, MinBuckets) = S!Doubled(b)
  BY DEF S!MinSize
<1>2. MinBuckets \in Nat /\ MinBuckets >= 4
  BY MinBucketsFacts
<1>3. S!Doubled(0) = MinBuckets
  <2>1. TwoTo[0] = 1
    BY PowerExists
  <2> QED BY <1>2, <2>1, InstancePowers DEF S!Doubled
<1>4. fits(0)
  BY <1>2, <1>3 DEF S!Fits
<1> HIDE DEF fits
<1>5. 0 \in 0 .. (0 + MinBuckets) /\ Good(0)
  BY <1>2, <1>4
<1>6. b \in 0 .. (0 + MinBuckets) /\ Good(b)
  <2> HIDE DEF Good
  <2> QED BY <1>5
<1> HIDE DEF b
<1>7. b = 0
  <2> SUFFICES ASSUME b # 0 PROVE FALSE
    OBVIOUS
  <2>1. 0 \in 0 .. (b - 1)
    BY <1>2, <1>6
  <2> QED BY <1>4, <1>6, <2>1
<1> QED BY <1>1, <1>3, <1>7

LEMMA SEmpty ==
  ASSUME NEW n \in Nat, Power(n), n >= MinBuckets
  PROVE  LET t == S!Empty(n)
         IN  /\ SInv(t, << >>) /\ t.n = n /\ t.deleted = 0 /\ t.shrink = FALSE
             /\ S!Used(t) = {} /\ Markers(t) = {}
<1> DEFINE t == S!Empty(n)
           buckets == [i \in 0 .. (n - 1) |-> S!Nothing]
<1>1. t = [n |-> n, buckets |-> buckets, deleted |-> 0, shrink |-> FALSE]
  BY DEF S!Empty
<1>2. buckets \in [0 .. (n - 1) -> Buckets]
  BY DEF Buckets
<1>3. SType(t)
  <2> HIDE DEF buckets
  <2> QED BY <1>1, <1>2 DEF SType
<1>4. S!Used(t) = {} /\ Markers(t) = {}
  BY BucketStates DEF S!Used, S!Is, Markers, S!Empty
<1>5. t.n = n /\ t.deleted = 0 /\ t.shrink = FALSE
  BY <1>1
<1> HIDE DEF t
<1>6. S!NumNonempty(t) = 0
  <2>1. S!NumNonempty(t) = Cardinality(S!Used(t)) + Cardinality(Markers(t))
    BY <1>3, SParts
  <2> QED BY <1>4, <2>1, FS_EmptySet
<1>7. SCounts(t)
  BY <1>4, <1>5, <1>6, FS_EmptySet DEF SCounts
<1>8. Sound(t.n, State(t), S!Used(t), t.buckets)
  BY <1>4 DEF Sound
<1>9. Stored(S!Used(t), t.buckets) = {}
  BY <1>4 DEF Stored
<1> QED BY <1>3, <1>4, <1>5, <1>7, <1>8, <1>9, DenotesNothing DEF SInv, t

LEMMA FirstEmptyFacts ==
  ASSUME NEW t, SType(t), 10 * S!NumNonempty(t) <= 8 * t.n, NEW k \in Keys
  PROVE  LET i == S!FirstEmpty(t, k)
         IN  i \in 0 .. (t.n - 1) /\ State(t)[i] = "empty" /\ Reached(t.n, State(t), i, Hash[k])
<1> DEFINE n == t.n
           T == {p \in 0 .. (n - 1) : S!Is(t, S!Probe(n, k, p), "empty")}
<1>1. n \in Nat \ {0} /\ Power(n) /\ Hash[k] \in Nat
  BY SParts, HashType
<1>2. \E e \in 0 .. (n - 1) : State(t)[e] = "empty"
  BY SRoom
<1>3. PICK p \in 0 .. (n - 1) : Hit(n, State(t), {}, t.buckets, k, p)
  BY <1>1, <1>2, HitExists
<1>4. /\ State(t)[Bucket(n, Hash[k], p)] = "empty"
      /\ \A r \in 0 .. (p - 1) : State(t)[Bucket(n, Hash[k], r)] # "empty"
  BY <1>3 DEF Hit, Stops
<1>5. ASSUME NEW r \in 0 .. (n - 1)
      PROVE  /\ Bucket(n, Hash[k], r) \in 0 .. (n - 1)
             /\ r \in T <=> State(t)[Bucket(n, Hash[k], r)] = "empty"
  <2>1. Bucket(n, Hash[k], r) \in 0 .. (n - 1)
    <3>1. r \in Nat
      BY <1>1
    <3> HIDE DEF n
    <3> QED BY <1>1, <3>1, BucketType
  <2>2. S!Probe(n, k, r) = Bucket(n, Hash[k], r)
    BY InstanceProbes
  <2> DEFINE i == Bucket(n, Hash[k], r)
  <2>3. State(t)[i] = t.buckets[i].state
    BY <2>1, StateFacts
  <2> QED BY <2>1, <2>2, <2>3 DEF S!Is
<1>6. T \in SUBSET Nat /\ T \in SUBSET (0 .. (n - 1))
  BY <1>1
<1>7. S!FirstEmpty(t, k) = S!Probe(n, k, Min(T))
  BY InstanceMin DEF S!FirstEmpty
<1> HIDE DEF T, n
<1>8. p \in T
  BY <1>4, <1>5
<1>9. ASSUME NEW r \in T PROVE p <= r
  <2> SUFFICES ASSUME r < p PROVE FALSE
    BY <1>1, <1>6
  <2>1. r \in 0 .. (p - 1) /\ r \in 0 .. (n - 1)
    BY <1>1, <1>6
  <2> QED BY <1>4, <1>5, <2>1
<1>10. S!FirstEmpty(t, k) = Bucket(n, Hash[k], p)
  BY <1>6, <1>7, <1>8, <1>9, MinIs, InstanceProbes
<1>11. Reached(n, State(t), Bucket(n, Hash[k], p), Hash[k])
  BY <1>4 DEF Reached
<1> QED BY <1>4, <1>5, <1>10, <1>11 DEF n

(***************************************************************************)
(* move_from: the elements of the first buckets of s, in a table t of n    *)
(* buckets that has room for all of them.                                  *)
(***************************************************************************)
Before(s, j) == {i \in S!Used(s) : i < j}

Source(s, n) == /\ SType(s) /\ Sound(s.n, State(s), S!Used(s), s.buckets)
                /\ n \in Nat /\ Power(n) /\ n >= MinBuckets
                /\ 10 * Cardinality(S!Used(s)) <= 8 * n

MoveInv(s, n, t, j) ==
  /\ SType(t) /\ t.n = n /\ t.deleted = 0 /\ t.shrink = FALSE /\ Markers(t) = {}
  /\ Stored(S!Used(t), t.buckets) = Stored(Before(s, j), s.buckets)
  /\ Cardinality(S!Used(t)) = Cardinality(Before(s, j))
  /\ Sound(n, State(t), S!Used(t), t.buckets)

LEMMA BeforeFacts ==
  ASSUME NEW s, SType(s), NEW j \in Nat
  PROVE  /\ Before(s, j) \in SUBSET S!Used(s) /\ IsFiniteSet(Before(s, j))
         /\ Cardinality(Before(s, j)) \in Nat
         /\ Cardinality(Before(s, j)) <= Cardinality(S!Used(s))
<1>1. IsFiniteSet(S!Used(s)) /\ Cardinality(S!Used(s)) \in Nat
  BY SParts
<1>2. Before(s, j) \in SUBSET S!Used(s)
  BY DEF Before
<1> QED BY <1>1, <1>2, FS_Subset, FS_CardinalityType

LEMMA MoveElementFacts ==
  ASSUME NEW s, NEW n, Source(s, n), NEW j \in 0 .. (s.n - 1), NEW t, MoveInv(s, n, t, j)
  PROVE  MoveInv(s, n, S!MoveElement(t, s, j), j + 1)
<1> DEFINE g == S!MoveElement(t, s, j)
           U == S!Used(t)
           X == s.buckets
<1>1. /\ SType(s) /\ Sound(s.n, State(s), S!Used(s), X)
      /\ n \in Nat /\ Power(n) /\ n >= MinBuckets
      /\ 10 * Cardinality(S!Used(s)) <= 8 * n
  BY DEF Source
<1>2. /\ SType(t) /\ t.n = n /\ t.deleted = 0 /\ t.shrink = FALSE /\ Markers(t) = {}
      /\ Stored(U, t.buckets) = Stored(Before(s, j), X)
      /\ Cardinality(U) = Cardinality(Before(s, j))
      /\ Sound(n, State(t), U, t.buckets)
  BY DEF MoveInv
<1>3. /\ s.n \in Nat /\ S!Used(s) \in SUBSET (0 .. (s.n - 1)) /\ Cardinality(S!Used(s)) \in Nat
      /\ X \in [0 .. (s.n - 1) -> Buckets]
  BY <1>1, SParts
<1>4. j \in Nat
  BY <1>3
<1>5. CASE j \notin S!Used(s)
  <2>1. g = t
    BY <1>5 DEF S!MoveElement
  <2>2. Before(s, j + 1) = Before(s, j)
    BY <1>3, <1>4, <1>5 DEF Before
  <2> HIDE DEF g, U
  <2> QED BY <1>2, <2>1, <2>2 DEF MoveInv, g, U
<1>6. CASE j \in S!Used(s)
  <2> DEFINE item == X[j]
             k == item.key
             i == S!FirstEmpty(t, k)
             buckets == [t.buckets EXCEPT ![i] = item]
  <2>1. item \in Buckets /\ item.state = "used"
    BY <1>3, <1>6 DEF S!Used, S!Is
  <2>2. item = S!Element(k, item.val) /\ k \in Keys /\ item.val \in Values
    BY <2>1, BucketStates DEF Buckets, S!Element, S!Nothing, S!Marker
  <2>3. g = [t EXCEPT !.buckets[i] = item]
    BY <1>6 DEF S!MoveElement
  <2> HIDE DEF item, i, g
  <2>4. 10 * S!NumNonempty(t) <= 8 * t.n
    <3>1. S!NumNonempty(t) = Cardinality(U) + Cardinality(Markers(t)) /\ Cardinality(U) \in Nat
      BY <1>2, SParts
    <3>2. Cardinality(Markers(t)) = 0
      BY <1>2, FS_EmptySet
    <3>3. Cardinality(U) <= Cardinality(S!Used(s))
      BY <1>1, <1>2, <1>4, BeforeFacts
    <3> HIDE DEF U
    <3> QED BY <1>1, <1>2, <1>3, <3>1, <3>2, <3>3
  <2>5. i \in 0 .. (t.n - 1) /\ State(t)[i] = "empty" /\ Reached(t.n, State(t), i, Hash[k])
    BY <1>2, <2>2, <2>4, FirstEmptyFacts DEF i
  <2>6. i \notin U
    BY <1>2, <2>5, StateFacts
  <2>7. /\ t.buckets \in [0 .. (t.n - 1) -> Buckets]
        /\ t = [n |-> t.n, buckets |-> t.buckets, deleted |-> t.deleted, shrink |-> t.shrink]
        /\ IsFiniteSet(U)
    BY <1>2, SParts
  <2>8. g = [n |-> n, buckets |-> buckets, deleted |-> 0, shrink |-> FALSE]
    BY <1>2, <2>3, <2>7
  <2>9. buckets \in [0 .. (n - 1) -> Buckets]
    BY <1>2, <2>1, <2>7
  <2>10. SType(g)
    <3> HIDE DEF buckets
    <3> QED BY <1>1, <2>8, <2>9 DEF SType
  <2>11. g.n = t.n /\ g.buckets = [t.buckets EXCEPT ![i] = S!Element(k, item.val)]
         /\ g.deleted = 0 /\ g.shrink = FALSE
    BY <1>2, <2>2, <2>8
  <2>12. ASSUME NEW l \in U PROVE t.buckets[l].key # k
    <3>1. t.buckets[l] \in Stored(Before(s, j), X)
      <4>1. t.buckets[l] \in Stored(U, t.buckets)
        BY DEF Stored
      <4> QED BY <1>2, <4>1
    <3>2. PICK m \in Before(s, j) : t.buckets[l] = X[m]
      BY <3>1 DEF Stored
    <3>3. m \in S!Used(s) /\ m # j
      BY <1>3, <1>4, <3>2 DEF Before
    <3> QED BY <1>1, <1>6, <3>2, <3>3 DEF Sound, item
  <2> HIDE DEF buckets
  <2>13. PutMakes(t, i, S!Element(k, item.val), g)
    <3>1. /\ \A l \in S!Used(t) : t.buckets[l].key = k => l = i
          /\ i \in S!Used(t) => t.buckets[i].key = k
          /\ Sound(t.n, State(t), S!Used(t), t.buckets)
      BY <1>2, <2>6, <2>12
    <3> QED BY <1>2, <2>2, <2>5, <2>10, <2>11, <3>1, SBucketPut
  <2>14. /\ S!Used(g) = U \cup {i} /\ Markers(g) = Markers(t) \ {i}
         /\ Sound(g.n, State(g), S!Used(g), g.buckets)
         /\ Stored(S!Used(g), g.buckets) = Stored(U \ {i}, t.buckets) \cup {item}
    BY <2>2, <2>13 DEF PutMakes
  <2>15. Before(s, j + 1) = Before(s, j) \cup {j} /\ j \notin Before(s, j)
    BY <1>3, <1>4, <1>6 DEF Before
  <2>16. Stored(Before(s, j + 1), X) = Stored(Before(s, j), X) \cup {item}
    BY <2>15 DEF Stored, item
  <2>17. U \ {i} = U
    BY <2>6
  <2>18. Stored(S!Used(g), g.buckets) = Stored(Before(s, j + 1), X)
    <3> HIDE DEF U, X
    <3> QED BY <1>2, <2>14, <2>16, <2>17
  <2>19. Cardinality(S!Used(g)) = Cardinality(Before(s, j + 1))
    <3>1. Cardinality(U \cup {i}) = Cardinality(U) + 1
      BY <2>6, <2>7, OneMore
    <3>2. IsFiniteSet(Before(s, j))
      BY <1>1, <1>4, BeforeFacts
    <3>3. Cardinality(Before(s, j) \cup {j}) = Cardinality(Before(s, j)) + 1
      BY <2>15, <3>2, OneMore
    <3> HIDE DEF U
    <3> QED BY <1>2, <2>14, <2>15, <3>1, <3>3
  <2>20. Markers(g) = {}
    BY <1>2, <2>14
  <2> QED BY <1>2, <2>10, <2>11, <2>14, <2>18, <2>19, <2>20 DEF MoveInv, g
<1> QED BY <1>5, <1>6

LEMMA SMoved ==
  ASSUME NEW s, NEW d, NEW n, Source(s, n), Denotes(Stored(S!Used(s), s.buckets), d)
  PROVE  LET g == S!Moved(s, n)
         IN  SInv(g, d) /\ g.n = n /\ S!NumNonempty(g) = Cardinality(S!Used(s))
<1> DEFINE m == s.n
           D == [n : {n}, buckets : [0 .. (n - 1) -> Buckets], deleted : {0}, shrink : {FALSE}]
           Body(f, j) == IF j = 0 THEN S!Empty(n) ELSE S!MoveElement(f[j - 1], s, j - 1)
           Past == CHOOSE f : f = [j \in 0 .. m |-> Body(f, j)]
<1>1. /\ SType(s) /\ n \in Nat /\ Power(n) /\ n >= MinBuckets
      /\ 10 * Cardinality(S!Used(s)) <= 8 * n
  BY DEF Source
<1>2. /\ m \in Nat /\ S!Used(s) \in SUBSET (0 .. (m - 1)) /\ s.buckets \in [0 .. (m - 1) -> Buckets]
      /\ Cardinality(S!Used(s)) \in Nat
  BY <1>1, SParts
<1>3. S!Moved(s, n) = Past[m]
  BY DEF S!Moved
<1>4. S!Empty(n) \in D
  BY DEF S!Empty, Buckets
<1>5. ASSUME NEW q \in D, NEW j \in 1 .. m PROVE S!MoveElement(q, s, j - 1) \in D
  <2>1. CASE j - 1 \notin S!Used(s)
    BY <2>1 DEF S!MoveElement
  <2>2. CASE j - 1 \in S!Used(s)
    <3> DEFINE item == s.buckets[j - 1]
               i == S!FirstEmpty(q, item.key)
               buckets == [q.buckets EXCEPT ![i] = item]
    <3>1. item \in Buckets
      BY <1>2, <2>2
    <3> DEFINE t == S!MoveElement(q, s, j - 1)
    <3>2. t = [q EXCEPT !.buckets[i] = item]
      BY <2>2 DEF S!MoveElement
    <3> HIDE DEF item, i, t
    <3>3. q = [n |-> n, buckets |-> q.buckets, deleted |-> 0, shrink |-> FALSE]
          /\ q.buckets \in [0 .. (n - 1) -> Buckets]
      OBVIOUS
    <3>4. t = [n |-> n, buckets |-> buckets, deleted |-> 0, shrink |-> FALSE]
      BY <3>2, <3>3
    <3>5. buckets \in [0 .. (n - 1) -> Buckets]
      BY <3>1, <3>3
    <3> HIDE DEF buckets
    <3>6. t \in D
      BY <3>4, <3>5
    <3> QED BY <3>6 DEF t
  <2> QED BY <2>1, <2>2
<1> HIDE DEF m
<1>6. \E f : f = [j \in 0 .. m |-> Body(f, j)]
  <2> DEFINE G == [p \in D \X (1 .. m) |-> S!MoveElement(p[1], s, p[2] - 1)]
  <2> HIDE DEF D
  <2>1. \A q \in D, j \in 1 .. m : G[<<q, j>>] = S!MoveElement(q, s, j - 1)
    OBVIOUS
  <2>2. G \in [D \X (1 .. m) -> D] /\ S!Empty(n) \in D
    BY <1>4, <1>5
  <2> HIDE DEF G
  <2>3. PICK f \in [0 .. m -> D] : Turns(m, S!Empty(n), G, f)
    BY <1>2, <2>2, TurnsExist
  <2>4. ASSUME NEW j \in 0 .. m PROVE f[j] = Body(f, j)
    <3>1. CASE j = 0
      BY <2>3, <3>1 DEF Turns
    <3>2. CASE j # 0
      <4>1. j - 1 \in 0 .. m /\ j \in 1 .. m
        BY <1>2, <3>2
      <4>2. f[j - 1] \in D
        BY <4>1
      <4> QED BY <2>1, <2>3, <3>2, <4>1, <4>2 DEF Turns
    <3> QED BY <3>1, <3>2
  <2> HIDE DEF Body
  <2>5. f = [j \in 0 .. m |-> Body(f, j)]
    BY <2>4
  <2> QED BY <2>5
<1>7. ASSUME NEW j \in 0 .. m PROVE Past[j] = Body(Past, j)
  <2> HIDE DEF Body
  <2>1. Past = [i \in 0 .. m |-> Body(Past, i)]
    BY <1>6
  <2> HIDE DEF Past
  <2> QED BY <2>1
<1> HIDE DEF Past, D
<1> DEFINE Counts == {j \in Nat : j <= m => MoveInv(s, n, Past[j], j)}
<1>8. 0 \in Counts
  <2> DEFINE t == S!Empty(n)
  <2>1. Past[0] = t
    BY <1>2, <1>7
  <2>2. /\ SInv(t, << >>) /\ t.n = n /\ t.deleted = 0 /\ t.shrink = FALSE
        /\ S!Used(t) = {} /\ Markers(t) = {}
    BY <1>1, SEmpty
  <2> HIDE DEF t
  <2>3. Before(s, 0) = {}
    BY <1>2 DEF Before, m
  <2>4. SType(t) /\ Sound(n, State(t), S!Used(t), t.buckets)
    BY <2>2 DEF SInv
  <2>5. MoveInv(s, n, t, 0)
    BY <2>2, <2>3, <2>4 DEF MoveInv, Stored
  <2> QED BY <2>1, <2>5
<1>9. ASSUME NEW j \in Nat, j \in Counts PROVE j + 1 \in Counts
  <2> SUFFICES ASSUME j + 1 <= m PROVE MoveInv(s, n, Past[j + 1], j + 1)
    OBVIOUS
  <2>1. j + 1 \in 0 .. m /\ j + 1 # 0 /\ (j + 1) - 1 = j /\ j <= m /\ j \in 0 .. (m - 1)
    BY <1>2
  <2>2. Past[j + 1] = S!MoveElement(Past[j], s, j)
    BY <1>7, <2>1
  <2>3. MoveInv(s, n, Past[j], j)
    BY <1>9, <2>1
  <2> QED BY <2>1, <2>2, <2>3, MoveElementFacts DEF m
<1> DEFINE g == Past[m]
<1>10. MoveInv(s, n, g, m)
  <2> HIDE DEF Counts
  <2>1. \A j \in Nat : j \in Counts
    BY <1>8, <1>9, SimpleInduction
  <2> QED BY <1>2, <2>1 DEF Counts
<1> HIDE DEF g
<1>11. Before(s, m) = S!Used(s)
  BY <1>2 DEF Before
<1>12. /\ SType(g) /\ g.n = n /\ g.deleted = 0 /\ Markers(g) = {}
       /\ Stored(S!Used(g), g.buckets) = Stored(S!Used(s), s.buckets)
       /\ Cardinality(S!Used(g)) = Cardinality(S!Used(s))
       /\ Sound(n, State(g), S!Used(g), g.buckets)
  BY <1>10, <1>11 DEF MoveInv
<1>13. S!NumNonempty(g) = Cardinality(S!Used(s))
  <2>1. S!NumNonempty(g) = Cardinality(S!Used(g)) + Cardinality(Markers(g))
    BY <1>12, SParts
  <2>2. Cardinality(Markers(g)) = 0
    BY <1>12, FS_EmptySet
  <2> QED BY <1>2, <1>12, <2>1, <2>2
<1>14. SInv(g, d)
  <2>1. SCounts(g)
    BY <1>1, <1>12, <1>13, FS_EmptySet DEF SCounts
  <2> QED BY <1>12, <2>1 DEF SInv
<1> QED BY <1>3, <1>12, <1>13, <1>14 DEF g

LEMMA SMoveDontCopy ==
  ASSUME NEW s, NEW d, SInv(s, d), NEW wanted \in Nat
  PROVE  LET g == S!MoveDontCopy(s, wanted)
         IN  SInv(g, d) /\ g.n \in Nat /\ g.n >= wanted /\ S!NumNonempty(g) = S!Size(s)
<1> DEFINE n == S!MinSize(S!Size(s), wanted)
           g == S!Moved(s, n)
<1>1. /\ SType(s) /\ Sound(s.n, State(s), S!Used(s), s.buckets)
      /\ Denotes(Stored(S!Used(s), s.buckets), d)
      /\ S!Size(s) = Cardinality(S!Used(s)) /\ S!Size(s) \in Nat
  BY SInvParts
<1>2. n \in Nat /\ Power(n) /\ n >= MinBuckets /\ n >= wanted /\ 10 * S!Size(s) < 8 * n
  BY <1>1, MinSizeFacts
<1> HIDE DEF n
<1>3. 10 * S!Size(s) <= 8 * n
  BY <1>1, <1>2
<1>4. Source(s, n)
  BY <1>1, <1>2, <1>3 DEF Source
<1>5. SInv(g, d) /\ g.n = n /\ S!NumNonempty(g) = Cardinality(S!Used(s))
  BY <1>1, <1>4, SMoved
<1> QED BY <1>1, <1>2, <1>5 DEF S!MoveDontCopy, n

\* Only consider_shrink changes.
LEMMA SConsiderShrink ==
  ASSUME NEW s, NEW d, SInv(s, d)
  PROVE  LET g == [s EXCEPT !.shrink = FALSE]
         IN  SInv(g, d) /\ g.n = s.n /\ S!NumNonempty(g) = S!NumNonempty(s)
<1> DEFINE g == [s EXCEPT !.shrink = FALSE]
<1>1. SType(s)
  BY DEF SInv
<1>2. s = [n |-> s.n, buckets |-> s.buckets, deleted |-> s.deleted, shrink |-> s.shrink]
  BY <1>1, SParts
<1>3. g = [n |-> s.n, buckets |-> s.buckets, deleted |-> s.deleted, shrink |-> FALSE]
  <2>1. g = [s EXCEPT !.shrink = FALSE]
    OBVIOUS
  <2> HIDE DEF g
  <2> QED BY <1>2, <2>1
<1> HIDE DEF g
<1>4. g.n = s.n /\ g.buckets = s.buckets /\ g.deleted = s.deleted
  BY <1>3
<1>5. SType(g)
  BY <1>1, <1>3 DEF SType
<1>6. /\ S!Used(g) = S!Used(s) /\ Markers(g) = Markers(s) /\ State(g) = State(s)
      /\ S!NumNonempty(g) = S!NumNonempty(s)
  BY <1>4 DEF S!Used, S!Is, Markers, State, S!NumNonempty
<1> QED BY <1>4, <1>5, <1>6 DEF SInv, SCounts, g

\* maybe_shrink
LEMMA SShrunk ==
  ASSUME NEW s, NEW d, SInv(s, d)
  PROVE  LET g == S!Shrunk(s)
         IN  SInv(g, d) /\ S!NumNonempty(g) <= S!NumNonempty(s)
<1> DEFINE g == S!Shrunk(s)
           fits == {n \in MinBuckets .. (s.n - 1) :
                      n = S!MinSize(0, n) /\ (n = MinBuckets \/ 100 * S!Size(s) > 32 * n)}
           shrinks == S!Size(s) <= S!ShrinkThreshold(s.n) /\ s.n > MinBuckets
<1>1. /\ SType(s) /\ S!NumNonempty(s) = S!Size(s) + s.deleted
      /\ S!Size(s) \in Nat /\ s.deleted \in Nat /\ S!NumNonempty(s) \in Nat
  BY SInvParts
<1>2. s.n \in Nat /\ MinBuckets \in Nat
  BY <1>1, SParts, MinBucketsFacts
<1>3. g = IF shrinks THEN S!MoveDontCopy(s, S!Max(fits)) ELSE [s EXCEPT !.shrink = FALSE]
  BY DEF S!Shrunk
<1> HIDE DEF g
<1>4. CASE shrinks
  <2>1. MinBuckets \in fits
    BY <1>2, <1>4, MinSizeLeast
  <2>2. fits \in SUBSET (0 .. s.n)
    BY <1>2
  <2> HIDE DEF fits
  <2>3. Max(fits) \in fits
    BY <1>2, <2>1, <2>2, GreatestNatural
  <2>4. S!Max(fits) \in Nat
    <3>1. Max(fits) \in 0 .. s.n
      BY <2>2, <2>3
    <3>2. Max(fits) \in Nat
      BY <1>2, <3>1
    <3> QED BY <3>2, InstanceMax
  <2>5. SInv(g, d) /\ S!NumNonempty(g) = S!Size(s)
    BY <1>3, <1>4, <2>4, SMoveDontCopy
  <2> QED BY <1>1, <2>5 DEF g
<1>5. CASE ~shrinks
  <2>1. SInv(g, d) /\ S!NumNonempty(g) = S!NumNonempty(s)
    BY <1>3, <1>5, SConsiderShrink
  <2> QED BY <1>1, <2>1 DEF g
<1> QED BY <1>4, <1>5

\* resize_delta makes room for delta more elements.
LEMMA SResizeDelta ==
  ASSUME NEW s, NEW d, SInv(s, d), NEW delta \in Nat
  PROVE  LET g == S!ResizeDelta(s, delta)
         IN  SInv(g, d) /\ 10 * (S!NumNonempty(g) + delta) <= 8 * g.n
<1> DEFINE t == S!Considered(s)
           m == S!NumNonempty(t) + delta
           wanted == S!MinSize(m, 0)
           g == S!Enlarged(t, delta)
<1>1. SInv(t, d)
  BY SShrunk DEF S!Considered
<1>2. g = S!ResizeDelta(s, delta)
  BY DEF S!ResizeDelta
<1> HIDE DEF t
<1>3. /\ SType(t) /\ S!NumNonempty(t) = S!Size(t) + t.deleted
      /\ S!Size(t) \in Nat /\ t.deleted \in Nat /\ S!NumNonempty(t) \in Nat
  BY <1>1, SInvParts
<1>4. t.n \in Nat
  BY <1>3, SParts
<1>5. m \in Nat /\ 0 \in Nat
  BY <1>3
<1>6. wanted \in Nat /\ 10 * m < 8 * wanted
  <2> HIDE DEF m
  <2> QED BY <1>5, MinSizeFacts
<1>7. g = IF m <= S!EnlargeThreshold(t.n) \/ wanted <= t.n THEN t ELSE S!MoveDontCopy(t, wanted)
  BY DEF S!Enlarged
<1> HIDE DEF g, wanted
<1>8. CASE m <= S!EnlargeThreshold(t.n)
  <2>1. 10 * m <= 8 * t.n
    <3> HIDE DEF m
    <3> QED BY <1>4, <1>5, <1>8 DEF S!EnlargeThreshold
  <2> QED BY <1>1, <1>2, <1>7, <1>8, <2>1
<1>9. CASE wanted <= t.n
  <2>1. 10 * m <= 8 * t.n
    <3> HIDE DEF m
    <3> QED BY <1>4, <1>5, <1>6, <1>9
  <2> QED BY <1>1, <1>2, <1>7, <1>9, <2>1
<1>10. CASE ~(m <= S!EnlargeThreshold(t.n) \/ wanted <= t.n)
  <2>1. g = S!MoveDontCopy(t, wanted)
    BY <1>7, <1>10
  <2>2. SInv(g, d) /\ g.n \in Nat /\ g.n >= wanted /\ S!NumNonempty(g) = S!Size(t)
    BY <1>1, <1>6, <2>1, SMoveDontCopy
  <2>3. S!NumNonempty(g) + delta <= m
    BY <1>3, <2>2
  <2>4. 10 * (S!NumNonempty(g) + delta) <= 8 * g.n
    <3>1. S!NumNonempty(g) \in Nat
      BY <1>3, <2>2
    <3> HIDE DEF m
    <3> QED BY <1>5, <1>6, <2>2, <2>3, <3>1
  <2> QED BY <1>2, <2>2, <2>4
<1> QED BY <1>8, <1>9, <1>10

\* insert
LEMMA SInsertFacts ==
  ASSUME NEW s, NEW d, SInv(s, d), NEW k \in Keys, NEW v \in Values
  PROVE  SInv(S!Insert(s, S!Element(k, v)), Over(d, Single(k, v)))
<1> DEFINE t == S!ResizeDelta(s, 1)
<1>1. SInv(t, d) /\ 10 * (S!NumNonempty(t) + 1) <= 8 * t.n
  BY SResizeDelta
<1> HIDE DEF t
<1>2. SInv(S!InsertNoResize(t, S!Element(k, v)), Over(d, Single(k, v)))
  BY <1>1, SInserted
<1> QED BY <1>2 DEF S!Insert, t

\* operator[] and an assignment
LEMMA SAssigned ==
  ASSUME NEW s, NEW d, SInv(s, d), NEW k \in Keys, NEW v \in Values
  PROVE  SInv(S!AssignAt(s, k, v), Over(Single(k, v), d))
<1> DEFINE absent == S!Find(s, k) = -1
           t == IF absent THEN S!Insert(s, S!Element(k, v)) ELSE s
           e == IF absent THEN Over(d, Single(k, v)) ELSE d
           i == S!Find(t, k)
           U == S!Used(t)
           g == S!AssignAt(s, k, v)
<1>1. SInv(t, e)
  BY SInsertFacts
<1>2. g = [t EXCEPT !.buckets[i].val = v]
  BY DEF S!AssignAt, S!IllegalBucket
<1>3. k \in DOMAIN e
  <2>1. CASE absent
    BY <2>1 DEF Over, Single
  <2>2. CASE ~absent
    <3>1. Loaded(s) /\ s.deleted = Cardinality(Markers(s)) /\ Denotes(Stored(S!Used(s), s.buckets), d)
      BY SInvParts
    <3>2. S!Find(s, k) \in S!Used(s) /\ s.buckets[S!Find(s, k)].key = k
      BY <2>2, <3>1, SFindKey
    <3>3. k \in {z.key : z \in Stored(S!Used(s), s.buckets)}
      BY <3>2 DEF Stored
    <3> QED BY <2>2, <3>1, <3>3 DEF Denotes
  <2> QED BY <2>1, <2>2
<1>4. Over(Single(k, v), e) = Over(Single(k, v), d)
  BY OverTwice
<1> HIDE DEF absent, t, e, g
<1>5. /\ SType(t) /\ Loaded(t) /\ t.deleted = Cardinality(Markers(t))
      /\ Sound(t.n, State(t), U, t.buckets)
      /\ Denotes(Stored(U, t.buckets), e)
      /\ 10 * S!NumNonempty(t) <= 8 * t.n
  BY <1>1, SInvParts
<1>6. i \in U /\ t.buckets[i].key = k /\ \A j \in U : t.buckets[j].key = k => j = i
  <2>1. k \in {z.key : z \in Stored(U, t.buckets)}
    BY <1>3, <1>5 DEF Denotes
  <2>2. PICK j \in U : t.buckets[j].key = k
    BY <2>1 DEF Stored
  <2>3. /\ i = -1 \/ (i \in U /\ t.buckets[i].key = k)
        /\ \A l \in U : t.buckets[l].key = k => l = i
        /\ -1 \notin U
    BY <1>5, SFindKey
  <2>4. i = j
    BY <2>2, <2>3
  <2> QED BY <2>2, <2>3, <2>4
<1> HIDE DEF i
<1>7. /\ t.n \in Nat /\ t.deleted \in Nat /\ t.shrink \in BOOLEAN
      /\ t.buckets \in [0 .. (t.n - 1) -> Buckets]
      /\ t = [n |-> t.n, buckets |-> t.buckets, deleted |-> t.deleted, shrink |-> t.shrink]
      /\ U \in SUBSET (0 .. (t.n - 1)) /\ Power(t.n) /\ t.n >= MinBuckets
      /\ U \cap Markers(t) = {}
      /\ S!NumNonempty(t) = Cardinality(U) + Cardinality(Markers(t))
  BY <1>5, SParts
<1>8. i \in 0 .. (t.n - 1) /\ Reached(t.n, State(t), i, Hash[k])
  BY <1>5, <1>6, <1>7 DEF Sound
<1>9. [t.buckets[i] EXCEPT !.val = v] = S!Element(k, v)
  <2>1. t.buckets[i] \in Buckets /\ t.buckets[i].state = "used"
    BY <1>6, <1>7 DEF S!Used, S!Is
  <2>2. PICK w \in Values : t.buckets[i] = [state |-> "used", key |-> k, val |-> w]
    BY <1>6, <2>1 DEF Buckets, S!Nothing, S!Marker
  <2> QED BY <2>2 DEF S!Element
<1> DEFINE buckets == [t.buckets EXCEPT ![i] = S!Element(k, v)]
<1>10. g = [n |-> t.n, buckets |-> buckets, deleted |-> t.deleted, shrink |-> t.shrink]
  <2>1. [t.buckets EXCEPT ![i].val = v] = buckets
    BY <1>7, <1>8, <1>9
  <2> QED BY <1>2, <1>7, <2>1
<1>11. SType(g)
  <2>1. buckets \in [0 .. (t.n - 1) -> Buckets]
    BY <1>7, BucketStates
  <2> HIDE DEF buckets
  <2> QED BY <1>7, <1>10, <2>1 DEF SType
<1>12. g.n = t.n /\ g.buckets = [t.buckets EXCEPT ![i] = S!Element(k, v)] /\ g.deleted = t.deleted
  BY <1>10
<1>13. PutMakes(t, i, S!Element(k, v), g)
  BY <1>5, <1>6, <1>8, <1>11, <1>12, SBucketPut
<1>14. /\ S!Used(g) = U /\ Markers(g) = Markers(t)
       /\ Sound(g.n, State(g), S!Used(g), g.buckets)
       /\ Stored(S!Used(g), g.buckets) = Stored(U \ {i}, t.buckets) \cup {S!Element(k, v)}
  BY <1>6, <1>7, <1>13 DEF PutMakes
<1>15. Denotes(Stored(S!Used(g), g.buckets), Over(Single(k, v), e))
  BY <1>5, <1>6, <1>8, <1>14, SBucketDenotes
<1>16. SCounts(g)
  <2>1. S!NumNonempty(g) = Cardinality(S!Used(g)) + Cardinality(Markers(g))
    BY <1>11, SParts
  <2> HIDE DEF U
  <2> QED BY <1>5, <1>7, <1>12, <1>14, <2>1 DEF SCounts
<1> QED BY <1>4, <1>11, <1>14, <1>15, <1>16 DEF SInv, g

\* erase
LEMMA SErasedKey ==
  ASSUME NEW s, NEW d, SInv(s, d), NEW k \in Keys
  PROVE  SInv(S!EraseKey(s, k), Restrict(d, DOMAIN d \ {k}))
<1> DEFINE i == S!Find(s, k)
           g == S!EraseKey(s, k)
           e == Restrict(d, DOMAIN d \ {k})
           Z == Stored(S!Used(s), s.buckets)
<1>1. SType(s) /\ Loaded(s) /\ s.deleted = Cardinality(Markers(s)) /\ Denotes(Z, d)
  BY SInvParts
<1>2. /\ i = -1 \/ (i \in S!Used(s) /\ s.buckets[i].key = k)
      /\ \A j \in S!Used(s) : s.buckets[j].key = k => j = i
      /\ -1 \notin S!Used(s)
  BY <1>1, SFindKey
<1>3. CASE i = -1
  <2>1. g = s
    BY <1>3 DEF S!EraseKey, S!IllegalBucket
  <2>2. \A y \in Z : (y.key \in {k}) <=> y \notin Z
    <3>1. \A j \in S!Used(s) : s.buckets[j].key # k
      BY <1>2, <1>3
    <3> QED BY <3>1 DEF Stored
  <2> HIDE DEF Z, g, i
  <2>3. Denotes(Z, e)
    BY <1>1, <2>2, DenotesErase
  <2> QED BY <2>1, <2>3 DEF SInv, Z, g
<1>4. CASE i # -1
  <2> DEFINE h == S!EraseRange(s, {i})
             buckets == [j \in DOMAIN s.buckets |-> IF j \in {i} THEN S!Marker ELSE s.buckets[j]]
  <2>1. i \in S!Used(s) /\ s.buckets[i].key = k
    BY <1>2, <1>4
  <2>2. /\ s.n \in Nat /\ s.deleted \in Nat
        /\ s.buckets \in [0 .. (s.n - 1) -> Buckets]
        /\ s = [n |-> s.n, buckets |-> s.buckets, deleted |-> s.deleted, shrink |-> s.shrink]
        /\ i \in 0 .. (s.n - 1)
    BY <1>1, <2>1, SParts
  <2>3. g = [s EXCEPT !.buckets[i] = S!Marker, !.deleted = @ + 1, !.shrink = TRUE]
    BY <1>4 DEF S!EraseKey, S!IllegalBucket
  <2>4. h = [s EXCEPT !.buckets = buckets, !.deleted = @ + 1, !.shrink = TRUE]
    <3>1. Cardinality({i}) = 1
      BY FS_Singleton
    <3> QED BY <3>1, InstanceCardinality DEF S!EraseRange
  <2> HIDE DEF g, h, i
  <2>5. buckets = [s.buckets EXCEPT ![i] = S!Marker]
    BY <2>2
  <2> HIDE DEF buckets
  <2>6. g = h
    BY <2>2, <2>3, <2>4, <2>5
  <2>7. SInv(h, Restrict(d, DOMAIN d \ {s.buckets[j].key : j \in {i}}))
    BY <2>1, SErased DEF h
  <2>8. {s.buckets[j].key : j \in {i}} = {k}
    BY <2>1
  <2> QED BY <2>6, <2>7, <2>8 DEF g
<1> QED BY <1>3, <1>4

\* set_deleted_key, which purges; the copies; resize; clear.
LEMMA SSquashed ==
  ASSUME NEW s, NEW d, SInv(s, d)
  PROVE  SInv(S!Squashed(s), d)
<1>1. /\ SType(s) /\ Sound(s.n, State(s), S!Used(s), s.buckets)
      /\ Denotes(Stored(S!Used(s), s.buckets), d)
      /\ S!Size(s) = Cardinality(S!Used(s)) /\ S!NumNonempty(s) = S!Size(s) + s.deleted
      /\ S!Size(s) \in Nat /\ s.deleted \in Nat /\ 10 * S!NumNonempty(s) <= 8 * s.n
  BY SInvParts
<1>2. s.n \in Nat /\ Power(s.n) /\ s.n >= MinBuckets
  BY <1>1, SParts
<1>3. 10 * Cardinality(S!Used(s)) <= 8 * s.n
  BY <1>1, <1>2
<1>4. Source(s, s.n)
  BY <1>1, <1>2, <1>3 DEF Source
<1>5. SInv(S!Moved(s, s.n), d)
  BY <1>1, <1>4, SMoved
<1> QED BY <1>5 DEF S!Squashed

LEMMA SCopied ==
  ASSUME NEW s, NEW d, SInv(s, d)
  PROVE  SInv(S!CopyOf(s), d)
BY SMoveDontCopy DEF S!CopyOf

LEMMA SSwapped ==
  ASSUME NEW s, NEW d, SInv(s, d), NEW m \in Nat
  PROVE  SInv(S!AssignedTo(S!Constructed(m), s), d)
<1> DEFINE a == S!MinSize(0, m)
           b == S!MinSize(S!Size(s), 0)
           n == Max({a, b})
<1>1. /\ SType(s) /\ Sound(s.n, State(s), S!Used(s), s.buckets)
      /\ Denotes(Stored(S!Used(s), s.buckets), d)
      /\ S!Size(s) = Cardinality(S!Used(s)) /\ S!Size(s) \in Nat
  BY SInvParts
<1>2. a \in Nat /\ Power(a) /\ a >= MinBuckets
  BY MinSizeFacts
<1>3. b \in Nat /\ Power(b) /\ b >= MinBuckets /\ 10 * S!Size(s) < 8 * b
  BY <1>1, MinSizeFacts
<1>4. S!AssignedTo(S!Constructed(m), s) = S!Moved(s, n)
  BY InstanceMax DEF S!AssignedTo, S!Constructed, S!Cleared, S!Empty
<1> HIDE DEF a, b
<1>5. n \in {a, b} /\ n >= b
  <2>1. {a, b} \in SUBSET (0 .. (a + b)) /\ a + b \in Nat /\ {a, b} # {}
    BY <1>2, <1>3
  <2>2. Max({a, b}) \in {a, b} /\ \A x \in {a, b} : x <= Max({a, b})
    BY <2>1, GreatestNatural
  <2> QED BY <1>2, <1>3, <2>2
<1> HIDE DEF n
<1>6. n \in Nat /\ Power(n) /\ n >= MinBuckets /\ 10 * Cardinality(S!Used(s)) <= 8 * n
  BY <1>1, <1>2, <1>3, <1>5
<1>7. Source(s, n)
  BY <1>1, <1>6 DEF Source
<1> QED BY <1>1, <1>4, <1>7, SMoved DEF n

LEMMA SResized ==
  ASSUME NEW s, NEW d, SInv(s, d), NEW m \in Nat
  PROVE  SInv(S!Resized(s, m), d)
<1> DEFINE t == IF s.shrink \/ m = 0 THEN S!Shrunk(s) ELSE s
<1>1. SInv(t, d)
  BY SShrunk
<1>2. S!Resized(s, m) =
        IF m > S!NumNonempty(t) THEN S!ResizeDelta(t, m - S!NumNonempty(t)) ELSE t
  BY DEF S!Resized
<1> HIDE DEF t
<1>3. S!NumNonempty(t) \in Nat
  BY <1>1, SInvParts
<1>4. CASE m > S!NumNonempty(t)
  <2>1. m - S!NumNonempty(t) \in Nat
    BY <1>3, <1>4
  <2> QED BY <1>1, <1>2, <1>4, <2>1, SResizeDelta
<1> QED BY <1>1, <1>2, <1>4

LEMMA SCleared ==
  ASSUME NEW s, NEW d, SInv(s, d)
  PROVE  SInv(S!Cleared(s), << >>)
<1>1. SType(s)
  BY DEF SInv
<1>2. s.n \in Nat /\ Power(s.n) /\ s.n >= MinBuckets
  BY <1>1, SParts
<1> QED BY <1>2, SEmpty DEF S!Cleared

LEMMA SInitial == SInv(S!Initial, << >>)
<1>1. S!MinSize(0, 0) \in Nat /\ Power(S!MinSize(0, 0)) /\ S!MinSize(0, 0) >= MinBuckets
  BY MinSizeFacts
<1> QED BY <1>1, SEmpty DEF S!Initial, S!Constructed

(***************************************************************************)
(* insert of a range: the elements one after the other, in a table that    *)
(* has room for all of them.                                               *)
(***************************************************************************)
FirstKeys(ks, j) == {ks[i] : i \in 1 .. j}
WithFirst(d, ks, j, v) == Over(d, [k \in FirstKeys(ks, j) |-> v])

LEMMA OverMore ==
  ASSUME NEW d, NEW ks, NEW v, NEW j \in Nat
  PROVE  Over(WithFirst(d, ks, j, v), Single(ks[j + 1], v)) = WithFirst(d, ks, j + 1, v)
<1> DEFINE A == FirstKeys(ks, j)
           B == FirstKeys(ks, j + 1)
           x == ks[j + 1]
<1>1. B = A \cup {x}
  <2>1. \A i : i \in 1 .. (j + 1) <=> i \in 1 .. j \/ i = j + 1
    OBVIOUS
  <2> QED BY <2>1 DEF FirstKeys
<1> HIDE DEF A, B, x
<1> DEFINE f == [k \in A |-> v]
           g == [k \in B |-> v]
           e == Over(d, f)
<1>2. e = [k \in DOMAIN d \cup A |-> IF k \in DOMAIN d THEN d[k] ELSE v]
  BY DEF Over
<1>3. DOMAIN e = DOMAIN d \cup A
  BY <1>2
<1>4. \A k \in DOMAIN d \cup A : e[k] = IF k \in DOMAIN d THEN d[k] ELSE v
  BY <1>2
<1> HIDE DEF e
<1>5. Over(e, Single(x, v)) =
        [k \in DOMAIN e \cup {x} |-> IF k \in DOMAIN e THEN e[k] ELSE v]
  BY DEF Over, Single
<1>6. Over(d, g) = [k \in DOMAIN d \cup B |-> IF k \in DOMAIN d THEN d[k] ELSE v]
  BY DEF Over
<1>7. DOMAIN e \cup {x} = DOMAIN d \cup B
  BY <1>1, <1>3
<1>8. \A k \in DOMAIN d \cup B :
        (IF k \in DOMAIN e THEN e[k] ELSE v) = (IF k \in DOMAIN d THEN d[k] ELSE v)
  BY <1>3, <1>4
<1>9. Over(e, Single(x, v)) = Over(d, g)
  BY <1>5, <1>6, <1>7, <1>8
<1> QED BY <1>9 DEF WithFirst, e, A, B, x

LEMMA OverNothing ==
  ASSUME NEW Z, NEW d, Denotes(Z, d), NEW v
  PROVE  Over(d, [k \in {} |-> v]) = d
<1> DEFINE f == [k \in {} |-> v]
<1>1. DOMAIN f = {}
  OBVIOUS
<1>2. Over(d, f) = [k \in DOMAIN d |-> d[k]]
  BY <1>1 DEF Over
<1> QED BY <1>2 DEF Denotes

LEMMA SInsertedAll ==
  ASSUME NEW s, NEW d, SInv(s, d), NEW ks \in Seq(Keys), NEW v \in Values
  PROVE  SInv(S!InsertAll(s, [i \in DOMAIN ks |-> S!Element(ks[i], v)]),
              Over(d, [k \in ToSet(ks) |-> v]))
<1> DEFINE items == [i \in DOMAIN ks |-> S!Element(ks[i], v)]
           m == Len(ks)
           start == S!ResizeDelta(s, m)
           D == [n : {start.n}, buckets : [0 .. (start.n - 1) -> Buckets], deleted : Int,
                 shrink : BOOLEAN]
           Body(f, j) == IF j = 0 THEN start ELSE S!InsertNoResize(f[j - 1], items[j])
           With == CHOOSE f : f = [j \in 0 .. m |-> Body(f, j)]
           all(j) == WithFirst(d, ks, j, v)
<1>1. m \in Nat /\ DOMAIN ks = 1 .. m /\ \A j \in 1 .. m : ks[j] \in Keys
  OBVIOUS
<1>2. Len(items) = m /\ \A j \in 1 .. m : items[j] = S!Element(ks[j], v)
  BY <1>1
<1>3. S!InsertAll(s, items) = With[m]
  <2> DEFINE h(l) == CHOOSE f : f = [j \in 0 .. l |->
                       IF j = 0 THEN S!ResizeDelta(s, l) ELSE S!InsertNoResize(f[j - 1], items[j])]
  <2>1. S!InsertAll(s, items) = h(Len(items))[Len(items)]
    BY DEF S!InsertAll
  <2>2. h(m) = With
    OBVIOUS
  <2> HIDE DEF h, items, With, m
  <2> QED BY <1>2, <2>1, <2>2
<1>4. SInv(start, d) /\ 10 * (S!NumNonempty(start) + m) <= 8 * start.n
  BY <1>1, SResizeDelta
<1> HIDE DEF start, items, m
<1>5. SType(start) /\ Denotes(Stored(S!Used(start), start.buckets), d)
  BY <1>4 DEF SInv
<1>6. start \in D
  <2>1. /\ start.deleted \in Nat /\ start.shrink \in BOOLEAN
        /\ start.buckets \in [0 .. (start.n - 1) -> Buckets]
        /\ start = [n |-> start.n, buckets |-> start.buckets, deleted |-> start.deleted,
                    shrink |-> start.shrink]
    BY <1>5, SParts
  <2>2. [n |-> start.n, buckets |-> start.buckets, deleted |-> start.deleted,
         shrink |-> start.shrink] \in D
    BY <2>1
  <2> HIDE DEF D
  <2> QED BY <2>1, <2>2
<1>7. ASSUME NEW q \in D, NEW j \in 1 .. m PROVE S!InsertNoResize(q, items[j]) \in D
  <2> DEFINE item == items[j]
             t == S!InsertNoResize(q, item)
             i == S!InsertPosition(q, item.key)
             less == IF S!Is(q, i, "deleted") THEN 1 ELSE 0
             buckets == [q.buckets EXCEPT ![i] = item]
  <2>1. item \in Buckets
    BY <1>1, <1>2, BucketStates
  <2>2. t = q \/ t = [q EXCEPT !.buckets[i] = item, !.deleted = @ - less]
    BY DEF S!InsertNoResize
  <2>3. less \in Int
    OBVIOUS
  <2> HIDE DEF item, i, t, less
  <2>4. /\ q = [n |-> start.n, buckets |-> q.buckets, deleted |-> q.deleted, shrink |-> q.shrink]
        /\ q.buckets \in [0 .. (start.n - 1) -> Buckets] /\ q.deleted \in Int /\ q.shrink \in BOOLEAN
    OBVIOUS
  <2>5. ASSUME t = [q EXCEPT !.buckets[i] = item, !.deleted = @ - less]
        PROVE  t \in D
    <3>1. t = [n |-> start.n, buckets |-> buckets, deleted |-> q.deleted - less, shrink |-> q.shrink]
      BY <2>4, <2>5
    <3>2. buckets \in [0 .. (start.n - 1) -> Buckets]
      BY <2>1, <2>4
    <3> HIDE DEF buckets
    <3> QED BY <2>3, <2>4, <3>1, <3>2
  <2>6. t \in D
    BY <2>2, <2>5
  <2> QED BY <2>6 DEF t, item
<1>8. \E f : f = [j \in 0 .. m |-> Body(f, j)]
  <2> DEFINE G == [p \in D \X (1 .. m) |-> S!InsertNoResize(p[1], items[p[2]])]
  <2> HIDE DEF D
  <2>1. \A q \in D, j \in 1 .. m : G[<<q, j>>] = S!InsertNoResize(q, items[j])
    OBVIOUS
  <2>2. G \in [D \X (1 .. m) -> D]
    BY <1>7
  <2> HIDE DEF G
  <2>3. PICK f \in [0 .. m -> D] : Turns(m, start, G, f)
    BY <1>1, <1>6, <2>2, TurnsExist
  <2>4. ASSUME NEW j \in 0 .. m PROVE f[j] = Body(f, j)
    <3>1. CASE j = 0
      BY <2>3, <3>1 DEF Turns
    <3>2. CASE j # 0
      <4>1. j - 1 \in 0 .. m /\ j \in 1 .. m
        BY <1>1, <3>2
      <4>2. f[j - 1] \in D
        BY <4>1
      <4> QED BY <2>1, <2>3, <3>2, <4>1, <4>2 DEF Turns
    <3> QED BY <3>1, <3>2
  <2> HIDE DEF Body
  <2>5. f = [j \in 0 .. m |-> Body(f, j)]
    BY <2>4
  <2> QED BY <2>5
<1>9. ASSUME NEW j \in 0 .. m PROVE With[j] = Body(With, j)
  <2> HIDE DEF Body
  <2>1. With = [i \in 0 .. m |-> Body(With, i)]
    BY <1>8
  <2> HIDE DEF With
  <2> QED BY <2>1
<1> HIDE DEF With, D
<1> DEFINE Good(t, j) == /\ SInv(t, all(j)) /\ t.n = start.n
                         /\ S!NumNonempty(t) <= S!NumNonempty(start) + j
           Counts == {j \in Nat : j <= m => Good(With[j], j)}
<1>10. S!NumNonempty(start) \in Nat /\ start.n \in Nat
  BY <1>4, <1>5, SInvParts, SParts
<1>11. 0 \in Counts
  <2>1. With[0] = start
    BY <1>1, <1>9
  <2>2. all(0) = d
    <3>1. Denotes(Stored(S!Used(start), start.buckets), d)
      BY <1>5
    <3>2. FirstKeys(ks, 0) = {}
      BY DEF FirstKeys
    <3> QED BY <3>1, <3>2, OverNothing DEF WithFirst
  <2> HIDE DEF all
  <2> QED BY <1>4, <1>10, <2>1, <2>2
<1>12. ASSUME NEW j \in Nat, j \in Counts PROVE j + 1 \in Counts
  <2> SUFFICES ASSUME j + 1 <= m PROVE Good(With[j + 1], j + 1)
    OBVIOUS
  <2>1. j + 1 \in 0 .. m /\ j + 1 \in 1 .. m /\ j + 1 # 0 /\ (j + 1) - 1 = j /\ j <= m
    BY <1>1
  <2> DEFINE t == With[j]
             k == ks[j + 1]
             g == S!InsertNoResize(t, S!Element(k, v))
  <2>2. With[j + 1] = g
    BY <1>2, <1>9, <2>1
  <2>3. Good(t, j) /\ k \in Keys
    BY <1>1, <1>12, <2>1
  <2>4. Over(all(j), Single(k, v)) = all(j + 1)
    BY OverMore
  <2> HIDE DEF t, k, all
  <2>5. S!NumNonempty(t) \in Nat
    BY <2>3, SInvParts
  <2>6. 10 * (S!NumNonempty(t) + 1) <= 8 * t.n
    <3>1. S!NumNonempty(t) + 1 <= S!NumNonempty(start) + m
      BY <1>1, <1>10, <2>1, <2>3, <2>5
    <3> QED BY <1>1, <1>4, <1>10, <2>3, <2>5, <3>1
  <2>7. SInv(g, all(j + 1)) /\ g.n = t.n /\ S!NumNonempty(g) <= S!NumNonempty(t) + 1
    BY <2>3, <2>4, <2>6, SInserted
  <2>8. S!NumNonempty(g) \in Nat
    BY <2>7, SInvParts
  <2> HIDE DEF g
  <2>9. Good(g, j + 1)
    BY <1>10, <2>3, <2>5, <2>7, <2>8
  <2> QED BY <2>2, <2>9
<1>13. Good(With[m], m)
  <2> HIDE DEF Counts, Good
  <2>1. \A j \in Nat : j \in Counts
    BY <1>11, <1>12, SimpleInduction
  <2> QED BY <1>1, <2>1 DEF Counts
<1>14. all(m) = Over(d, [k \in ToSet(ks) |-> v])
  <2>1. FirstKeys(ks, m) = ToSet(ks)
    BY <1>1 DEF FirstKeys, ToSet
  <2> QED BY <2>1 DEF WithFirst
<1> QED BY <1>3, <1>13, <1>14 DEF items


-----------------------------------------------------------------------------
(***************************************************************************)
(* The invariant is inductive: one step per operation.                     *)
(***************************************************************************)
LEMMA InitInvariant == OpenInit => IInv
<1> SUFFICES ASSUME OpenInit PROVE IInv
  OBVIOUS
<1>1. dict = << >>
  BY DEF OpenInit, MapInit
<1>2. CASE kind = "khash"
  <2>1. table = K!Initial
    BY <1>2 DEF OpenInit
  <2> QED BY <1>1, <1>2, <2>1, KHashInitial DEF IInv
<1>3. CASE kind = "sparse"
  <2>1. table = S!Initial
    BY <1>3 DEF OpenInit
  <2> QED BY <1>1, <1>3, <2>1, SInitial DEF IInv
<1> QED BY <1>2, <1>3 DEF OpenInit, OpenKinds

LEMMA KHashStep ==
  ASSUME IInv, NEW t, Becomes("khash", t), KInv(table, dict) => KInv(t, dict')
  PROVE  IInv'
<1>1. kind = "khash" /\ kind' = "khash" /\ table' = t
  BY DEF Becomes
<1>2. KInv(table, dict)
  BY <1>1 DEF IInv
<1>3. KInv(table', dict')
  BY <1>1, <1>2
<1> QED BY <1>1, <1>3 DEF IInv

LEMMA SparseStep ==
  ASSUME IInv, NEW t, Becomes("sparse", t), SInv(table, dict) => SInv(t, dict')
  PROVE  IInv'
<1>1. kind = "sparse" /\ kind' = "sparse" /\ table' = t
  BY DEF Becomes
<1>2. SInv(table, dict)
  BY <1>1 DEF IInv
<1>3. SInv(table', dict')
  BY <1>1, <1>2
<1> QED BY <1>1, <1>3 DEF IInv

LEMMA StepInvariant == IInv /\ [OpenNext]_vars => IInv'
<1> SUFFICES ASSUME IInv, [OpenNext]_vars PROVE IInv'
  OBVIOUS
<1>1. ASSUME NEW k \in Keys, NEW v \in Values, KHashPut(k, v) PROVE IInv'
  <2> DEFINE t == K!Put(table, k, v)
  <2>1. Becomes("khash", t) /\ dict' = Over(Single(k, v), dict)
    BY <1>1 DEF KHashPut, MapAssign
  <2>2. KInv(table, dict) => KInv(t, dict')
    BY <2>1, KHashPutFacts
  <2> HIDE DEF t
  <2> QED BY <2>1, <2>2, KHashStep
<1>2. ASSUME NEW k \in Keys, KHashDel(k) PROVE IInv'
  <2> DEFINE t == K!Deleted(table, K!Get(table, k))
  <2>1. Becomes("khash", t) /\ dict' = Restrict(dict, DOMAIN dict \ {k})
    BY <1>2 DEF KHashDel, MapErase, MapEraseAll
  <2>2. KInv(table, dict) => KInv(t, dict')
    BY <2>1, KHashDeleted
  <2> HIDE DEF t
  <2> QED BY <2>1, <2>2, KHashStep
<1>3. ASSUME NEW m \in Sizes, KHashResize(m) PROVE IInv'
  <2> DEFINE t == K!Resize(table, m)
  <2>1. Becomes("khash", t) /\ dict' = dict /\ m \in Nat
    BY <1>3, OpenTablesAssumption DEF KHashResize, MapUnchanged
  <2>2. KInv(table, dict) => KInv(t, dict')
    BY <2>1, KHashResized
  <2> HIDE DEF t
  <2> QED BY <2>1, <2>2, KHashStep
<1>4. ASSUME KHashClear PROVE IInv'
  <2> DEFINE t == K!Cleared(table)
  <2>1. Becomes("khash", t) /\ dict' = << >>
    BY <1>4 DEF KHashClear, MapClear
  <2>2. KInv(table, dict) => KInv(t, dict')
    BY <2>1, KHashCleared
  <2> HIDE DEF t
  <2> QED BY <2>1, <2>2, KHashStep
<1>5. ASSUME NEW k \in Keys, NEW v \in Values, SparseInsert(k, v) PROVE IInv'
  <2> DEFINE t == S!Insert(table, S!Element(k, v))
  <2>1. Becomes("sparse", t) /\ dict' = Over(dict, Single(k, v))
    BY <1>5 DEF SparseInsert, MapInsert
  <2>2. SInv(table, dict) => SInv(t, dict')
    BY <2>1, SInsertFacts
  <2> HIDE DEF t
  <2> QED BY <2>1, <2>2, SparseStep
<1>6. ASSUME NEW k \in Keys, NEW v \in Values, SparseAssign(k, v) PROVE IInv'
  <2> DEFINE t == S!AssignAt(table, k, v)
  <2>1. Becomes("sparse", t) /\ dict' = Over(Single(k, v), dict)
    BY <1>6 DEF SparseAssign, MapAssign
  <2>2. SInv(table, dict) => SInv(t, dict')
    BY <2>1, SAssigned
  <2> HIDE DEF t
  <2> QED BY <2>1, <2>2, SparseStep
<1>7. ASSUME NEW k \in Keys, SparseErase(k) PROVE IInv'
  <2> DEFINE t == S!EraseKey(table, k)
  <2>1. Becomes("sparse", t) /\ dict' = Restrict(dict, DOMAIN dict \ {k})
    BY <1>7 DEF SparseErase, MapErase, MapEraseAll
  <2>2. SInv(table, dict) => SInv(t, dict')
    BY <2>1, SErasedKey
  <2> HIDE DEF t
  <2> QED BY <2>1, <2>2, SparseStep
<1>8. ASSUME NEW m \in Sizes, SparseResize(m) PROVE IInv'
  <2> DEFINE t == S!Resized(table, m)
  <2>1. Becomes("sparse", t) /\ dict' = dict /\ m \in Nat
    BY <1>8, OpenTablesAssumption DEF SparseResize, MapUnchanged
  <2>2. SInv(table, dict) => SInv(t, dict')
    BY <2>1, SResized
  <2> HIDE DEF t
  <2> QED BY <2>1, <2>2, SparseStep
<1>9. ASSUME NEW m \in Sizes, SparseSwap(m) PROVE IInv'
  <2> DEFINE t == S!AssignedTo(S!Constructed(m), table)
  <2>1. Becomes("sparse", t) /\ dict' = dict /\ m \in Nat
    BY <1>9, OpenTablesAssumption DEF SparseSwap, MapUnchanged
  <2>2. SInv(table, dict) => SInv(t, dict')
    BY <2>1, SSwapped
  <2> HIDE DEF t
  <2> QED BY <2>1, <2>2, SparseStep
<1>10. ASSUME SparseClear PROVE IInv'
  <2> DEFINE t == S!Cleared(table)
  <2>1. Becomes("sparse", t) /\ dict' = << >>
    BY <1>10 DEF SparseClear, MapClear
  <2>2. SInv(table, dict) => SInv(t, dict')
    BY <2>1, SCleared
  <2> HIDE DEF t
  <2> QED BY <2>1, <2>2, SparseStep
<1>11. ASSUME SparseSetDeletedKey PROVE IInv'
  <2> DEFINE t == S!Squashed(table)
  <2>1. Becomes("sparse", t) /\ dict' = dict
    BY <1>11 DEF SparseSetDeletedKey, MapUnchanged
  <2>2. SInv(table, dict) => SInv(t, dict')
    BY <2>1, SSquashed
  <2> HIDE DEF t
  <2> QED BY <2>1, <2>2, SparseStep
<1>12. ASSUME SparseCopy PROVE IInv'
  <2> DEFINE t == S!CopyOf(table)
  <2>1. Becomes("sparse", t) /\ dict' = dict
    BY <1>12 DEF SparseCopy, MapUnchanged
  <2>2. SInv(table, dict) => SInv(t, dict')
    BY <2>1, SCopied
  <2> HIDE DEF t
  <2> QED BY <2>1, <2>2, SparseStep
<1>13. ASSUME NEW ks \in Batches, NEW v \in Values, SparseInsertAll(ks, v) PROVE IInv'
  <2> DEFINE t == S!InsertAll(table, [i \in DOMAIN ks |-> S!Element(ks[i], v)])
  <2>1. Becomes("sparse", t) /\ dict' = Over(dict, [k \in ToSet(ks) |-> v])
    BY <1>13 DEF SparseInsertAll, MapInsertAll
  <2>2. ks \in Seq(Keys)
    BY OpenTablesAssumption
  <2>3. SInv(table, dict) => SInv(t, dict')
    BY <2>1, <2>2, SInsertedAll
  <2> HIDE DEF t
  <2> QED BY <2>1, <2>3, SparseStep
<1>14. ASSUME SparseEraseSome PROVE IInv'
  <2>1. PICK i \in S!Used(table), j \in S!Used(table) : SparseEraseRange(i, j)
    BY <1>14 DEF SparseEraseSome
  <2> DEFINE range == {b \in S!Used(table) : i <= b /\ b <= j}
             t == S!EraseRange(table, range)
             keys == {table.buckets[b].key : b \in range}
  <2>2. Becomes("sparse", t) /\ dict' = Restrict(dict, DOMAIN dict \ keys)
    BY <2>1 DEF SparseEraseRange, MapEraseAll
  <2>3. range \in SUBSET S!Used(table)
    OBVIOUS
  <2> HIDE DEF range
  <2>4. SInv(table, dict) => SInv(t, dict')
    BY <2>2, <2>3, SErased
  <2> HIDE DEF t
  <2> QED BY <2>2, <2>4, SparseStep
<1>15. ASSUME UNCHANGED vars PROVE IInv'
  BY <1>15 DEF IInv, vars
<1> QED BY <1>1, <1>2, <1>3, <1>4, <1>5, <1>6, <1>7, <1>8, <1>9, <1>10, <1>11, <1>12,
           <1>13, <1>14, <1>15 DEF OpenNext


-----------------------------------------------------------------------------
(***************************************************************************)
(* What a caller sees: the invariant says which elements the table holds   *)
(* and where, and lookups find exactly these.                              *)
(***************************************************************************)
\* The lookups of the keys, of which those that give end find nothing.
Lookups(L, X, get, end) ==
  /\ end \notin L
  /\ \A i \in L : X[i].key \in Keys
  /\ \A k \in Keys : /\ get[k] = end \/ (get[k] \in L /\ X[get[k]].key = k)
                     /\ \A j \in L : X[j].key = k => j = get[k]

\* They find the elements of d, each once.
FindMap(L, X, get, end, d) ==
  LET found == {k \in Keys : get[k] # end}
  IN  /\ [k \in found |-> X[get[k]].val] = d
      /\ {X[i].key : i \in L} = found
      /\ Cardinality(found) = Cardinality(L)

LEMMA LookupsFind ==
  ASSUME NEW L, NEW X, NEW get, NEW end, Lookups(L, X, get, end),
         NEW d, Denotes(Stored(L, X), d), IsFiniteSet(L)
  PROVE  FindMap(L, X, get, end, d)
<1> DEFINE found == {k \in Keys : get[k] # end}
           keys == {z.key : z \in Stored(L, X)}
<1>1. \A k \in found : k \in Keys /\ get[k] \in L /\ X[get[k]].key = k
  BY DEF Lookups
<1>2. \A i \in L : X[i].key \in found /\ get[X[i].key] = i
  <2> SUFFICES ASSUME NEW i \in L PROVE X[i].key \in found /\ get[X[i].key] = i
    OBVIOUS
  <2>1. X[i].key \in Keys /\ get[X[i].key] = i /\ end \notin L
    BY DEF Lookups
  <2> QED BY <2>1
<1> HIDE DEF found
<1>3. {X[i].key : i \in L} = found
  BY <1>1, <1>2
<1>4. keys = found
  BY <1>3 DEF Stored
<1>5. d = [k \in found |-> d[k]] /\ \A k \in found : d[k] = X[get[k]].val
  <2>1. d = [k \in keys |-> d[k]]
    BY DEF Denotes
  <2>2. ASSUME NEW k \in found PROVE d[k] = X[get[k]].val
    <3>1. get[k] \in L /\ X[get[k]].key = k
      BY <1>1
    <3>2. X[get[k]] \in Stored(L, X)
      BY <3>1 DEF Stored
    <3> QED BY <3>1, <3>2 DEF Denotes
  <2> QED BY <1>4, <2>1, <2>2
<1>6. Cardinality(found) = Cardinality(L)
  <2> DEFINE f == [i \in L |-> X[i].key]
  <2>1. f \in Bijection(L, found)
    <3>1. f \in [L -> found]
      BY <1>2
    <3>2. \A i, j \in L : f[i] = f[j] => i = j
      BY <1>2
    <3>3. \A k \in found : \E i \in L : f[i] = k
      BY <1>1
    <3> QED BY <3>1, <3>2, <3>3 DEF Bijection, Injection, Surjection, IsInjective
  <2>2. ExistsBijection(L, found)
    BY <2>1 DEF ExistsBijection
  <2> QED BY <2>2, FS_Bijection
<1> QED BY <1>3, <1>5, <1>6 DEF FindMap, found


LEMMA KHashLookups ==
  ASSUME NEW h, NEW d, KInv(h, d), NEW get, \A k \in Keys : get[k] = K!Get(h, k)
  PROVE  /\ Lookups(K!Live(h), h.items, get, h.n) /\ IsFiniteSet(K!Live(h))
         /\ Denotes(Stored(K!Live(h), h.items), d) /\ h.size = Cardinality(K!Live(h))
<1>1. /\ KType(h) /\ KCounts(h) /\ Sound(h.n, h.flags, K!Live(h), h.items)
      /\ Denotes(Stored(K!Live(h), h.items), d)
  BY DEF KInv
<1>2. h.n \in Nat /\ K!Live(h) \in SUBSET (0 .. (h.n - 1))
  BY <1>1, KHashParts
<1>3. IsFiniteSet(K!Live(h)) /\ h.n \notin K!Live(h)
  BY <1>2, FiniteBuckets
<1>4. \A k \in Keys : /\ get[k] = h.n \/ (get[k] \in K!Live(h) /\ h.items[get[k]].key = k)
                      /\ \A j \in K!Live(h) : h.items[j].key = k => j = get[k]
  BY <1>1, KHashGet
<1>5. \A i \in K!Live(h) : h.items[i].key \in Keys
  BY <1>1 DEF Sound
<1>6. h.size = Cardinality(K!Live(h))
  BY <1>1 DEF KCounts
<1> QED BY <1>1, <1>3, <1>4, <1>5, <1>6 DEF Lookups

LEMMA SparseLookups ==
  ASSUME NEW s, NEW d, SInv(s, d), NEW get, \A k \in Keys : get[k] = S!Find(s, k)
  PROVE  /\ Lookups(S!Used(s), s.buckets, get, S!IllegalBucket) /\ IsFiniteSet(S!Used(s))
         /\ Denotes(Stored(S!Used(s), s.buckets), d) /\ S!Size(s) = Cardinality(S!Used(s))
<1>1. /\ SType(s) /\ Loaded(s) /\ s.deleted = Cardinality(Markers(s))
      /\ Sound(s.n, State(s), S!Used(s), s.buckets)
      /\ Denotes(Stored(S!Used(s), s.buckets), d) /\ S!Size(s) = Cardinality(S!Used(s))
  BY SInvParts
<1>2. S!Used(s) \in SUBSET (0 .. (s.n - 1)) /\ IsFiniteSet(S!Used(s)) /\ s.n \in Nat
  BY <1>1, SParts
<1>3. S!IllegalBucket = -1 /\ -1 \notin S!Used(s)
  BY <1>2 DEF S!IllegalBucket
<1>4. \A k \in Keys : /\ get[k] = -1 \/ (get[k] \in S!Used(s) /\ s.buckets[get[k]].key = k)
                      /\ \A j \in S!Used(s) : s.buckets[j].key = k => j = get[k]
  BY <1>1, SFindKey
<1>5. \A i \in S!Used(s) : s.buckets[i].key \in Keys
  BY <1>1 DEF Sound
<1> QED BY <1>1, <1>2, <1>3, <1>4, <1>5 DEF Lookups

LEMMA InvariantIsMap == IInv => OpenTableIsTheMap
<1> SUFFICES ASSUME IInv PROVE OpenTableIsTheMap
  OBVIOUS
<1> DEFINE get == [k \in Keys |-> Looked(k)]
           L == Visited
           X == IF kind = "khash" THEN table.items ELSE table.buckets
<1>1. /\ Lookups(L, X, get, End) /\ IsFiniteSet(L) /\ Denotes(Stored(L, X), dict)
      /\ SizeOf = Cardinality(L)
  <2>1. CASE kind = "khash" /\ KInv(table, dict)
    <3>1. /\ L = K!Live(table) /\ X = table.items /\ End = table.n /\ SizeOf = table.size
          /\ \A k \in Keys : get[k] = K!Get(table, k)
      BY <2>1 DEF Visited, End, SizeOf, Looked
    <3> HIDE DEF get, L, X
    <3> QED BY <2>1, <3>1, KHashLookups
  <2>2. CASE kind = "sparse" /\ SInv(table, dict)
    <3>1. /\ L = S!Used(table) /\ X = table.buckets /\ End = S!IllegalBucket
          /\ SizeOf = S!Size(table)
          /\ \A k \in Keys : get[k] = S!Find(table, k)
      BY <2>2 DEF Visited, End, SizeOf, Looked
    <3> HIDE DEF get, L, X
    <3> QED BY <2>2, <3>1, SparseLookups
  <2> QED BY <2>1, <2>2 DEF IInv
<1> DEFINE found == {k \in Keys : get[k] # End}
<1>2. \A i : ItemAt(i) = X[i]
  BY DEF ItemAt
<1>3. Found = found /\ \A k \in found : ItemAt(Looked(k)) = X[get[k]]
  BY <1>2 DEF Found
<1> HIDE DEF get, X
<1>4. /\ [k \in found |-> X[get[k]].val] = dict
      /\ {X[i].key : i \in L} = found
      /\ Cardinality(found) = Cardinality(L)
  <2>1. FindMap(L, X, get, End, dict)
    BY <1>1, LookupsFind
  <2> QED BY <2>1 DEF FindMap
<1>5. Contents = dict
  BY <1>3, <1>4 DEF Contents
<1>6. {ItemAt(i).key : i \in Visited} = {X[i].key : i \in L}
  BY <1>2
<1> QED BY <1>1, <1>3, <1>4, <1>5, <1>6 DEF OpenTableIsTheMap

LEMMA InvariantProbes == IInv => ProbingEnds
<1> SUFFICES ASSUME IInv, NEW k \in Keys
             PROVE  /\ kind = "khash" /\ table.n > 0 =>
                         LET i == K!Probe(table.n, k, K!LastProbe(table, k))
                         IN  K!IsEmpty(table, i) \/ K!Holds(table, i, k)
                    /\ kind = "sparse" =>
                         \E p \in 0 .. (table.n - 1) :
                           LET i == S!Probe(table.n, k, p)
                           IN  S!Is(table, i, "empty") \/ S!Holds(table, i, k)
  BY DEF ProbingEnds
<1>1. ASSUME kind = "khash", table.n > 0
      PROVE  LET i == K!Probe(table.n, k, K!LastProbe(table, k))
             IN  K!IsEmpty(table, i) \/ K!Holds(table, i, k)
  <2> DEFINE i == K!Probe(table.n, k, K!LastProbe(table, k))
  <2>1. KInv(table, dict)
    BY <1>1 DEF IInv
  <2>2. /\ KType(table) /\ KCounts(table)
        /\ Sound(table.n, table.flags, K!Live(table), table.items)
    BY <2>1 DEF KInv
  <2>3. table.n # 0
    BY <1>1
  <2>4. table.flags[i] # "empty" => i \in K!Live(table) /\ table.items[i].key = k
    BY <2>2, <2>3, KHashFind
  <2> HIDE DEF i
  <2>5. K!IsEmpty(table, i) \/ K!Holds(table, i, k)
    BY <2>4 DEF K!IsEmpty, K!Holds, K!Live
  <2> QED BY <2>5 DEF i
<1>2. ASSUME kind = "sparse"
      PROVE  \E p \in 0 .. (table.n - 1) :
               LET i == S!Probe(table.n, k, p)
               IN  S!Is(table, i, "empty") \/ S!Holds(table, i, k)
  <2> DEFINE p == S!Probing(table, k)
             i == S!Probe(table.n, k, p)
  <2>1. SInv(table, dict)
    BY <1>2 DEF IInv
  <2>2. SType(table) /\ Loaded(table)
    BY <2>1, SInvParts
  <2>3. /\ p \in 0 .. (table.n - 1) /\ i \in 0 .. (table.n - 1)
        /\ State(table)[i] # "empty" => i \in S!Used(table) /\ table.buckets[i].key = k
    BY <2>2, SFind
  <2>4. State(table)[i] = table.buckets[i].state
    BY <2>2, <2>3, StateFacts
  <2> HIDE DEF p
  <2>5. S!Is(table, i, "empty") \/ S!Holds(table, i, k)
    BY <2>3, <2>4 DEF S!Is, S!Holds, S!Used
  <2> QED BY <2>3, <2>5
<1> QED BY <1>1, <1>2

-----------------------------------------------------------------------------
(***************************************************************************)
(* The theorems.                                                           *)
(***************************************************************************)
\* In every state of the two open tables each element is where the probing for
\* its key finds it, each key is there once, and the counters (size,
\* n_occupied, num_deleted) count what they are for, below the load limits.
THEOREM OpenTablesInvariant == OpenSpec => []IInv
<1>1. OpenInit => IInv
  BY InitInvariant
<1>2. IInv /\ [OpenNext]_vars => IInv'
  BY StepInvariant
<1> QED BY <1>1, <1>2, PTL DEF OpenSpec

\* No lookup and no insertion of khash or sparse_hash_map probes a table that
\* is full: an empty bucket, or the key, is on the way of every key, whatever
\* its hash, after any sequence of operations.
THEOREM ProbingAlwaysEnds == OpenSpec => []ProbingEnds
<1>1. IInv => ProbingEnds
  BY InvariantProbes
<1> QED BY <1>1, OpenTablesInvariant, PTL

\* Whatever khash and sparse_hash_map do inside a call (kick elements out, grow,
\* shrink, purge what is deleted), their callers see the map: lookups, size()
\* and an iteration give its elements, each once, and nothing else.
THEOREM OpenTablesAreMaps == OpenSpec => []OpenTableIsTheMap
<1>1. IInv => OpenTableIsTheMap
  BY InvariantIsMap
<1> QED BY <1>1, OpenTablesInvariant, PTL
=============================================================================
