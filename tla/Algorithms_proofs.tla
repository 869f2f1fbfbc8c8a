---------------------------- MODULE Algorithms_proofs ----------------------------
(***************************************************************************)
(* Proofs about Algorithms.  Each walker has an inductive invariant of its *)
(* own, which says of the input walked so far what the walker's property   *)
(* says of a whole one; AInv is the one of the walker that walks.          *)
(***************************************************************************)
EXTENDS Algorithms, SequenceTheorems, FiniteSetTheorems, TLAPS

\* The instances count as this module does.
LEMMA SameCount ==
  /\ \A S : Sweep!Cardinality(S) = Cardinality(S)
  /\ \A S : Steps!Cardinality(S) = Cardinality(S)
  /\ \A S : Stream!Cardinality(S) = Cardinality(S)
BY DEF Sweep!Cardinality, Steps!Cardinality, Stream!Cardinality, Cardinality

-----------------------------------------------------------------------------
(* Credit returns                                                          *)

LEMMA Worths ==
  /\ Credits!Bucket[0] = 0  /\ Credits!Bucket[1] = 1  /\ Credits!Bucket[2] = 4  /\ Credits!Bucket[3] = 8
  /\ Credits!Bucket[4] = 16 /\ Credits!Bucket[5] = 32 /\ Credits!Bucket[6] = 64 /\ Credits!Bucket[7] = 128
BY DEF Credits!Bucket

\* n is covered by code c and by none below it.
Fits(n, c) == n <= Credits!Bucket[c] /\ (c > 0 => Credits!Bucket[c - 1] < n)

\* There is one such code ...
LEMMA OneFits ==
  /\ \A n \in 0 .. 64 : \E c \in 0 .. 6 : Fits(n, c)
  /\ \A n \in 0 .. 4 : \E c \in 0 .. 2 : Fits(n, c)
<1>1. \A n \in 0 .. 4 : Fits(n, 0) \/ Fits(n, 1) \/ Fits(n, 2)
  BY Worths DEF Fits
<1>2. \A n \in 5 .. 64 : Fits(n, 3) \/ Fits(n, 4) \/ Fits(n, 5) \/ Fits(n, 6)
  BY Worths DEF Fits
<1>3. \A n \in 0 .. 64 : n \in 0 .. 4 \/ n \in 5 .. 64
  OBVIOUS
<1> QED BY <1>1, <1>2, <1>3

\* ... and no code that covers n is worth less.
LEMMA FitIsLeast ==
  ASSUME NEW n \in Nat, NEW c \in 0 .. 7, Fits(n, c)
  PROVE  /\ Credits!Bucket[c] >= n
         /\ \A e \in 0 .. 7 : Credits!Bucket[e] >= n => Credits!Bucket[c] <= Credits!Bucket[e]
BY Worths DEF Fits

\* The codes are the least that cover what is owed.
LEMMA CodesFit ==
  ASSUME NEW n \in 0 .. 255
  PROVE  /\ n <= 64 => Credits!cred_encode_ge(n) \in 0 .. 6 /\ Fits(n, Credits!cred_encode_ge(n))
         /\ n > 64 => Credits!cred_encode_ge(n) = 7
         /\ n <= 4 => Credits!cred_encode_ge2(n) \in 0 .. 2 /\ Fits(n, Credits!cred_encode_ge2(n))
         /\ n > 4 => Credits!cred_encode_ge2(n) = 3
<1>1. n <= 64 => Credits!cred_encode_ge(n) = CHOOSE c \in 0 .. 6 : Fits(n, c)
  BY DEF Credits!cred_encode_ge, Fits
<1>2. n <= 4 => Credits!cred_encode_ge2(n) = CHOOSE c \in 0 .. 2 : Fits(n, c)
  BY DEF Credits!cred_encode_ge2, Fits
<1>3. n <= 64 => \E c \in 0 .. 6 : Fits(n, c)
  BY OneFits
<1>4. n <= 4 => \E c \in 0 .. 2 : Fits(n, c)
  BY OneFits
<1> QED BY <1>1, <1>2, <1>3, <1>4 DEF Credits!cred_encode_ge, Credits!cred_encode_ge2

\* Every count is returned as ReturnCovers says.
LEMMA CountCovered == ASSUME walk \in 0 .. 255 PROVE Credits!ReturnCovers
<1>1. walk <= 128 => Credits!cred_decode(Credits!cred_encode_ge(walk)) >= walk
  <2>1. CASE walk <= 64
    <3>1. /\ Credits!cred_encode_ge(walk) \in 0 .. 7 /\ Fits(walk, Credits!cred_encode_ge(walk)) /\ walk \in Nat
      BY <2>1, CodesFit
    <3> QED BY <3>1, FitIsLeast DEF Credits!cred_decode
  <2>2. CASE walk > 64
    <3>1. Credits!cred_encode_ge(walk) = 7
      BY <2>2, CodesFit
    <3> QED BY <3>1, Worths DEF Credits!cred_decode
  <2> QED BY <2>1, <2>2
<1>2. walk <= 8 => Credits!cred_decode(Credits!cred_encode_ge2(walk)) >= walk
  <2>1. CASE walk <= 4 BY <2>1, CodesFit, FitIsLeast DEF Credits!cred_decode
  <2>2. CASE walk > 4 BY <2>2, CodesFit, Worths DEF Credits!cred_decode
  <2> QED BY <2>1, <2>2
<1>3. \A c \in 0 .. 7 : Credits!Bucket[c] >= walk => Credits!Bucket[Credits!cred_encode_ge(walk)] <= Credits!Bucket[c]
  <2>1. CASE walk <= 64 BY <2>1, CodesFit, FitIsLeast
  <2>2. CASE walk > 64 BY <2>2, CodesFit, Worths
  <2> QED BY <2>1, <2>2
<1>4. \A c \in 0 .. 3 : Credits!Bucket[c] >= walk => Credits!Bucket[Credits!cred_encode_ge2(walk)] <= Credits!Bucket[c]
  <2>1. CASE walk <= 4 BY <2>1, CodesFit, FitIsLeast
  <2>2. CASE walk > 4 BY <2>2, CodesFit, Worths
  <2> QED BY <2>1, <2>2
<1> QED BY <1>1, <1>2, <1>3, <1>4 DEF Credits!ReturnCovers

-----------------------------------------------------------------------------
(* Burst addresses                                                         *)

LEMMA Powers == 2 ^ 0 = 1 /\ 2 ^ 1 = 2 /\ 2 ^ 2 = 4
OBVIOUS

\* Counting in steps of b modulo t, b a divisor of t.
LEMMA Counting ==
  ASSUME NEW t \in {2, 4, 8, 16, 32, 64}, NEW b \in {1, 2, 4}, t % b = 0, NEW n \in Nat, n % b = 0
  PROVE  (n + b) % t = IF (n % t) + b = t THEN 0 ELSE (n % t) + b
<1>1. CASE t = 2 BY <1>1
<1>2. CASE t = 4 BY <1>2
<1>3. CASE t = 8 BY <1>3
<1>4. CASE t = 16 BY <1>4
<1>5. CASE t = 32 BY <1>5
<1>6. CASE t = 64 BY <1>6
<1> QED BY <1>1, <1>2, <1>3, <1>4, <1>5, <1>6

\* The block of t bytes around a, and the offset of a in it.
LEMMA Blocks ==
  ASSUME NEW t \in {2, 4, 8, 16, 32, 64}, NEW b \in {1, 2, 4}, t % b = 0, NEW a \in Nat, a % b = 0
  PROVE  /\ a % t \in Nat /\ (a \div t) * t \in Nat /\ a - (a \div t) * t = a % t
         /\ (a % t) % b = 0 /\ (a % t) % t = a % t
<1>1. CASE t = 2 BY <1>1
<1>2. CASE t = 4 BY <1>2
<1>3. CASE t = 8 BY <1>3
<1>4. CASE t = 16 BY <1>4
<1>5. CASE t = 32 BY <1>5
<1>6. CASE t = 64 BY <1>6
<1> QED BY <1>1, <1>2, <1>3, <1>4, <1>5, <1>6

\* Where the walk is at beat k of r: at the beat's address, but that a burst which
\* starts below its container's boundary keeps its offset.
At(r, a, k) ==
  CASE r.burst = "FIXED" -> a = r.addr
    [] r.burst = "WRAP"  -> a = Burst!BeatAddr(r, k)
    [] OTHER             -> a = r.addr + k * Burst!Bytes(r.size)

BurstInv ==
  /\ walk.r \in Burst!Bursts /\ walk.beat_q \in Nat
  /\ walk = [r |-> walk.r, addr_q |-> walk.addr_q, beat_q |-> walk.beat_q]
  /\ At(walk.r, walk.addr_q, walk.beat_q)

LEMMA BurstFields ==
  ASSUME NEW r \in Burst!Bursts
  PROVE  /\ r.addr \in Nat /\ r.len \in Nat /\ r.size \in 0 .. 2 /\ r.burst \in {"FIXED", "INCR", "WRAP"}
         /\ Burst!Bytes(r.size) \in {1, 2, 4} /\ 2 ^ r.size = Burst!Bytes(r.size)
         /\ r.burst = "WRAP" => r.len + 1 \in {2, 4, 8, 16} /\ r.addr % Burst!Bytes(r.size) = 0
<1>1. r \in [addr : Starts, len : Lens, size : 0 .. 2, burst : {"FIXED", "INCR", "WRAP"}]
  BY DEF Burst!Bursts
<1>2. r.size \in {0, 1, 2}
  BY <1>1
<1> QED BY <1>1, <1>2, Powers, AlgorithmsAssumption DEF Burst!Bursts, Burst!Bytes

\* The start of a burst is the address of its first beat, and a step of the walk
\* goes from beat to beat.
LEMMA WrapWalk ==
  ASSUME NEW r \in Burst!Bursts, r.burst = "WRAP", NEW k \in Nat
  PROVE  /\ Burst!BeatAddr(r, 0) = r.addr
         /\ Burst!axi_burst_next(Burst!BeatAddr(r, k), r.addr, r.burst, r.size, r.len)
              = Burst!BeatAddr(r, k + 1)
<1> DEFINE b == Burst!Bytes(r.size)
           t == b * (r.len + 1)
           a == r.addr
           lo == (a \div t) * t
           o == a % t
<1>1. b \in {1, 2, 4} /\ 2 ^ r.size = b /\ a \in Nat /\ a % b = 0 /\ r.len + 1 \in {2, 4, 8, 16} /\ r.len \in Nat
  BY BurstFields
<1>2. t \in {2, 4, 8, 16, 32, 64} /\ t % b = 0 /\ (r.len + 1) * b = t
  <2>1. \A n \in {2, 4, 8, 16}, m \in {1, 2, 4} : m * n \in {2, 4, 8, 16, 32, 64} /\ (m * n) % m = 0 /\ n * m = m * n
    OBVIOUS
  <2> HIDE DEF b
  <2> QED BY <1>1, <2>1
<1>3. Burst!BeatAddr(r, k) = lo + ((a - lo + k * b) % t) /\ Burst!BeatAddr(r, k + 1) = lo + ((a - lo + (k + 1) * b) % t)
      /\ Burst!BeatAddr(r, 0) = lo + ((a - lo + 0 * b) % t)
  BY <1>1 DEF Burst!BeatAddr
<1>4. \A x : Burst!axi_burst_next(x, a, "WRAP", r.size, r.len)
              = IF x + b = (a - o) + t THEN a - o ELSE x + b
  BY <1>2 DEF Burst!axi_burst_next, Burst!WrapLow
<1> HIDE DEF t, b, a
<1>5. o \in Nat /\ lo \in Nat /\ a - lo = o /\ o % b = 0 /\ o % t = o /\ a - o = lo
  <2>1. o \in Nat /\ lo \in Nat /\ a - lo = o /\ o % b = 0 /\ o % t = o
    BY <1>1, <1>2, Blocks
  <2> HIDE DEF o, lo
  <2> QED BY <1>1, <2>1
<1> HIDE DEF lo, o
<1>6. o + k * b \in Nat /\ (o + k * b) % b = 0 /\ (o + k * b) + b = o + (k + 1) * b /\ o + 0 * b = o
  <2> DEFINE kb == k * b
  <2>1. \A x \in Nat, y \in {1, 2, 4} : x * y \in Nat /\ (x * y) % y = 0 /\ (x + 1) * y = x * y + y /\ 0 * y = 0
    <3> TAKE x \in Nat, y \in {1, 2, 4}
    <3>1. CASE y = 1 BY <3>1
    <3>2. CASE y = 2 BY <3>2
    <3>3. CASE y = 4 BY <3>3
    <3> QED BY <3>1, <3>2, <3>3
  <2>2. \A x, z \in Nat, y \in {1, 2, 4} : x % y = 0 /\ z % y = 0 => (x + z) % y = 0
    <3> TAKE x, z \in Nat, y \in {1, 2, 4}
    <3>1. CASE y = 1 BY <3>1
    <3>2. CASE y = 2 BY <3>2
    <3>3. CASE y = 4 BY <3>3
    <3> QED BY <3>1, <3>2, <3>3
  <2>3. kb \in Nat /\ kb % b = 0 /\ (k + 1) * b = kb + b /\ 0 * b = 0
    BY <1>1, <2>1
  <2> HIDE DEF kb
  <2>4. (o + kb) % b = 0
    BY <1>1, <1>5, <2>2, <2>3
  <2>5. o + kb \in Nat /\ (o + kb) + b = o + (kb + b) /\ o + 0 = o
    BY <1>1, <1>5, <2>3
  <2> QED BY <2>3, <2>4, <2>5 DEF kb
<1>7. (o + (k + 1) * b) % t = IF ((o + k * b) % t) + b = t THEN 0 ELSE ((o + k * b) % t) + b
  <2> DEFINE m == o + k * b
  <2>1. m \in Nat /\ m % b = 0 /\ m + b = o + (k + 1) * b
    BY <1>6
  <2> HIDE DEF m
  <2>2. (m + b) % t = IF (m % t) + b = t THEN 0 ELSE (m % t) + b
    <3>1. t \in {2, 4, 8, 16, 32, 64} /\ b \in {1, 2, 4} /\ t % b = 0 /\ m \in Nat /\ m % b = 0
      BY <1>1, <1>2, <2>1
    <3> QED BY <3>1, Counting, Zenon
  <2>3. (o + (k + 1) * b) % t = IF (m % t) + b = t THEN 0 ELSE (m % t) + b
    BY <2>1, <2>2
  <2> QED BY <2>3 DEF m
<1>8. Burst!BeatAddr(r, 0) = a
  BY <1>1, <1>3, <1>5, <1>6
<1> DEFINE p == (o + k * b) % t
<1>9. p \in Nat
  <2>1. \A m \in Nat, d \in {2, 4, 8, 16, 32, 64} : m % d \in Nat
    OBVIOUS
  <2> QED BY <1>2, <1>6, <2>1
<1>10. Burst!BeatAddr(r, k) = lo + p /\ Burst!BeatAddr(r, k + 1) = lo + (IF p + b = t THEN 0 ELSE p + b)
  BY <1>3, <1>5, <1>7
<1> HIDE DEF p
<1>11. (lo + p) + b = lo + t <=> p + b = t
  BY <1>1, <1>2, <1>5, <1>9
<1>12. Burst!axi_burst_next(lo + p, a, "WRAP", r.size, r.len) = IF p + b = t THEN lo ELSE lo + p + b
  BY <1>4, <1>5, <1>11
<1>13. Burst!axi_burst_next(lo + p, a, "WRAP", r.size, r.len) = lo + (IF p + b = t THEN 0 ELSE p + b)
  BY <1>1, <1>2, <1>5, <1>9, <1>12
<1> QED BY <1>8, <1>10, <1>13 DEF a

LEMMA BurstStarts == ASSUME Burst!Init PROVE BurstInv
<1>1. PICK r \in Burst!Bursts : walk = [r |-> r, addr_q |-> r.addr, beat_q |-> 0]
  BY DEF Burst!Init
<1>2. At(r, r.addr, 0)
  <2>1. r.addr + 0 * Burst!Bytes(r.size) = r.addr
    BY BurstFields
  <2>2. CASE r.burst = "WRAP" BY <2>2, WrapWalk DEF At
  <2>3. CASE r.burst # "WRAP" BY <2>1, <2>3 DEF At
  <2> QED BY <2>2, <2>3
<1> QED BY <1>1, <1>2 DEF BurstInv

LEMMA BurstGoesOn == ASSUME BurstInv, Burst!Next PROVE BurstInv'
<1> DEFINE r == walk.r
           k == walk.beat_q
           a == walk.addr_q
           n == Burst!axi_burst_next(a, r.addr, r.burst, r.size, r.len)
<1>1. r \in Burst!Bursts /\ k \in Nat /\ At(r, a, k)
  BY DEF BurstInv
<1>2. walk' = [r |-> r, addr_q |-> n, beat_q |-> k + 1]
  BY DEF BurstInv, Burst!Next
<1>3. At(r, n, k + 1)
  <2>1. CASE r.burst = "FIXED" BY <1>1, <2>1 DEF At, Burst!axi_burst_next
  <2>2. CASE r.burst = "WRAP" BY <1>1, <2>2, WrapWalk DEF At
  <2>3. CASE r.burst = "INCR"
    <3> DEFINE b == Burst!Bytes(r.size)
    <3>1. b \in {1, 2, 4} /\ r.addr \in Nat
      BY <1>1, BurstFields
    <3>2. a = r.addr + k * b /\ n = a + b
      BY <1>1, <2>3 DEF At, Burst!axi_burst_next
    <3> HIDE DEF b
    <3>3. r.addr + k * b + b = r.addr + (k + 1) * b
      BY <1>1, <3>1
    <3>4. n = r.addr + (k + 1) * b
      BY <3>2, <3>3
    <3> QED BY <2>3, <3>4 DEF At, b
  <2> QED BY <1>1, <2>1, <2>2, <2>3, BurstFields
<1> QED BY <1>1, <1>2, <1>3 DEF BurstInv

\* The container of beat k of a burst that starts anywhere.
LEMMA Container ==
  ASSUME NEW b \in {1, 2, 4}, NEW a \in Nat, NEW k \in Nat
  PROVE  (a + k * b) \div b = ((a \div b) * b + k * b) \div b
<1>1. CASE b = 1 BY <1>1
<1>2. CASE b = 2 BY <1>2
<1>3. CASE b = 4 BY <1>3
<1> QED BY <1>1, <1>2, <1>3

LEMMA ContainerKept == ASSUME BurstInv PROVE Burst!SameContainer
<1> DEFINE r == walk.r
           k == walk.beat_q
           b == Burst!Bytes(r.size)
<1>1. r \in Burst!Bursts /\ k \in Nat /\ At(r, walk.addr_q, k)
  BY DEF BurstInv
<1>2. b \in {1, 2, 4} /\ 2 ^ r.size = b /\ r.addr \in Nat /\ r.burst \in {"FIXED", "INCR", "WRAP"}
  BY <1>1, BurstFields
<1>3. CASE r.burst # "INCR"
  BY <1>1, <1>2, <1>3 DEF At, Burst!SameContainer, Burst!BeatAddr
<1>4. CASE r.burst = "INCR"
  <2>1. walk.addr_q = r.addr + k * b
    BY <1>1, <1>4 DEF At
  <2>2. Burst!BeatAddr(r, k) = IF k = 0 THEN r.addr ELSE (r.addr \div b) * b + k * b
    BY <1>2, <1>4 DEF Burst!BeatAddr
  <2> HIDE DEF b
  <2>3. r.addr + k * b = r.addr \/ k # 0
    BY <1>2
  <2>4. walk.addr_q \div b = Burst!BeatAddr(r, k) \div b
    BY <1>1, <1>2, <2>1, <2>2, <2>3, Container
  <2> QED BY <2>4 DEF b, Burst!SameContainer
<1> QED BY <1>3, <1>4

-----------------------------------------------------------------------------
(* The list of regressions                                                 *)

list == walk.regressions
Has(key) == \E i \in DOMAIN list : list[i] = key
Ahead(key) == \E i \in DOMAIN walk.todo : walk.todo[i] = key[1]

RegressTypes ==
  walk \in [todo : Seq(Range(DOMAINS)), charts : SUBSET Series, rows : SUBSET Series,
           cell : [Series -> [latest : Values, prev : Values]], regressions : Seq(Series)]

\* The list has each series once, and of the series whose row has been those that
\* got worse; a domain comes once.
RegressInv ==
  /\ RegressTypes
  /\ \A i, j \in DOMAIN walk.todo : walk.todo[i] = walk.todo[j] => i = j
  /\ \A i, j \in DOMAIN list : list[i] = list[j] => i = j
  /\ \A key \in Series : Has(key) => Regress!Worse(key)
  /\ walk.charts \subseteq walk.rows
  /\ \A key \in walk.rows : ~Ahead(key)
  /\ \A key \in walk.charts : ~Has(key)
  /\ \A key \in Series : Ahead(key) => ~Has(key)
  /\ \A key \in Series : ~Ahead(key) /\ key \notin walk.rows /\ Regress!Worse(key) => Has(key)

LEMMA RegressStarts == ASSUME Regress!Init PROVE RegressInv
<1>1. /\ walk.todo = DOMAINS /\ walk.charts = {} /\ walk.rows = {} /\ walk.regressions = <<>>
      /\ walk \in [todo : {DOMAINS}, charts : {{}}, rows : {{}},
                   cell : [Series -> [latest : Values, prev : Values]], regressions : {<<>>}]
  BY DEF Regress!Init
<1>2. RegressTypes
  <2>1. <<>> \in Seq(Series) /\ DOMAINS \in Seq(Range(DOMAINS))
    BY AlgorithmsAssumption
  <2> QED BY <1>1, <2>1 DEF RegressTypes
<1>3. \A key : ~Has(key)
  BY <1>1 DEF Has, list
<1>4. \A key \in Series : Ahead(key)
  BY <1>1, AlgorithmsAssumption DEF Ahead, Range
<1>5. \A i, j \in DOMAIN walk.todo : walk.todo[i] = walk.todo[j] => i = j
  BY <1>1, AlgorithmsAssumption DEF IsInjective
<1> QED BY <1>1, <1>2, <1>3, <1>4, <1>5 DEF RegressInv, list

\* The list after a chart or a row: as it was, or with the key at its end.
LEMMA ListGrows ==
  ASSUME RegressInv, NEW key \in Series, NEW b \in BOOLEAN, b => ~Has(key) /\ Regress!Worse(key),
         walk'.regressions = IF b THEN Append(list, key) ELSE list,
         walk'.cell = walk.cell
  PROVE  /\ list' \in Seq(Series)
         /\ \A i, j \in DOMAIN list' : list'[i] = list'[j] => i = j
         /\ \A k \in Series : Has(k)' <=> Has(k) \/ (b /\ k = key)
         /\ \A k \in Series : Regress!Worse(k)' <=> Regress!Worse(k)
         /\ \A k \in Series : Has(k)' => Regress!Worse(k)'
<1>1. list \in Seq(Series) /\ \A i, j \in DOMAIN list : list[i] = list[j] => i = j
  BY DEF RegressInv, RegressTypes, list
<1>2. \A k \in Series : Regress!Worse(k)' <=> Regress!Worse(k)
  BY DEF Regress!Worse
<1>3. CASE ~b
  BY <1>1, <1>2, <1>3 DEF list, Has, RegressInv
<1>4. CASE b
  <2>1. list' = Append(list, key)
    BY <1>4 DEF list
  <2>2. /\ list' \in Seq(Series) /\ Len(list') = Len(list) + 1 /\ DOMAIN list = 1 .. Len(list)
        /\ DOMAIN list' = 1 .. Len(list) + 1 /\ Len(list) \in Nat
        /\ list'[Len(list) + 1] = key /\ \A i \in 1 .. Len(list) : list'[i] = list[i]
    BY <1>1, <2>1, AppendProperties
  <2>3. \A k \in Series : Has(k)' <=> Has(k) \/ k = key
    BY <2>2 DEF Has
  <2>4. \A i \in 1 .. Len(list) : list[i] # key
    BY <1>4, <2>2 DEF Has
  <2>5. \A i, j \in DOMAIN list' : list'[i] = list'[j] => i = j
    BY <1>1, <2>2, <2>4
  <2> QED BY <1>2, <1>4, <2>2, <2>3, <2>5 DEF RegressInv
<1> QED BY <1>3, <1>4

LEMMA RegressGoesOn == ASSUME RegressInv, Regress!Next PROVE RegressInv'
<1> USE DEF RegressInv, RegressTypes
<1>1. CASE Regress!Section
  <2> DEFINE td == walk.todo
             keys == {k \in Series : k[1] = Head(td)}
  <2>1. /\ td \in Seq(Range(DOMAINS)) /\ td # <<>>
        /\ walk' = [walk EXCEPT !.todo = Tail(td), !.rows = keys,
                       !.charts = {k \in keys : k[2] \in Regress!HEADLINE_SCOPES /\ <<k[1], k[3]>> \in HEADLINES}]
        /\ walk.charts = {} /\ walk.rows = {}
    BY <1>1 DEF Regress!Section
  <2>2. /\ walk'.todo = Tail(td) /\ walk'.rows = keys /\ walk'.charts \subseteq keys
        /\ list' = list /\ walk'.cell = walk.cell
    BY <2>1 DEF list
  <2>3. /\ Tail(td) \in Seq(Range(DOMAINS)) /\ Len(td) \in Nat /\ Len(td) # 0 /\ DOMAIN td = 1 .. Len(td)
        /\ DOMAIN Tail(td) = 1 .. Len(td) - 1 /\ \A i \in 1 .. Len(td) - 1 : Tail(td)[i] = td[i + 1]
        /\ Head(td) = td[1]
    BY <2>1, EmptySeq, LenProperties, HeadTailProperties
  <2> HIDE DEF td
  <2>4. RegressTypes'
    BY <2>1, <2>2, <2>3 DEF list
  <2>5. \A i, j \in DOMAIN td : td[i] = td[j] => i = j
    BY DEF td
  <2>6. \A i, j \in DOMAIN Tail(td) : Tail(td)[i] = Tail(td)[j] => i = j
    BY <2>3, <2>5
  <2>7. \A key \in Series : Ahead(key) <=> Ahead(key)' \/ key[1] = td[1]
    <3> TAKE key \in Series
    <3>1. Ahead(key) <=> \E i \in 1 .. Len(td) : td[i] = key[1]
      BY <2>3 DEF Ahead, td
    <3>2. Ahead(key)' <=> \E i \in 1 .. Len(td) - 1 : td[i + 1] = key[1]
      <4>1. Ahead(key)' <=> \E i \in DOMAIN walk'.todo : walk'.todo[i] = key[1]
        BY DEF Ahead
      <4>2. Ahead(key)' <=> \E i \in 1 .. Len(td) - 1 : Tail(td)[i] = key[1]
        BY <2>2, <2>3, <4>1
      <4> QED BY <2>3, <4>2
    <3>3. \A i \in 1 .. Len(td) : i = 1 \/ (i - 1 \in 1 .. Len(td) - 1 /\ (i - 1) + 1 = i)
      BY <2>3
    <3>4. \A i \in 1 .. Len(td) - 1 : i + 1 \in 1 .. Len(td)
      BY <2>3
    <3>5. 1 \in 1 .. Len(td)
      BY <2>3
    <3> QED BY <3>1, <3>2, <3>3, <3>4, <3>5
  <2>8. \A key \in keys : ~Ahead(key)'
    <3> SUFFICES ASSUME NEW key \in keys, NEW i \in 1 .. Len(td) - 1, td[i + 1] = td[1] PROVE FALSE
      BY <2>2, <2>3 DEF Ahead
    <3>1. i + 1 \in DOMAIN td /\ 1 \in DOMAIN td /\ i + 1 # 1
      BY <2>3
    <3> QED BY <2>5, <3>1
  <2>9. \A key : Has(key)' = Has(key)
    BY <2>2 DEF Has
  <2>10. \A key : Regress!Worse(key)' = Regress!Worse(key)
    BY <2>2 DEF Regress!Worse
  <2>11. \A key \in keys : Ahead(key) /\ ~Has(key)
    BY <2>3, <2>7
  <2> QED BY <2>1, <2>2, <2>3, <2>4, <2>6, <2>7, <2>8, <2>9, <2>10, <2>11
<1>2. ASSUME NEW key \in Series, Regress!Chart(key) PROVE RegressInv'
  <2>1. /\ key \in walk.charts
        /\ walk' = [walk EXCEPT !.charts = walk.charts \ {key},
                      !.regressions = IF Regress!Worse(key) THEN Append(list, key) ELSE list]
    BY <1>2 DEF Regress!Chart, list
  <2>2. /\ walk'.todo = walk.todo /\ walk'.charts = walk.charts \ {key} /\ walk'.rows = walk.rows
        /\ walk'.cell = walk.cell
        /\ walk'.regressions = IF Regress!Worse(key) THEN Append(list, key) ELSE list
        /\ walk' = [todo |-> walk'.todo, charts |-> walk'.charts, rows |-> walk'.rows,
                   cell |-> walk'.cell, regressions |-> walk'.regressions]
    BY <2>1
  <2> DEFINE b == Regress!Worse(key)
  <2>3. /\ list' \in Seq(Series)
        /\ \A i, j \in DOMAIN list' : list'[i] = list'[j] => i = j
        /\ \A k \in Series : Has(k)' <=> Has(k) \/ (b /\ k = key)
        /\ \A k \in Series : Regress!Worse(k)' <=> Regress!Worse(k)
        /\ \A k \in Series : Has(k)' => Regress!Worse(k)'
    <3>1. b \in BOOLEAN BY DEF Regress!Worse
    <3>2. b => ~Has(key) /\ Regress!Worse(key) BY <2>1
    <3> HIDE DEF b, RegressInv
    <3>3. walk'.regressions = IF b THEN Append(list, key) ELSE list
      BY <2>2 DEF b
    <3> QED BY <2>2, <3>1, <3>2, <3>3, ListGrows
  <2>4. RegressTypes'
    BY <2>2, <2>3 DEF list
  <2>5. \A k : Ahead(k)' = Ahead(k)
    BY <2>2 DEF Ahead
  <2> QED BY <2>1, <2>2, <2>3, <2>4, <2>5
<1>3. ASSUME NEW key \in Series, Regress!Row(key) PROVE RegressInv'
  <2> DEFINE b == Regress!Worse(key) /\ ~Regress!Listed(list, key)
  <2>1. /\ walk.charts = {} /\ key \in walk.rows
        /\ walk' = [walk EXCEPT !.rows = walk.rows \ {key},
                      !.regressions = IF b THEN Append(list, key) ELSE list]
    BY <1>3 DEF Regress!Row, list
  <2>2. /\ walk'.todo = walk.todo /\ walk'.charts = {} /\ walk'.rows = walk.rows \ {key}
        /\ walk'.cell = walk.cell
        /\ walk'.regressions = IF b THEN Append(list, key) ELSE list
        /\ walk' = [todo |-> walk'.todo, charts |-> walk'.charts, rows |-> walk'.rows,
                   cell |-> walk'.cell, regressions |-> walk'.regressions]
    BY <2>1
  <2>3. Regress!Listed(list, key) <=> Has(key)
    <3>1. \A i \in DOMAIN list : list[i] \in Series
      BY ElementOfSeq DEF list
    <3>2. \A i \in DOMAIN list : list[i][2] = key[2] /\ list[i][3] = key[3] => list[i] = key
      BY <3>1, AlgorithmsAssumption
    <3> QED BY <3>2 DEF Regress!Listed, Has
  <2>4. /\ list' \in Seq(Series)
        /\ \A i, j \in DOMAIN list' : list'[i] = list'[j] => i = j
        /\ \A k \in Series : Has(k)' <=> Has(k) \/ (b /\ k = key)
        /\ \A k \in Series : Regress!Worse(k)' <=> Regress!Worse(k)
        /\ \A k \in Series : Has(k)' => Regress!Worse(k)'
    <3>1. b \in BOOLEAN BY DEF Regress!Worse
    <3>2. b => ~Has(key) /\ Regress!Worse(key) BY <2>3
    <3> HIDE DEF b, RegressInv
    <3> QED BY <2>2, <3>1, <3>2, ListGrows
  <2>5. RegressTypes'
    BY <2>2, <2>4 DEF list
  <2>6. \A k : Ahead(k)' = Ahead(k)
    BY <2>2 DEF Ahead
  <2> QED BY <2>1, <2>2, <2>3, <2>4, <2>5, <2>6
<1> QED BY <1>1, <1>2, <1>3 DEF Regress!Next

LEMMA ListIsRight == ASSUME RegressInv PROVE Regress!RegressionsListed
<1> SUFFICES ASSUME walk.todo = <<>>, walk.charts = {}, walk.rows = {},
                    NEW key \in Series
             PROVE  LET c == walk.cell[key]
                        bad == /\ NULL \notin {c.latest, c.prev} /\ key[3] \in DOMAIN direction
                               /\ IF direction[key[3]] = "up" THEN c.latest < c.prev ELSE c.latest > c.prev
                               /\ 100 * Regress!Abs(c.latest - c.prev) >= tol * Regress!Abs(c.prev)
                    IN  bad <=> Has(key)
  BY DEF RegressInv, Regress!RegressionsListed, Has, list
<1>1. Regress!Worse(key) <=> Has(key)
  BY DEF RegressInv, Ahead
<1> DEFINE cur == walk.cell[key].latest
           prev == walk.cell[key].prev
           want == direction[key[3]]
           bad == /\ NULL \notin {cur, prev} /\ key[3] \in DOMAIN direction
                  /\ IF want = "up" THEN cur < prev ELSE cur > prev
                  /\ 100 * Regress!Abs(cur - prev) >= tol * Regress!Abs(prev)
<1>2. cur \in Int \cup {NULL} /\ prev \in Int \cup {NULL}
  BY AlgorithmsAssumption DEF RegressInv, RegressTypes
<1> HIDE DEF cur, prev
<1>3. ASSUME cur \in Int, prev \in Int, key[3] \in DOMAIN direction
      PROVE  Regress!verdict(key[3], cur, prev) = "worse" <=> bad
  <2>1. want \in {"up", "down"} /\ cur # NULL /\ prev # NULL /\ tol \in Nat
    BY <1>3, AlgorithmsAssumption
  <2> HIDE DEF want
  <2>2. prev = 0 => tol * Regress!Abs(prev) = 0 /\ 100 * Regress!Abs(cur - prev) >= 0
    BY <1>3, <2>1 DEF Regress!Abs
  <2> DEFINE p == tol * Regress!Abs(prev)
             d == 100 * Regress!Abs(cur - prev)
  <2>3. p \in Int /\ d \in Int
    BY <1>3, <2>1 DEF Regress!Abs
  <2>4. Regress!verdict(key[3], cur, prev) =
          IF cur = prev THEN "flat"
          ELSE IF prev # 0 /\ d < p THEN "flat"
          ELSE IF (cur > prev) <=> (want = "up") THEN "better" ELSE "worse"
    BY <1>3, <2>1 DEF Regress!verdict, want
  <2>5. bad <=> (IF want = "up" THEN cur < prev ELSE cur > prev) /\ d >= p
    BY <1>3, <2>1
  <2>6. prev = 0 => d >= p
    BY <2>2
  <2> HIDE DEF p, d, bad
  <2> QED BY <1>3, <2>1, <2>3, <2>4, <2>5, <2>6
<1>4. ASSUME ~(cur \in Int /\ prev \in Int /\ key[3] \in DOMAIN direction)
      PROVE  Regress!verdict(key[3], cur, prev) # "worse" /\ ~bad
  BY <1>2, <1>4 DEF Regress!verdict
<1>5. Regress!Worse(key) <=> bad
  BY <1>3, <1>4 DEF Regress!Worse, cur, prev
<1> QED BY <1>1, <1>5 DEF cur, prev

-----------------------------------------------------------------------------
(* The peak of the agents at work                                          *)

spanned  == DOMAIN walk.spans
t0(i)    == walk.spans[i].t0
t1(i)    == walk.spans[i].t1
Start(i) == [of |-> i, t |-> t0(i), d |-> 1]
End(i)   == [of |-> i, t |-> t1(i), d |-> -1]
started  == {i \in spanned : Start(i) \notin walk.left}
ended    == {i \in spanned : End(i) \notin walk.left}

SweepTypes ==
  /\ walk = [spans |-> walk.spans, left |-> walk.left, cur |-> walk.cur, best |-> walk.best]
  /\ spanned \subseteq Agents /\ walk.spans \in [spanned -> Sweep!Spans]
  /\ walk.left \subseteq Sweep!events(walk.spans)
  /\ walk.cur \in Int /\ walk.best \in Nat

\* What is done comes before what is left.  The spans open are those started and not
\* ended; at no time for which all starts are done were there more than best, and at
\* some time there were that many.
SweepInv ==
  /\ SweepTypes
  /\ \A e \in Sweep!events(walk.spans) \ walk.left, f \in walk.left : ~Sweep!Before(f, e)
  /\ walk.cur = Cardinality(started) - Cardinality(ended)
  /\ walk.cur <= walk.best
  /\ \A t \in Times : (\A i \in spanned : t0(i) <= t => i \in started) => Cardinality(Sweep!open(t)) <= walk.best
  /\ walk.best = 0 \/ \E t \in Times : walk.best <= Cardinality(Sweep!open(t))

Begun(t) == {i \in spanned : t0(i) <= t}
Over(t)  == {i \in spanned : t1(i) <= t}

\* The spans are finite in number, and begin before they end.
LEMMA SweepFields ==
  ASSUME SweepTypes
  PROVE  /\ IsFiniteSet(spanned)
         /\ \A X \in SUBSET spanned : IsFiniteSet(X) /\ Cardinality(X) \in Nat
         /\ \A i \in spanned : t0(i) \in Times /\ t1(i) \in Times /\ t0(i) \in Int /\ t1(i) \in Int /\ t0(i) <= t1(i)
         /\ \A e \in Sweep!events(walk.spans) : \E i \in spanned : e = Start(i) \/ e = End(i)
         /\ \A i \in spanned : Start(i) \in Sweep!events(walk.spans) /\ End(i) \in Sweep!events(walk.spans)
<1>1. IsFiniteSet(spanned)
  BY FS_Subset, AlgorithmsAssumption DEF SweepTypes
<1>2. \A X \in SUBSET spanned : IsFiniteSet(X) /\ Cardinality(X) \in Nat
  BY <1>1, FS_Subset, FS_CardinalityType
<1>3. \A i \in spanned : walk.spans[i] \in Sweep!Spans
  BY DEF SweepTypes
<1>4. \A i \in spanned : t0(i) \in Times /\ t1(i) \in Times /\ t0(i) \in Int /\ t1(i) \in Int /\ t0(i) <= t1(i)
  BY <1>3, AlgorithmsAssumption DEF Sweep!Spans, t0, t1
<1> QED BY <1>1, <1>2, <1>4 DEF Sweep!events, Start, End, t0, t1, spanned

\* The spans open at a time are those begun less those over.
LEMMA OpenCount ==
  ASSUME SweepTypes, NEW t \in Int
  PROVE  Cardinality(Sweep!open(t)) = Cardinality(Begun(t)) - Cardinality(Over(t))
<1>1. Begun(t) = Sweep!open(t) \cup Over(t) /\ Sweep!open(t) \cap Over(t) = {}
  BY SweepFields DEF Begun, Over, Sweep!open, t0, t1, spanned
<1>2. Sweep!open(t) \in SUBSET spanned /\ Over(t) \in SUBSET spanned
  BY DEF Over, Sweep!open, spanned
<1>3. IsFiniteSet(Sweep!open(t)) /\ IsFiniteSet(Over(t))
      /\ Cardinality(Sweep!open(t)) \in Nat /\ Cardinality(Over(t)) \in Nat
  BY <1>2, SweepFields
<1>4. Cardinality(Begun(t)) = Cardinality(Sweep!open(t)) + Cardinality(Over(t)) - Cardinality({})
  BY <1>1, <1>3, FS_Union
<1> QED BY <1>3, <1>4, FS_EmptySet

LEMMA SweepStarts == ASSUME Sweep!Init PROVE SweepInv
<1>1. PICK A \in SUBSET Agents : \E s \in [A -> Sweep!Spans] :
        walk = [spans |-> s, left |-> Sweep!events(s), cur |-> 0, best |-> 0]
  BY DEF Sweep!Init
<1>2. PICK s \in [A -> Sweep!Spans] : walk = [spans |-> s, left |-> Sweep!events(s), cur |-> 0, best |-> 0]
  BY <1>1
<1>3. SweepTypes
  BY <1>2 DEF SweepTypes, spanned
<1>4. started = {} /\ ended = {}
  BY <1>2, <1>3, SweepFields DEF started, ended
<1>5. walk.cur = Cardinality(started) - Cardinality(ended)
  BY <1>2, <1>4, FS_EmptySet
<1>6. \A t \in Times : (\A i \in spanned : t0(i) <= t => i \in started) => Cardinality(Sweep!open(t)) <= walk.best
  <2> SUFFICES ASSUME NEW t \in Times, \A i \in spanned : t0(i) <= t => i \in started
               PROVE  Sweep!open(t) = {}
    BY <1>2, FS_EmptySet
  <2> QED BY <1>4 DEF Sweep!open, t0, spanned
<1> QED BY <1>2, <1>3, <1>5, <1>6 DEF SweepInv

LEMMA SweepGoesOn == ASSUME SweepInv, Sweep!Next PROVE SweepInv'
<1>1. PICK e \in walk.left : Sweep!Step(e)
  BY DEF Sweep!Next
<1> DEFINE cur == walk.cur + e.d
<1>2. SweepTypes
  BY DEF SweepInv
<1>3. PICK i \in spanned : e = Start(i) \/ e = End(i)
  BY <1>1, <1>2, SweepFields DEF SweepTypes
<1>4. e.of = i /\ e.d \in {1, -1} /\ (e.d = 1 => e = Start(i) /\ e.t = t0(i)) /\ (e.d = -1 => e = End(i) /\ e.t = t1(i))
  BY <1>3 DEF Start, End
<1>5. /\ walk' = [walk EXCEPT !.left = walk.left \ {e}, !.cur = cur,
                              !.best = IF cur > walk.best THEN cur ELSE walk.best]
      /\ \A f \in walk.left : ~Sweep!Before(f, e)
  BY <1>1 DEF Sweep!Step
<1>6. /\ walk'.spans = walk.spans /\ walk'.left = walk.left \ {e} /\ walk'.cur = cur
      /\ walk'.best = IF cur > walk.best THEN cur ELSE walk.best
      /\ walk' = [spans |-> walk'.spans, left |-> walk'.left, cur |-> walk'.cur, best |-> walk'.best]
  BY <1>2, <1>5 DEF SweepTypes
<1>7. SweepTypes'
  BY <1>2, <1>4, <1>6 DEF SweepTypes, spanned
<1>8. /\ spanned' = spanned /\ \A j : t0(j)' = t0(j) /\ t1(j)' = t1(j)
      /\ \A j : Start(j)' = Start(j) /\ End(j)' = End(j)
      /\ \A t : Sweep!open(t)' = Sweep!open(t)
  BY <1>6 DEF spanned, t0, t1, Start, End, Sweep!open
<1>9. \A x \in Sweep!events(walk'.spans) \ walk'.left, f \in walk'.left : ~Sweep!Before(f, x)
  BY <1>5, <1>6 DEF SweepInv
<1>10. Cardinality(started) \in Nat /\ Cardinality(ended) \in Nat /\ IsFiniteSet(started) /\ IsFiniteSet(ended)
  BY <1>2, SweepFields DEF started, ended
<1>11. CASE e = End(i)
  <2>1. e.d = -1
    BY <1>11 DEF End
  <2>2. started' = started
    BY <1>6, <1>8, <1>11 DEF started, Start, End
  <2>3. ended' = ended \cup {i} /\ i \notin ended
    BY <1>1, <1>3, <1>6, <1>8, <1>11 DEF ended, End
  <2>4. Cardinality(ended') = Cardinality(ended) + 1
    BY <1>10, <2>3, FS_AddElement
  <2>5. walk'.cur = Cardinality(started') - Cardinality(ended') /\ walk'.cur <= walk'.best /\ walk'.best = walk.best
    BY <1>2, <1>6, <1>10, <2>1, <2>2, <2>4 DEF SweepInv, SweepTypes
  <2> QED BY <1>7, <1>8, <1>9, <2>2, <2>5 DEF SweepInv
<1>12. CASE e = Start(i)
  <2> DEFINE t == t0(i)
  <2>1. e.d = 1 /\ e.t = t /\ t \in Times /\ t \in Int
    BY <1>2, <1>12, SweepFields DEF Start
  <2>2. ended' = ended
    BY <1>6, <1>8, <1>12 DEF ended, Start, End
  <2>3. started' = started \cup {i} /\ i \notin started
    BY <1>1, <1>3, <1>6, <1>8, <1>12 DEF started, Start
  <2>4. Cardinality(started') = Cardinality(started) + 1
    BY <1>10, <2>3, FS_AddElement
  <2>5. walk'.cur = Cardinality(started') - Cardinality(ended) /\ walk'.cur = walk.cur + 1
    BY <1>2, <1>6, <1>10, <2>1, <2>4 DEF SweepInv, SweepTypes
  <2>6. walk'.cur <= walk'.best /\ walk.best <= walk'.best /\ walk'.best \in Nat
        /\ (walk'.best = walk.best \/ walk'.best = walk'.cur)
    BY <1>2, <1>6, <2>1, <1>7 DEF SweepTypes
  <2>7. \A j \in ended : t1(j) <= t
    <3> TAKE j \in ended
    <3>1. End(j) \in Sweep!events(walk.spans) \ walk.left /\ e \in walk.left
      BY <1>1, <1>2, SweepFields DEF ended
    <3>2. ~Sweep!Before(e, End(j))
      BY <3>1 DEF SweepInv
    <3> QED BY <1>2, <2>1, <3>2, SweepFields DEF Sweep!Before, End, ended
  <2>8. \A j \in spanned : t1(j) <= t => j \in ended
    <3> SUFFICES ASSUME NEW j \in spanned, t1(j) <= t, End(j) \in walk.left PROVE FALSE
      BY DEF ended
    <3>1. ~Sweep!Before(End(j), e)
      BY <1>5
    <3> QED BY <1>2, <2>1, <3>1, SweepFields DEF Sweep!Before, End
  <2>9. \A j \in started' : t0(j) <= t
    <3> TAKE j \in started'
    <3>1. CASE j = i BY <2>1, <3>1
    <3>2. CASE j # i
      <4>1. j \in spanned /\ Start(j) \in Sweep!events(walk.spans) \ walk.left /\ e \in walk.left
        BY <1>1, <1>2, <2>3, <3>2, SweepFields DEF started
      <4>2. ~Sweep!Before(e, Start(j))
        BY <4>1 DEF SweepInv
      <4> QED BY <1>2, <2>1, <4>1, <4>2, SweepFields DEF Sweep!Before, Start
    <3> QED BY <3>1, <3>2
  <2> HIDE DEF t
  <2>10. started' \in SUBSET spanned /\ ended \in SUBSET spanned /\ \A u : Begun(u) \in SUBSET spanned /\ Over(u) \in SUBSET spanned
    BY <1>3, <2>3 DEF started, ended, Begun, Over
  <2>11. \A X \in SUBSET spanned, Y \in SUBSET spanned : X \subseteq Y => Cardinality(X) <= Cardinality(Y)
    BY <1>2, SweepFields, FS_Subset
  <2>12. \A X \in SUBSET spanned : Cardinality(X) \in Nat
    BY <1>2, SweepFields
  <2>13. walk'.cur <= Cardinality(Sweep!open(t))
    <3>1. started' \subseteq Begun(t)
      BY <2>9, <2>10 DEF Begun
    <3>2. Over(t) \subseteq ended
      BY <2>8 DEF Over
    <3>3. Cardinality(started') <= Cardinality(Begun(t)) /\ Cardinality(Over(t)) <= Cardinality(ended)
      BY <2>10, <2>11, <3>1, <3>2
    <3>4. Cardinality(Sweep!open(t)) = Cardinality(Begun(t)) - Cardinality(Over(t))
      BY <1>2, <2>1, OpenCount
    <3>5. /\ Cardinality(started') \in Nat /\ Cardinality(Begun(t)) \in Nat
          /\ Cardinality(Over(t)) \in Nat /\ Cardinality(ended) \in Nat
      BY <2>10, <2>12
    <3> QED BY <2>5, <3>3, <3>4, <3>5
  <2>14. ASSUME NEW u \in Times, \A j \in spanned : t0(j) <= u => j \in started'
         PROVE  Cardinality(Sweep!open(u)) <= walk'.best
    <3>1. u \in Int
      BY AlgorithmsAssumption
    <3>2. Cardinality(Sweep!open(u)) = Cardinality(Begun(u)) - Cardinality(Over(u))
      BY <1>2, <3>1, OpenCount
    <3>3. CASE t <= u
      <4>1. Begun(u) \subseteq started'
        BY <2>14 DEF Begun
      <4>2. ended \subseteq Over(u)
        <5> SUFFICES ASSUME NEW j \in ended PROVE j \in spanned /\ t1(j) <= u
          BY DEF Over
        <5>1. t1(j) <= t /\ j \in spanned /\ t1(j) \in Int
          BY <1>2, <2>7, SweepFields DEF ended
        <5> QED BY <2>1, <3>1, <3>3, <5>1
      <4>3. Cardinality(Begun(u)) <= Cardinality(started') /\ Cardinality(ended) <= Cardinality(Over(u))
        BY <2>10, <2>11, <4>1, <4>2
      <4>4. /\ Cardinality(started') \in Nat /\ Cardinality(Begun(u)) \in Nat
            /\ Cardinality(Over(u)) \in Nat /\ Cardinality(ended) \in Nat
        BY <2>10, <2>12
      <4> QED BY <2>5, <2>6, <3>2, <4>3, <4>4
    <3>4. CASE ~(t <= u)
      <4>1. \A j \in spanned : t0(j) <= u => j \in started
        BY <2>3, <2>14, <3>4 DEF t
      <4>2. Cardinality(Sweep!open(u)) <= walk.best
        BY <4>1 DEF SweepInv
      <4>3. Cardinality(Sweep!open(u)) \in Int /\ walk.best \in Int
        <5>1. Cardinality(Begun(u)) \in Nat /\ Cardinality(Over(u)) \in Nat
          BY <2>10, <2>12
        <5> QED BY <1>2, <3>2, <5>1 DEF SweepTypes
      <4> QED BY <2>6, <4>2, <4>3
    <3> QED BY <3>3, <3>4
  <2>15. walk'.best = 0 \/ \E u \in Times : walk'.best <= Cardinality(Sweep!open(u))
    <3>1. CASE walk'.best = walk.best BY <3>1 DEF SweepInv
    <3>2. CASE walk'.best = walk'.cur BY <2>1, <2>13, <3>2
    <3> QED BY <2>6, <3>1, <3>2
  <2> QED BY <1>7, <1>8, <1>9, <2>2, <2>5, <2>6, <2>14, <2>15 DEF SweepInv
<1> QED BY <1>3, <1>11, <1>12

\* When nothing is left everything has started.
LEMMA PeakReached == ASSUME SweepInv PROVE Sweep!PeakIsRight
<1>1. SweepTypes
  BY DEF SweepInv
<1>2. ASSUME walk.left = {}, NEW t \in Times PROVE Cardinality(Sweep!open(t)) <= walk.best
  BY <1>2 DEF SweepInv, started
<1>3. \A t : Cardinality(Sweep!open(t)) \in Nat
  BY <1>1, SweepFields DEF Sweep!open, spanned
<1>4. ASSUME walk.left = {}, walk.best # 0 PROVE \E t \in Times : Cardinality(Sweep!open(t)) = walk.best
  <2>1. PICK t \in Times : walk.best <= Cardinality(Sweep!open(t))
    BY <1>4 DEF SweepInv
  <2>2. Cardinality(Sweep!open(t)) <= walk.best
    BY <1>2, <1>4
  <2> QED BY <1>1, <1>3, <2>1, <2>2 DEF SweepTypes
<1> QED BY <1>2, <1>4, SameCount DEF Sweep!PeakIsRight

-----------------------------------------------------------------------------
(* The seconds of a gate, of a log L                                       *)

SM    == STEP_MARKERS
Lines == [t : Nat \cup {NULL}, kind : SM \cup {"build", "other"}]

St(L)             == {k \in DOMAIN L : L[k].t # NULL}
Seconds(L)        == UNION {L[e[1]].t .. L[e[2]].t - 1 : e \in St(L) \X St(L)}
EndsIn(L, k, u)   == k \in St(L) /\ u < L[k].t /\ \A j \in St(L) : j < k => L[j].t <= u
UnderIn(L, k, s)  == \E j \in St(L) : /\ j < k /\ L[j].kind = s
                                      /\ \A i \in St(L) : j < i /\ i < k => L[i].kind \notin SM
\* The last banner of L is that of s.
LastIs(L, s)      == \E j \in St(L) : L[j].kind = s /\ \A i \in St(L) : j < i => L[i].kind \notin SM
\* The seconds that lines of Q end.
Sel(L, Q)         == {u \in Seconds(L) : \E k \in St(L) : EndsIn(L, k, u) /\ k \in Q}
Builds(L)         == {k \in St(L) : L[k].kind = "build"}
Runs(L)           == {k \in St(L) : L[k].kind # "build"}
Unders(L, s)      == {k \in St(L) : UnderIn(L, k, s)}
\* p is the last stamp of L, which is the latest.
Latest(L, p)      == p \in Nat /\ (\A k \in St(L) : L[k].t <= p) /\ (\E k \in St(L) : L[k].t = p)

StepsInv ==
  /\ walk = [lines |-> walk.lines, cur |-> walk.cur, prev_t |-> walk.prev_t, spans |-> walk.spans,
             build_s |-> walk.build_s, run_s |-> walk.run_s]
  /\ walk.lines \in Seq(Lines) /\ walk.cur \in SM \cup {NULL}
  /\ IF walk.prev_t = NULL THEN St(walk.lines) = {} ELSE Latest(walk.lines, walk.prev_t)
  /\ \A s \in SM : walk.cur = s <=> LastIs(walk.lines, s)
  /\ walk.build_s = Cardinality(Sel(walk.lines, Builds(walk.lines)))
  /\ walk.run_s = Cardinality(Sel(walk.lines, Runs(walk.lines)))
  /\ DOMAIN walk.spans = {s \in SM : Unders(walk.lines, s) # {}}
  /\ \A s \in DOMAIN walk.spans : walk.spans[s] = Cardinality(Sel(walk.lines, Unders(walk.lines, s)))

\* What a line adds to a log, stamped or not.
LEMMA LineAdded ==
  ASSUME NEW L \in Seq(Lines), NEW ln \in Lines
  PROVE  /\ Append(L, ln) \in Seq(Lines) /\ Len(L) \in Nat /\ Append(L, ln)[Len(L) + 1] = ln /\ Len(L) + 1 \notin St(L)
         /\ \A k \in St(L) : k \in Nat /\ k < Len(L) + 1 /\ Append(L, ln)[k] = L[k]
         /\ ln.t = NULL => St(Append(L, ln)) = St(L)
         /\ ln.t # NULL => St(Append(L, ln)) = St(L) \cup {Len(L) + 1}
<1> DEFINE M == Append(L, ln)
           n == Len(L) + 1
<1>1. /\ M \in Seq(Lines) /\ Len(L) \in Nat /\ DOMAIN L = 1 .. Len(L) /\ DOMAIN M = 1 .. Len(L) + 1
      /\ M[n] = ln /\ \A k \in 1 .. Len(L) : M[k] = L[k]
  BY AppendProperties
<1> HIDE DEF M
<1>2. n \notin St(L) /\ \A k \in St(L) : k \in Nat /\ k < n /\ M[k] = L[k]
  BY <1>1 DEF St
<1>3. \A k \in DOMAIN M : k \in DOMAIN L \/ k = n
  BY <1>1
<1>4. DOMAIN L \subseteq DOMAIN M /\ n \in DOMAIN M
  BY <1>1
<1> HIDE DEF n
<1>5. ln.t = NULL => St(M) = St(L)
  BY <1>1, <1>2, <1>3, <1>4 DEF St
<1>6. ln.t # NULL => St(M) = St(L) \cup {n}
  BY <1>1, <1>2, <1>3, <1>4 DEF St
<1> QED BY <1>1, <1>2, <1>5, <1>6 DEF M, n

\* A line without a stamp changes nothing.
LEMMA Unstamped ==
  ASSUME NEW L \in Seq(Lines), NEW ln \in Lines, ln.t = NULL
  PROVE  LET M == Append(L, ln)
         IN  /\ St(M) = St(L)
             /\ \A s : LastIs(M, s) <=> LastIs(L, s)
             /\ Builds(M) = Builds(L) /\ Runs(M) = Runs(L) /\ \A s : Unders(M, s) = Unders(L, s)
             /\ \A Q : Sel(M, Q) = Sel(L, Q)
             /\ \A p : Latest(M, p) <=> Latest(L, p)
<1> DEFINE M == Append(L, ln)
<1>1. St(M) = St(L) /\ \A k \in St(L) : M[k] = L[k]
  BY LineAdded
<1> HIDE DEF M
<1>2. Seconds(M) = Seconds(L)
  BY <1>1 DEF Seconds
<1>3. \A k, u : EndsIn(M, k, u) <=> EndsIn(L, k, u)
  BY <1>1 DEF EndsIn
<1>4. \A s : LastIs(M, s) <=> LastIs(L, s)
  BY <1>1 DEF LastIs
<1>5. \A k, s : UnderIn(M, k, s) <=> UnderIn(L, k, s)
  BY <1>1 DEF UnderIn
<1>6. \A p : Latest(M, p) <=> Latest(L, p)
  BY <1>1 DEF Latest
<1>7. Builds(M) = Builds(L) /\ Runs(M) = Runs(L) /\ \A s : Unders(M, s) = Unders(L, s)
  BY <1>1, <1>5 DEF Builds, Runs, Unders
<1>8. \A Q : Sel(M, Q) = Sel(L, Q)
  BY <1>1, <1>2, <1>3 DEF Sel
<1> QED BY <1>1, <1>4, <1>6, <1>7, <1>8 DEF M

\* The first stamp ends no second.
LEMMA FirstStamp ==
  ASSUME NEW L \in Seq(Lines), NEW ln \in Lines, ln.t # NULL, St(L) = {}, NEW Q
  PROVE  Sel(Append(L, ln), Q) = {} /\ Sel(L, Q) = {}
<1> DEFINE M == Append(L, ln)
           n == Len(L) + 1
<1>1. St(M) = {n} /\ M[n] = ln /\ ln.t \in Nat
  <2>1. ln.t \in Nat
    BY DEF Lines
  <2> QED BY <2>1, LineAdded
<1> HIDE DEF M, n
<1>2. Seconds(M) = {}
  <2>1. ln.t .. ln.t - 1 = {}
    BY <1>1
  <2> QED BY <1>1, <2>1 DEF Seconds
<1> QED BY <1>2 DEF Sel, Seconds, M

\* The seconds of a log are before its latest stamp.
LEMMA SecondsBefore ==
  ASSUME NEW L \in Seq(Lines), NEW p, Latest(L, p)
  PROVE  /\ \A k \in St(L) : L[k].t \in Nat /\ L[k].t <= p
         /\ \A u : u \in Seconds(L) <=> u \in Nat /\ u < p /\ \E j \in St(L) : L[j].t <= u
         /\ IsFiniteSet(Seconds(L))
<1>1. \A k \in St(L) : L[k].t \in Nat /\ L[k].t <= p
  <2>1. \A k \in DOMAIN L : L[k] \in Lines
    BY ElementOfSeq
  <2> QED BY <2>1 DEF Latest, St, Lines
<1>2. \A u : u \in Seconds(L) <=> \E j, k \in St(L) : u \in L[j].t .. L[k].t - 1
  <2> TAKE u
  <2>1. u \in Seconds(L) <=> \E e \in St(L) \X St(L) : u \in L[e[1]].t .. L[e[2]].t - 1
    BY DEF Seconds
  <2>2. \A j, k \in St(L) : <<j, k>> \in St(L) \X St(L) /\ <<j, k>>[1] = j /\ <<j, k>>[2] = k
    OBVIOUS
  <2>3. \A e \in St(L) \X St(L) : e[1] \in St(L) /\ e[2] \in St(L)
    OBVIOUS
  <2>4. ASSUME NEW j \in St(L), NEW k \in St(L), u \in L[j].t .. L[k].t - 1 PROVE u \in Seconds(L)
    <3>1. u \in L[<<j, k>>[1]].t .. L[<<j, k>>[2]].t - 1
      BY <2>4
    <3> QED BY <2>1, <2>2, <3>1
  <2> QED BY <2>1, <2>3, <2>4
<1>3. \A u : \A j, k \in St(L) : u \in L[j].t .. L[k].t - 1 <=> u \in Nat /\ L[j].t <= u /\ u < L[k].t
  BY <1>1
<1>4. PICK m \in St(L) : L[m].t = p
  BY DEF Latest
<1>5. p \in Nat
  BY DEF Latest
<1>6. ASSUME NEW u PROVE u \in Seconds(L) <=> u \in Nat /\ u < p /\ \E j \in St(L) : L[j].t <= u
  <2>1. u \in Seconds(L) => u \in Nat /\ u < p /\ \E j \in St(L) : L[j].t <= u
    BY <1>1, <1>2, <1>3, <1>5
  <2>2. u \in Nat /\ u < p /\ (\E j \in St(L) : L[j].t <= u) => u \in Seconds(L)
    BY <1>2, <1>3, <1>4
  <2> QED BY <2>1, <2>2
<1>7. Seconds(L) \in SUBSET (0 .. p)
  BY <1>5, <1>6
<1>8. IsFiniteSet(0 .. p)
  BY <1>5, FS_Interval
<1>9. IsFiniteSet(Seconds(L))
  BY <1>7, <1>8, FS_Subset
<1> QED BY <1>1, <1>6, <1>9

\* A later stamp adds the seconds since the last one, to the lines of Q if it is one.
LEMMA Stamped ==
  ASSUME NEW L \in Seq(Lines), NEW ln \in Lines, ln.t # NULL, NEW p, Latest(L, p), p <= ln.t,
         NEW P, NEW Q, \A k \in St(L) : k \in P <=> k \in Q
  PROVE  /\ Latest(Append(L, ln), ln.t)
         /\ Cardinality(Sel(L, P)) \in Nat
         /\ Cardinality(Sel(Append(L, ln), Q)) =
              Cardinality(Sel(L, P)) + (IF Len(L) + 1 \in Q THEN ln.t - p ELSE 0)
<1> DEFINE M == Append(L, ln)
           n == Len(L) + 1
           t == ln.t
<1>1. /\ M \in Seq(Lines) /\ n \in Nat /\ \A k \in St(L) : k \in Nat /\ k < n /\ M[k] = L[k]
      /\ M[n] = ln /\ n \notin St(L) /\ St(M) = St(L) \cup {n}
  <2>1. Len(L) \in Nat /\ n \in Nat
    BY LineAdded
  <2> QED BY <2>1, LineAdded
<1>2. t \in Nat /\ p \in Nat
  BY DEF Lines, Latest
<1>3. Latest(M, t)
  <2>1. \A k \in St(L) : L[k].t <= t
    BY <1>2, SecondsBefore
  <2> HIDE DEF M, n
  <2> QED BY <1>1, <1>2, <2>1 DEF Latest
<1> HIDE DEF M, n, t
<1>4. \A u : u \in Seconds(M) <=> u \in Seconds(L) \/ u \in p .. t - 1
  <2> TAKE u
  <2>1. u \in Seconds(M) <=> u \in Nat /\ u < t /\ \E j \in St(M) : M[j].t <= u
    BY <1>1, <1>3, SecondsBefore
  <2>2. u \in Seconds(L) <=> u \in Nat /\ u < p /\ \E j \in St(L) : L[j].t <= u
    BY SecondsBefore
  <2>3. p <= t /\ M[n].t = t
    BY <1>1 DEF t
  <2>4. PICK m \in St(L) : L[m].t = p
    BY DEF Latest
  <2>5. u \in p .. t - 1 <=> u \in Nat /\ p <= u /\ u < t
    BY <1>2
  <2>6. u \in Nat /\ u < t => ((\E j \in St(M) : M[j].t <= u) <=> \E j \in St(L) : L[j].t <= u)
    BY <1>1, <1>2, <2>3
  <2>7. u \in Nat /\ p <= u => \E j \in St(L) : L[j].t <= u
    BY <2>4
  <2> QED BY <1>2, <2>1, <2>2, <2>3, <2>5, <2>6, <2>7
<1>5. \A u \in Seconds(L), k \in St(L) : EndsIn(M, k, u) <=> EndsIn(L, k, u)
  BY <1>1 DEF EndsIn
<1>6. \A u \in Seconds(L) : ~EndsIn(M, n, u)
  <2> SUFFICES ASSUME NEW u \in Seconds(L), EndsIn(M, n, u) PROVE FALSE
    OBVIOUS
  <2>1. PICK m \in St(L) : L[m].t = p
    BY DEF Latest
  <2>2. M[m].t <= u
    BY <1>1 DEF EndsIn
  <2>3. u \in Nat /\ u < p
    BY SecondsBefore
  <2> QED BY <1>1, <1>2, <2>1, <2>2, <2>3
<1>7. \A u \in p .. t - 1 : EndsIn(M, n, u) /\ \A k \in St(L) : ~EndsIn(M, k, u)
  <2> TAKE u \in p .. t - 1
  <2>1. u \in Nat /\ p <= u /\ u < t
    BY <1>2
  <2>2. \A k \in St(L) : M[k].t \in Nat /\ M[k].t <= p /\ M[k].t <= u
    BY <1>1, <1>2, <2>1, SecondsBefore
  <2>3. \A k \in St(M) : k < n => M[k].t <= u
    BY <1>1, <2>2
  <2>4. M[n].t = t /\ n \in St(M)
    BY <1>1 DEF t
  <2>5. EndsIn(M, n, u)
    BY <2>1, <2>3, <2>4 DEF EndsIn
  <2>6. \A k \in St(L) : ~EndsIn(M, k, u)
    BY <2>1, <2>2 DEF EndsIn
  <2> QED BY <2>5, <2>6
<1> DEFINE new == IF n \in Q THEN p .. t - 1 ELSE {}
<1>8. Sel(M, Q) = Sel(L, P) \cup new
  <2>1. \A u \in Seconds(L) : u \in Sel(M, Q) <=> u \in Sel(L, P)
    BY <1>1, <1>4, <1>5, <1>6 DEF Sel
  <2>2. \A u \in p .. t - 1 : u \in Sel(M, Q) <=> n \in Q
    BY <1>1, <1>4, <1>7 DEF Sel
  <2>3. \A u : u \in Sel(M, Q) => u \in Seconds(M)
    BY DEF Sel
  <2>4. \A u : u \in Sel(L, P) => u \in Seconds(L)
    BY DEF Sel
  <2>5. \A u \in p .. t - 1 : u \notin Sel(L, P)
    BY <1>2, <2>4, SecondsBefore
  <2> QED BY <1>4, <2>1, <2>2, <2>3, <2>4, <2>5
<1>9. Sel(L, P) \cap new = {}
  <2>1. \A u \in Sel(L, P) : u \in Nat /\ u < p
    BY SecondsBefore DEF Sel
  <2> QED BY <1>2, <2>1
<1>10. IsFiniteSet(Sel(L, P)) /\ Cardinality(Sel(L, P)) \in Nat
  <2>1. Sel(L, P) \in SUBSET Seconds(L)
    BY DEF Sel
  <2> QED BY <2>1, SecondsBefore, FS_Subset, FS_CardinalityType
<1>11. IsFiniteSet(new) /\ Cardinality(new) = IF n \in Q THEN t - p ELSE 0
  <2>1. IsFiniteSet(p .. t - 1) /\ Cardinality(p .. t - 1) = IF p > t - 1 THEN 0 ELSE (t - 1) - p + 1
    BY <1>2, FS_Interval
  <2>2. p <= t
    BY DEF t
  <2>3. Cardinality(p .. t - 1) = t - p
    BY <1>2, <2>1, <2>2
  <2> QED BY <2>1, <2>3, FS_EmptySet
<1> HIDE DEF new
<1>12. Cardinality(Sel(M, Q)) = Cardinality(Sel(L, P)) + Cardinality(new) - Cardinality({})
  BY <1>8, <1>9, <1>10, <1>11, FS_Union
<1>13. Cardinality(Sel(M, Q)) = Cardinality(Sel(L, P)) + (IF n \in Q THEN t - p ELSE 0)
  BY <1>2, <1>10, <1>11, <1>12, FS_EmptySet
<1> QED BY <1>3, <1>10, <1>13 DEF M, n, t

\* Banners and kinds of line after a stamped line.
LEMMA Banners ==
  ASSUME NEW L \in Seq(Lines), NEW ln \in Lines, ln.t # NULL
  PROVE  LET M == Append(L, ln)
             n == Len(L) + 1
         IN  /\ \A s \in SM : LastIs(M, s) <=> IF ln.kind \in SM THEN s = ln.kind ELSE LastIs(L, s)
             /\ \A k \in St(L) : /\ k \in Builds(M) <=> k \in Builds(L)
                                 /\ k \in Runs(M) <=> k \in Runs(L)
                                 /\ \A s \in SM : k \in Unders(M, s) <=> k \in Unders(L, s)
             /\ n \in Builds(M) <=> ln.kind = "build"
             /\ n \in Runs(M) <=> ln.kind # "build"
             /\ \A s \in SM : n \in Unders(M, s) <=> LastIs(L, s)
             /\ \A s \in SM : Unders(M, s) \subseteq St(L) \cup {n} /\ Unders(L, s) \subseteq St(L)
<1> DEFINE M == Append(L, ln)
           n == Len(L) + 1
<1>1. /\ n \in Nat /\ \A k \in St(L) : k \in Nat /\ k < n /\ M[k] = L[k]
      /\ M[n] = ln /\ n \notin St(L) /\ St(M) = St(L) \cup {n}
  <2>1. Len(L) \in Nat /\ n \in Nat
    BY LineAdded
  <2> QED BY <2>1, LineAdded
<1> HIDE DEF M, n
<1>2. \A s \in SM : LastIs(M, s) <=> IF ln.kind \in SM THEN s = ln.kind ELSE LastIs(L, s)
  <2> TAKE s \in SM
  <2>1. CASE ln.kind \in SM
    <3>1. ASSUME NEW j \in St(M), M[j].kind = s, \A i \in St(M) : j < i => M[i].kind \notin SM PROVE s = ln.kind
      <4>1. j = n
        BY <1>1, <2>1, <3>1
      <4> QED BY <1>1, <3>1, <4>1
    <3>2. ASSUME s = ln.kind PROVE LastIs(M, s)
      <4>1. n \in St(M) /\ M[n].kind = s /\ \A i \in St(M) : ~(n < i)
        BY <1>1, <3>2
      <4> QED BY <4>1 DEF LastIs
    <3> QED BY <2>1, <3>1, <3>2 DEF LastIs
  <2>2. CASE ln.kind \notin SM
    <3>1. ASSUME NEW j \in St(M), M[j].kind = s, \A i \in St(M) : j < i => M[i].kind \notin SM
          PROVE  LastIs(L, s)
      <4>1. j \in St(L)
        BY <1>1, <2>2, <3>1
      <4> QED BY <1>1, <3>1, <4>1 DEF LastIs
    <3>2. ASSUME NEW j \in St(L), L[j].kind = s, \A i \in St(L) : j < i => L[i].kind \notin SM
          PROVE  LastIs(M, s)
      <4>1. j \in St(M) /\ M[j].kind = s /\ \A i \in St(M) : j < i => M[i].kind \notin SM
        BY <1>1, <2>2, <3>2
      <4> QED BY <4>1 DEF LastIs
    <3> QED BY <2>2, <3>1, <3>2 DEF LastIs
  <2> QED BY <2>1, <2>2
<1>3. \A k \in St(L), s \in SM : UnderIn(M, k, s) <=> UnderIn(L, k, s)
  <2> TAKE k \in St(L), s \in SM
  <2>1. \A j \in St(M) : j < k <=> j \in St(L) /\ j < k
    BY <1>1
  <2>2. \A j \in St(L) : M[j] = L[j]
    BY <1>1
  <2>3. St(L) \subseteq St(M)
    BY <1>1
  <2> QED BY <2>1, <2>2, <2>3 DEF UnderIn
<1>4. \A s \in SM : UnderIn(M, n, s) <=> LastIs(L, s)
  <2> TAKE s \in SM
  <2>1. \A j \in St(M) : j < n <=> j \in St(L)
    BY <1>1
  <2>2. \A j \in St(L) : M[j] = L[j]
    BY <1>1
  <2>3. St(L) \subseteq St(M)
    BY <1>1
  <2> QED BY <2>1, <2>2, <2>3 DEF UnderIn, LastIs
<1> QED BY <1>1, <1>2, <1>3, <1>4 DEF M, n, Builds, Runs, Unders

LEMMA StepsStart == ASSUME Steps!Init PROVE StepsInv
<1>1. walk = [lines |-> <<>>, cur |-> NULL, prev_t |-> NULL,
              spans |-> [s \in {} |-> 0], build_s |-> 0, run_s |-> 0]
  BY DEF Steps!Init
<1>2. St(walk.lines) = {} /\ walk.lines \in Seq(Lines)
  BY <1>1 DEF St
<1>3. Seconds(walk.lines) = {}
  BY <1>2 DEF Seconds
<1>4. \A Q : Sel(walk.lines, Q) = {}
  BY <1>3 DEF Sel
<1>5. \A s \in SM : s # NULL /\ ~LastIs(walk.lines, s) /\ Unders(walk.lines, s) = {}
  BY <1>2, AlgorithmsAssumption DEF LastIs, Unders, SM
<1> QED BY <1>1, <1>2, <1>4, <1>5, FS_EmptySet DEF StepsInv

LEMMA StepsGoOn == ASSUME StepsInv, Steps!Next PROVE StepsInv'
<1> DEFINE L == walk.lines
           p == walk.prev_t
           n == Len(L) + 1
<1>1. PICK kind \in SM \cup {"build", "other"}, gap \in Gaps :
        \E t \in {NULL, (IF p = NULL THEN 0 ELSE p) + gap} : Steps!Read([t |-> t, kind |-> kind])
  BY DEF Steps!Next, SM
<1>2. PICK t \in {NULL, (IF p = NULL THEN 0 ELSE p) + gap} : Steps!Read([t |-> t, kind |-> kind])
  BY <1>1
<1> DEFINE ln == [t |-> t, kind |-> kind]
           M == Append(L, ln)
           had(s) == IF s \in DOMAIN walk.spans THEN walk.spans[s] ELSE 0
           dt == IF p = NULL THEN 0 ELSE t - p
<1>3. p = NULL \/ p \in Nat
  BY DEF StepsInv, Latest
<1>4. t = NULL \/ (t \in Nat /\ (p # NULL => p <= t))
  <2>1. gap \in Nat
    BY AlgorithmsAssumption
  <2>2. t = NULL \/ t = (IF p = NULL THEN 0 ELSE p) + gap
    BY <1>2
  <2>3. CASE p = NULL
    <3>1. t = NULL \/ t = 0 + gap
      BY <2>2, <2>3
    <3> QED BY <2>1, <2>3, <3>1
  <2>4. CASE p # NULL
    <3>1. t = NULL \/ t = p + gap
      BY <2>2, <2>4
    <3> HIDE DEF p
    <3> QED BY <1>3, <2>1, <2>4, <3>1
  <2> QED BY <2>3, <2>4
<1>5. ln \in Lines /\ ln.t = t /\ ln.kind = kind
  BY <1>4 DEF Lines
<1>6. L \in Seq(Lines)
  BY DEF StepsInv
<1>7. walk' = IF t = NULL THEN [walk EXCEPT !.lines = M]
              ELSE [walk EXCEPT !.lines = M,
                      !.spans = IF walk.cur = NULL THEN walk.spans ELSE [s \in DOMAIN walk.spans \cup {walk.cur} |-> had(s) + IF s = walk.cur THEN dt ELSE 0],
                      !.build_s = IF kind = "build" THEN walk.build_s + dt ELSE walk.build_s,
                      !.run_s = IF kind # "build" THEN walk.run_s + dt ELSE walk.run_s,
                      !.prev_t = t,
                      !.cur = IF kind \in SM THEN kind ELSE walk.cur]
  BY <1>2 DEF StepsInv, Steps!Read, Steps!charged, SM
<1> HIDE DEF ln
<1>8. CASE t = NULL
  <2>1. /\ walk' = [lines |-> M, cur |-> walk.cur, prev_t |-> p, spans |-> walk.spans,
                    build_s |-> walk.build_s, run_s |-> walk.run_s]
    BY <1>7, <1>8 DEF StepsInv
  <2>2. /\ walk'.lines = M /\ walk'.cur = walk.cur /\ walk'.prev_t = p /\ walk'.spans = walk.spans
        /\ walk'.build_s = walk.build_s /\ walk'.run_s = walk.run_s
        /\ walk' = [lines |-> walk'.lines, cur |-> walk'.cur, prev_t |-> walk'.prev_t, spans |-> walk'.spans,
                    build_s |-> walk'.build_s, run_s |-> walk'.run_s]
    BY <2>1
  <2>3. M \in Seq(Lines)
    BY <1>5, <1>6, LineAdded
  <2> HIDE DEF M
  <2>4. /\ St(M) = St(L)
        /\ \A s : LastIs(M, s) <=> LastIs(L, s)
        /\ Builds(M) = Builds(L) /\ Runs(M) = Runs(L) /\ \A s : Unders(M, s) = Unders(L, s)
        /\ \A Q : Sel(M, Q) = Sel(L, Q)
        /\ Latest(M, p) <=> Latest(L, p)
    BY <1>5, <1>6, <1>8, Unstamped DEF M
  <2> QED BY <2>2, <2>3, <2>4 DEF StepsInv
<1>9. CASE t # NULL
  <2> DEFINE spans == IF walk.cur = NULL THEN walk.spans ELSE [s \in DOMAIN walk.spans \cup {walk.cur} |-> had(s) + IF s = walk.cur THEN dt ELSE 0]
  <2>1. /\ walk'.lines = M /\ walk'.prev_t = t /\ walk'.spans = spans
        /\ walk'.cur = (IF kind \in SM THEN kind ELSE walk.cur)
        /\ walk'.build_s = (IF kind = "build" THEN walk.build_s + dt ELSE walk.build_s)
        /\ walk'.run_s = (IF kind # "build" THEN walk.run_s + dt ELSE walk.run_s)
        /\ walk' = [lines |-> walk'.lines, cur |-> walk'.cur, prev_t |-> walk'.prev_t, spans |-> walk'.spans,
                    build_s |-> walk'.build_s, run_s |-> walk'.run_s]
    <3> HIDE DEF spans, M, dt
    <3>1. walk' = [lines |-> M, cur |-> IF kind \in SM THEN kind ELSE walk.cur, prev_t |-> t, spans |-> spans,
                   build_s |-> IF kind = "build" THEN walk.build_s + dt ELSE walk.build_s,
                   run_s |-> IF kind # "build" THEN walk.run_s + dt ELSE walk.run_s]
      BY <1>7, <1>9 DEF StepsInv, spans, M, dt
    <3> QED BY <3>1
  <2>2. M \in Seq(Lines) /\ St(M) = St(L) \cup {n}
    <3> HIDE DEF L
    <3>1. ln.t # NULL
      BY <1>5, <1>9
    <3> QED BY <1>5, <1>6, <3>1, LineAdded
  <2>3. /\ \A s \in SM : LastIs(M, s) <=> IF kind \in SM THEN s = kind ELSE LastIs(L, s)
        /\ \A k \in St(L) : /\ k \in Builds(M) <=> k \in Builds(L)
                            /\ k \in Runs(M) <=> k \in Runs(L)
                            /\ \A s \in SM : k \in Unders(M, s) <=> k \in Unders(L, s)
        /\ n \in Builds(M) <=> kind = "build"
        /\ n \in Runs(M) <=> kind # "build"
        /\ \A s \in SM : n \in Unders(M, s) <=> walk.cur = s
        /\ \A s \in SM : Unders(M, s) \subseteq St(L) \cup {n} /\ Unders(L, s) \subseteq St(L)
    <3>1. \A s \in SM : walk.cur = s <=> LastIs(L, s)
      BY DEF StepsInv
    <3> QED BY <1>5, <1>6, <1>9, <3>1, Banners
  <2>4. /\ Latest(M, t)
        /\ Cardinality(Sel(M, Builds(M))) = Cardinality(Sel(L, Builds(L))) + (IF kind = "build" THEN dt ELSE 0)
        /\ Cardinality(Sel(M, Runs(M))) = Cardinality(Sel(L, Runs(L))) + (IF kind # "build" THEN dt ELSE 0)
        /\ \A s \in SM : Cardinality(Sel(M, Unders(M, s)))
                           = Cardinality(Sel(L, Unders(L, s))) + (IF walk.cur = s THEN dt ELSE 0)
        /\ Cardinality(Sel(L, Builds(L))) \in Nat /\ Cardinality(Sel(L, Runs(L))) \in Nat
        /\ \A s \in SM : Cardinality(Sel(L, Unders(L, s))) \in Nat
    <3>1. CASE p = NULL
      <4>1. St(L) = {} /\ dt = 0
        BY <3>1 DEF StepsInv
      <4> HIDE DEF dt
      <4>2. \A Q : Cardinality(Sel(M, Q)) = 0 /\ Cardinality(Sel(L, Q)) = 0
        BY <1>5, <1>6, <1>9, <4>1, FirstStamp, FS_EmptySet
      <4>3. Latest(M, t)
        <5>1. St(M) = {n} /\ M[n] = ln /\ t \in Nat
          BY <1>4, <1>5, <1>6, <1>9, <4>1, LineAdded
        <5> HIDE DEF M
        <5> QED BY <1>5, <5>1 DEF Latest
      <4> HIDE DEF M
      <4> QED BY <4>1, <4>2, <4>3
    <3>2. CASE p # NULL
      <4>1. Latest(L, p) /\ p <= t /\ dt = t - p
        BY <1>4, <1>9, <3>2 DEF StepsInv
      <4> HIDE DEF p, dt
      <4>2. \A P, Q : (\A k \in St(L) : k \in P <=> k \in Q) =>
              /\ Latest(M, t)
              /\ Cardinality(Sel(L, P)) \in Nat
              /\ Cardinality(Sel(M, Q)) = Cardinality(Sel(L, P)) + (IF n \in Q THEN dt ELSE 0)
        BY <1>5, <1>6, <1>9, <4>1, Stamped
      <4> HIDE DEF M, n, L
      <4> QED BY <2>3, <4>2
    <3> QED BY <3>1, <3>2
  <2>5. dt \in Nat
    BY <1>3, <1>4, <1>9
  <2> HIDE DEF M, dt, n, had, spans
  <2>6. \A s \in SM : walk'.cur = s <=> LastIs(M, s)
    <3>1. \A s \in SM : walk.cur = s <=> LastIs(L, s)
      BY DEF StepsInv
    <3> QED BY <2>1, <2>3, <3>1
  <2>7. walk'.cur \in SM \cup {NULL}
    BY <2>1 DEF StepsInv
  <2>8. /\ walk'.build_s = Cardinality(Sel(M, Builds(M)))
        /\ walk'.run_s = Cardinality(Sel(M, Runs(M)))
    BY <2>1, <2>4, <2>5 DEF StepsInv
  <2>9. /\ DOMAIN spans = {s \in SM : Unders(M, s) # {}}
        /\ \A s \in DOMAIN spans : spans[s] = Cardinality(Sel(M, Unders(M, s)))
    <3>1. /\ DOMAIN walk.spans = {s \in SM : Unders(L, s) # {}}
          /\ \A s \in DOMAIN walk.spans : walk.spans[s] = Cardinality(Sel(L, Unders(L, s)))
          /\ walk.cur \in SM \cup {NULL} /\ NULL \notin SM
      BY AlgorithmsAssumption DEF StepsInv, SM
    <3>2. \A s \in SM : Unders(M, s) # {} <=> Unders(L, s) # {} \/ walk.cur = s
      BY <2>3
    <3>3. CASE walk.cur = NULL
      <4>1. spans = walk.spans
        BY <3>3 DEF spans
      <4>2. \A s \in SM : Cardinality(Sel(M, Unders(M, s))) = Cardinality(Sel(L, Unders(L, s)))
        BY <2>4, <3>1, <3>3
      <4> QED BY <3>1, <3>2, <3>3, <4>1, <4>2
    <3>4. CASE walk.cur # NULL
      <4>1. /\ DOMAIN spans = DOMAIN walk.spans \cup {walk.cur}
            /\ spans[walk.cur] = had(walk.cur) + dt
            /\ \A s \in DOMAIN walk.spans : s # walk.cur => spans[s] = walk.spans[s] + 0
        BY <3>4 DEF spans, had
      <4>2. walk.cur \in SM
        BY <3>1, <3>4
      <4>3. had(walk.cur) = Cardinality(Sel(L, Unders(L, walk.cur)))
        <5>1. CASE walk.cur \in DOMAIN walk.spans
          BY <3>1, <5>1 DEF had
        <5>2. CASE walk.cur \notin DOMAIN walk.spans
          <6>1. Unders(L, walk.cur) = {}
            BY <3>1, <4>2, <5>2
          <6>2. Sel(L, Unders(L, walk.cur)) = {}
            BY <6>1 DEF Sel
          <6> QED BY <5>2, <6>2, FS_EmptySet DEF had
        <5> QED BY <5>1, <5>2
      <4>4. \A s \in DOMAIN walk.spans : s # walk.cur => spans[s] = Cardinality(Sel(M, Unders(M, s)))
        BY <2>4, <3>1, <4>1
      <4>5. spans[walk.cur] = Cardinality(Sel(M, Unders(M, walk.cur)))
        BY <2>4, <4>1, <4>2, <4>3
      <4>6. DOMAIN spans = {s \in SM : Unders(M, s) # {}}
        BY <3>1, <3>2, <4>1, <4>2
      <4> QED BY <4>1, <4>4, <4>5, <4>6
    <3> QED BY <3>3, <3>4
  <2> QED BY <1>9, <2>1, <2>2, <2>4, <2>6, <2>7, <2>8, <2>9 DEF StepsInv
<1> QED BY <1>8, <1>9

\* The invariant says it of walk.lines.
LEMMA SecondsRight == ASSUME StepsInv PROVE Steps!SpansAddUp
<1> DEFINE L == walk.lines
<1>1. Steps!stamped = St(L)
  BY DEF Steps!stamped, St
<1>2. Steps!seconds = Seconds(L)
  BY <1>1 DEF Steps!seconds, Seconds
<1>3. \A k, u : Steps!Ends(k, u) <=> EndsIn(L, k, u)
  BY <1>1 DEF Steps!Ends, EndsIn
<1>4. \A k, s : Steps!Under(k, s) <=> UnderIn(L, k, s)
  BY <1>1 DEF Steps!Under, UnderIn, SM
<1>5. Sel(L, Builds(L)) = {u \in Steps!seconds : \E k \in Steps!stamped : Steps!Ends(k, u) /\ L[k].kind = "build"}
  BY <1>1, <1>2, <1>3 DEF Sel, Builds
<1>6. Sel(L, Runs(L)) = {u \in Steps!seconds : \E k \in Steps!stamped : Steps!Ends(k, u) /\ L[k].kind # "build"}
  BY <1>1, <1>2, <1>3 DEF Sel, Runs
<1>7. \A s : Sel(L, Unders(L, s)) = {u \in Steps!seconds : \E k \in Steps!stamped : Steps!Ends(k, u) /\ Steps!Under(k, s)}
  BY <1>1, <1>2, <1>3, <1>4 DEF Sel, Unders
<1>8. {s \in SM : Unders(L, s) # {}} = {s \in STEP_MARKERS : \E k \in Steps!stamped : Steps!Under(k, s)}
  BY <1>1, <1>4 DEF Unders, SM
<1> QED BY <1>5, <1>6, <1>7, <1>8, SameCount DEF Steps!SpansAddUp, StepsInv

-----------------------------------------------------------------------------
(* The agents of a stream S                                                *)

Who(S, p)     == {k \in DOMAIN S : S[k].parent = p}
Cnt(S, E)     == Cardinality({k \in DOMAIN S : S[k] \in E})
NamedIn(S, t) == \E k \in DOMAIN S : S[k].task = t

Turns(p) == {e \in Stream!Events : e.parent = p /\ e.type = "assistant"}
Uses(p)  == {e \in Stream!Events : e.parent = p /\ e.usage}
Calls(p) == {e \in Stream!Events : e.parent = p /\ e.task # NULL}
Fails(p) == {e \in Stream!Events : e.parent = p /\ e.type = "user"}

\* Record r tells of the events of p.
TellsOf(S, r, p) ==
  /\ r = [name |-> r.name, t0 |-> r.t0, t1 |-> r.t1, turns |-> r.turns, tokens |-> r.tokens,
          tool_calls |-> r.tool_calls, tool_errors |-> r.tool_errors]
  /\ r.turns = Cnt(S, Turns(p)) /\ r.tokens = Cnt(S, Uses(p))
  /\ r.tool_calls = Cnt(S, Calls(p)) /\ r.tool_errors = Cnt(S, Fails(p))
  /\ IF Who(S, p) = {} THEN r.t0 = NULL
     ELSE /\ r.t0 \in Who(S, p) /\ \A k \in Who(S, p) : r.t0 <= k
          /\ r.t1 \in Who(S, p) /\ \A k \in Who(S, p) : k <= r.t1

\* Every agent has its place in the order.
Shape(w) ==
  /\ w = [stream |-> w.stream, root |-> w.root, agents |-> w.agents, order |-> w.order]
  /\ w.agents = [t \in DOMAIN w.agents |-> w.agents[t]]
  /\ DOMAIN w.agents \subseteq Tids /\ IsFiniteSet(DOMAIN w.agents)
  /\ w.order \in Seq(Tids) /\ Len(w.order) = Cardinality(DOMAIN w.agents)

StreamInv ==
  /\ Shape(walk) /\ walk.stream \in Seq(Stream!Events)
  /\ TellsOf(walk.stream, walk.root, NULL)
  /\ \A t : t \in DOMAIN walk.agents <=> t \in Tids /\ (Who(walk.stream, t) # {} \/ NamedIn(walk.stream, t))
  /\ \A t \in DOMAIN walk.agents :
       /\ TellsOf(walk.stream, walk.agents[t], t)
       /\ walk.agents[t].name = IF NamedIn(walk.stream, t) THEN LabelOf[t] ELSE "unknown-agent"

\* What an event adds to a stream.
LEMMA EventAdded ==
  ASSUME NEW S \in Seq(Stream!Events), NEW e \in Stream!Events
  PROVE  LET M == Append(S, e)
             n == Len(S) + 1
         IN  /\ M \in Seq(Stream!Events) /\ n \in Nat
             /\ DOMAIN M = DOMAIN S \cup {n} /\ n \notin DOMAIN S /\ M[n] = e
             /\ \A k \in DOMAIN S : k \in Nat /\ k < n /\ M[k] = S[k]
             /\ \A E : Cnt(S, E) \in Nat /\ Cnt(M, E) = Cnt(S, E) + (IF e \in E THEN 1 ELSE 0)
             /\ \A p : Who(M, p) = Who(S, p) \cup (IF e.parent = p THEN {n} ELSE {})
             /\ \A t : NamedIn(M, t) <=> NamedIn(S, t) \/ e.task = t
<1> DEFINE M == Append(S, e)
           n == Len(S) + 1
<1>1. /\ M \in Seq(Stream!Events) /\ Len(S) \in Nat /\ DOMAIN S = 1 .. Len(S) /\ DOMAIN M = 1 .. Len(S) + 1
      /\ M[n] = e /\ \A k \in 1 .. Len(S) : M[k] = S[k]
  BY AppendProperties
<1> HIDE DEF M
<1>2. n \in Nat /\ DOMAIN M = DOMAIN S \cup {n} /\ n \notin DOMAIN S /\ \A k \in DOMAIN S : k \in Nat /\ k < n /\ M[k] = S[k]
  BY <1>1
<1>3. IsFiniteSet(DOMAIN S)
  BY <1>1, FS_Interval
<1> HIDE DEF n
<1>4. ASSUME NEW E PROVE Cnt(S, E) \in Nat /\ Cnt(M, E) = Cnt(S, E) + (IF e \in E THEN 1 ELSE 0)
  <2> DEFINE A == {k \in DOMAIN S : S[k] \in E}
             B == {k \in DOMAIN M : M[k] \in E}
  <2>1. IsFiniteSet(A) /\ n \notin A
    <3>1. A \in SUBSET DOMAIN S
      OBVIOUS
    <3> QED BY <1>2, <1>3, <3>1, FS_Subset
  <2>2. B = IF e \in E THEN A \cup {n} ELSE A
    BY <1>1, <1>2
  <2> HIDE DEF A, B
  <2>3. Cardinality(A) \in Nat /\ Cardinality(A \cup {n}) = Cardinality(A) + 1
    BY <2>1, FS_AddElement, FS_CardinalityType
  <2>4. Cardinality(B) = Cardinality(A) + (IF e \in E THEN 1 ELSE 0)
    BY <2>2, <2>3
  <2> QED BY <2>3, <2>4 DEF Cnt, A, B
<1>5. \A p : Who(M, p) = Who(S, p) \cup (IF e.parent = p THEN {n} ELSE {})
  BY <1>1, <1>2 DEF Who
<1>6. \A t : NamedIn(M, t) <=> NamedIn(S, t) \/ e.task = t
  BY <1>1, <1>2 DEF NamedIn
<1> QED BY <1>1, <1>2, <1>4, <1>5, <1>6 DEF M, n

\* The record an event is of is told of it ...
LEMMA ToldOfIt ==
  ASSUME NEW S \in Seq(Stream!Events), NEW e \in Stream!Events, NEW r, TellsOf(S, r, e.parent)
  PROVE  /\ TellsOf(Append(S, e), Stream!Told(r, e, Len(S) + 1), e.parent)
         /\ Stream!Told(r, e, Len(S) + 1).name = r.name
<1> DEFINE M == Append(S, e)
           n == Len(S) + 1
           p == e.parent
           v == Stream!Told(r, e, n)
<1>1. v = [name |-> r.name, t0 |-> IF r.t0 = NULL THEN n ELSE r.t0, t1 |-> n,
           turns |-> IF e.type = "assistant" THEN r.turns + 1 ELSE r.turns,
           tokens |-> IF e.usage THEN r.tokens + 1 ELSE r.tokens,
           tool_calls |-> IF e.task # NULL THEN r.tool_calls + 1 ELSE r.tool_calls,
           tool_errors |-> IF e.type = "user" THEN r.tool_errors + 1 ELSE r.tool_errors]
  <2> DEFINE first == IF r.t0 = NULL THEN n ELSE r.t0
             turns == IF e.type = "assistant" THEN r.turns + 1 ELSE r.turns
             tokens == IF e.usage THEN r.tokens + 1 ELSE r.tokens
             calls == IF e.task # NULL THEN r.tool_calls + 1 ELSE r.tool_calls
             fails == IF e.type = "user" THEN r.tool_errors + 1 ELSE r.tool_errors
  <2>1. v = [r EXCEPT !.t0 = first, !.t1 = n, !.turns = turns, !.tokens = tokens, !.tool_calls = calls,
                      !.tool_errors = fails]
    BY DEF Stream!Told
  <2> HIDE DEF n, first, turns, tokens, calls, fails, v
  <2>2. r = [name |-> r.name, t0 |-> r.t0, t1 |-> r.t1, turns |-> r.turns, tokens |-> r.tokens,
             tool_calls |-> r.tool_calls, tool_errors |-> r.tool_errors]
    BY DEF TellsOf
  <2>3. v = [name |-> r.name, t0 |-> first, t1 |-> n, turns |-> turns, tokens |-> tokens, tool_calls |-> calls,
             tool_errors |-> fails]
    BY <2>1, <2>2
  <2> QED BY <2>3 DEF first, turns, tokens, calls, fails
<1> HIDE DEF v
<1>2. /\ n \in Nat /\ \A k \in Who(S, p) : k \in Nat /\ k < n
      /\ \A E : Cnt(S, E) \in Nat /\ Cnt(M, E) = Cnt(S, E) + (IF e \in E THEN 1 ELSE 0)
      /\ Who(M, p) = Who(S, p) \cup {n}
  BY EventAdded DEF Who
<1> HIDE DEF M, n
<1>3. /\ e \in Turns(p) <=> e.type = "assistant"
      /\ e \in Uses(p) <=> e.usage
      /\ e \in Calls(p) <=> e.task # NULL
      /\ e \in Fails(p) <=> e.type = "user"
  BY DEF Turns, Uses, Calls, Fails
<1>4. /\ v.turns = Cnt(M, Turns(p)) /\ v.tokens = Cnt(M, Uses(p))
      /\ v.tool_calls = Cnt(M, Calls(p)) /\ v.tool_errors = Cnt(M, Fails(p))
  <2>1. v.turns = Cnt(M, Turns(p))
    BY <1>1, <1>2, <1>3 DEF TellsOf
  <2>2. v.tokens = Cnt(M, Uses(p))
    BY <1>1, <1>2, <1>3 DEF TellsOf
  <2>3. v.tool_calls = Cnt(M, Calls(p))
    BY <1>1, <1>2, <1>3 DEF TellsOf
  <2>4. v.tool_errors = Cnt(M, Fails(p))
    BY <1>1, <1>2, <1>3 DEF TellsOf
  <2> QED BY <2>1, <2>2, <2>3, <2>4
<1>5. /\ v.t0 \in Who(M, p) /\ \A k \in Who(M, p) : v.t0 <= k
      /\ v.t1 \in Who(M, p) /\ \A k \in Who(M, p) : k <= v.t1
  <2>1. CASE Who(S, p) = {}
    <3>1. v.t0 = n /\ v.t1 = n /\ Who(M, p) = {n}
      BY <1>1, <1>2, <2>1 DEF TellsOf
    <3> QED BY <1>2, <3>1
  <2>2. CASE Who(S, p) # {}
    <3>1. r.t0 \in Who(S, p) /\ \A k \in Who(S, p) : r.t0 <= k
      BY <2>2 DEF TellsOf
    <3>2. r.t0 \in Nat /\ r.t0 < n /\ r.t0 # NULL
      BY <1>2, <3>1, AlgorithmsAssumption
    <3>3. v.t0 = r.t0 /\ v.t1 = n
      BY <1>1, <3>2
    <3> QED BY <1>2, <3>1, <3>2, <3>3
  <2> QED BY <2>1, <2>2
<1>6. Who(M, p) # {}
  BY <1>2
<1>7. /\ v.name = r.name
      /\ v = [name |-> v.name, t0 |-> v.t0, t1 |-> v.t1, turns |-> v.turns, tokens |-> v.tokens,
              tool_calls |-> v.tool_calls, tool_errors |-> v.tool_errors]
  BY <1>1
<1> QED BY <1>4, <1>5, <1>6, <1>7 DEF TellsOf, M, n, v

\* ... and no other is.
LEMMA ToldOfNoOther ==
  ASSUME NEW S \in Seq(Stream!Events), NEW e \in Stream!Events, NEW r, NEW p, p # e.parent
  PROVE  TellsOf(S, r, p) <=> TellsOf(Append(S, e), r, p)
<1>1. /\ \A E : Cnt(S, E) \in Nat /\ Cnt(Append(S, e), E) = Cnt(S, E) + (IF e \in E THEN 1 ELSE 0)
      /\ Who(Append(S, e), p) = Who(S, p)
  <2>1. Who(Append(S, e), p) = Who(S, p) \cup {}
    BY EventAdded
  <2> QED BY <2>1, EventAdded
<1>2. e \notin Turns(p) /\ e \notin Uses(p) /\ e \notin Calls(p) /\ e \notin Fails(p)
  BY DEF Turns, Uses, Calls, Fails
<1>3. /\ Cnt(Append(S, e), Turns(p)) = Cnt(S, Turns(p)) /\ Cnt(Append(S, e), Uses(p)) = Cnt(S, Uses(p))
      /\ Cnt(Append(S, e), Calls(p)) = Cnt(S, Calls(p)) /\ Cnt(Append(S, e), Fails(p)) = Cnt(S, Fails(p))
  BY <1>1, <1>2
<1> QED BY <1>1, <1>3 DEF TellsOf

\* A blank record tells of an agent without events.
LEMMA BlankTells ==
  ASSUME NEW S, NEW p, NEW name, Who(S, p) = {}
  PROVE  TellsOf(S, Stream!blank(name), p) /\ Stream!blank(name).name = name
<1>1. ASSUME NEW E, \A e \in E : e.parent = p PROVE Cnt(S, E) = 0
  <2>1. {k \in DOMAIN S : S[k] \in E} = {}
    BY <1>1 DEF Who
  <2> QED BY <2>1, FS_EmptySet DEF Cnt
<1>2. Cnt(S, Turns(p)) = 0 /\ Cnt(S, Uses(p)) = 0 /\ Cnt(S, Calls(p)) = 0 /\ Cnt(S, Fails(p)) = 0
  BY <1>1 DEF Turns, Uses, Calls, Fails
<1> QED BY <1>2 DEF TellsOf, Stream!blank

\* An agent that comes up.
LEMMA Enters ==
  ASSUME NEW w, Shape(w), NEW tid \in Tids, tid \notin DOMAIN w.agents, NEW name
  PROVE  LET v == Stream!Entered(w, tid, name)
         IN  /\ Shape(v) /\ v.stream = w.stream /\ v.root = w.root
             /\ DOMAIN v.agents = DOMAIN w.agents \cup {tid} /\ v.agents[tid] = Stream!blank(name)
             /\ \A t \in DOMAIN w.agents : v.agents[t] = w.agents[t]
<1> DEFINE v == Stream!Entered(w, tid, name)
           D == DOMAIN w.agents
<1>1. v = [stream |-> w.stream, root |-> w.root,
           agents |-> [t \in D \cup {tid} |-> IF t = tid THEN Stream!blank(name) ELSE w.agents[t]],
           order |-> Append(w.order, tid)]
  <2> DEFINE agents == [t \in D \cup {tid} |-> IF t = tid THEN Stream!blank(name) ELSE w.agents[t]]
             order == Append(w.order, tid)
  <2>1. v = [w EXCEPT !.agents = agents, !.order = order]
    BY DEF Stream!Entered
  <2> HIDE DEF agents, order, v
  <2>2. w = [stream |-> w.stream, root |-> w.root, agents |-> w.agents, order |-> w.order]
    BY DEF Shape
  <2>3. v = [stream |-> w.stream, root |-> w.root, agents |-> agents, order |-> order]
    BY <2>1, <2>2
  <2> QED BY <2>3 DEF agents, order
<1> HIDE DEF v
<1>2. Append(w.order, tid) \in Seq(Tids) /\ Len(Append(w.order, tid)) = Len(w.order) + 1
  BY AppendProperties DEF Shape
<1>3. IsFiniteSet(D \cup {tid}) /\ Cardinality(D \cup {tid}) = Cardinality(D) + 1
  BY FS_AddElement DEF Shape
<1>4. /\ v.stream = w.stream /\ v.root = w.root /\ v.order = Append(w.order, tid)
      /\ DOMAIN v.agents = D \cup {tid} /\ v.agents[tid] = Stream!blank(name)
      /\ \A t \in D : v.agents[t] = w.agents[t]
      /\ v = [stream |-> v.stream, root |-> v.root, agents |-> v.agents, order |-> v.order]
      /\ v.agents = [t \in DOMAIN v.agents |-> v.agents[t]]
  <2> HIDE DEF D
  <2>1. tid \notin D
    BY DEF D
  <2> QED BY <1>1, <2>1
<1> QED BY <1>2, <1>3, <1>4 DEF Shape, v

\* The agent of an event has a record, a placeholder if it had none.
LEMMA Places ==
  ASSUME NEW w, Shape(w), NEW p \in Tids \cup {NULL}
  PROVE  LET v == Stream!Placed(w, p)
         IN  /\ Shape(v) /\ v.stream = w.stream /\ v.root = w.root
             /\ \A t : t \in DOMAIN v.agents <=> t \in DOMAIN w.agents \/ (t = p /\ p # NULL)
             /\ \A t \in DOMAIN w.agents : v.agents[t] = w.agents[t]
             /\ p # NULL /\ p \notin DOMAIN w.agents => v.agents[p] = Stream!blank("unknown-agent")
<1>1. CASE p \in DOMAIN w.agents \cup {NULL}
  BY <1>1 DEF Stream!Placed
<1>2. CASE p \notin DOMAIN w.agents \cup {NULL}
  <2>1. Stream!Placed(w, p) = Stream!Entered(w, p, "unknown-agent")
    BY <1>2 DEF Stream!Placed
  <2>2. p \in Tids /\ p \notin DOMAIN w.agents /\ p # NULL
    BY <1>2
  <2> QED BY <2>1, <2>2, Enters
<1> QED BY <1>1, <1>2

\* A Task block names its agent.
LEMMA Dispatches ==
  ASSUME NEW w, Shape(w), NEW tid \in Tids
  PROVE  LET v == Stream!Dispatched(w, tid)
         IN  /\ Shape(v) /\ v.stream = w.stream /\ v.root = w.root
             /\ \A t : t \in DOMAIN v.agents <=> t \in DOMAIN w.agents \/ t = tid
             /\ \A t \in DOMAIN w.agents : t # tid => v.agents[t] = w.agents[t]
             /\ v.agents[tid] = IF tid \in DOMAIN w.agents THEN [w.agents[tid] EXCEPT !.name = LabelOf[tid]]
                                ELSE Stream!blank(LabelOf[tid])
<1>1. tid # NULL
  BY AlgorithmsAssumption
<1>2. CASE tid \in DOMAIN w.agents
  <2> DEFINE v == Stream!Dispatched(w, tid)
             D == DOMAIN w.agents
  <2>1. v = [w EXCEPT !.agents[tid].name = LabelOf[tid]]
    BY <1>1, <1>2 DEF Stream!Dispatched
  <2> HIDE DEF v
  <2>2. v = [stream |-> w.stream, root |-> w.root,
             agents |-> [w.agents EXCEPT ![tid] = [w.agents[tid] EXCEPT !.name = LabelOf[tid]]],
             order |-> w.order]
    BY <2>1 DEF Shape
  <2>3. /\ v.stream = w.stream /\ v.root = w.root /\ v.order = w.order
        /\ v.agents = [w.agents EXCEPT ![tid] = [w.agents[tid] EXCEPT !.name = LabelOf[tid]]]
        /\ v = [stream |-> v.stream, root |-> v.root, agents |-> v.agents, order |-> v.order]
    BY <2>2
  <2>4. /\ DOMAIN v.agents = D /\ v.agents[tid] = [w.agents[tid] EXCEPT !.name = LabelOf[tid]]
        /\ \A t \in D : t # tid => v.agents[t] = w.agents[t]
        /\ v.agents = [t \in D |-> v.agents[t]]
    BY <1>2, <2>3 DEF Shape
  <2>5. Shape(v)
    BY <2>3, <2>4 DEF Shape
  <2> QED BY <1>2, <2>3, <2>4, <2>5 DEF v
<1>3. CASE tid \notin DOMAIN w.agents
  <2>1. Stream!Dispatched(w, tid) = Stream!Entered(w, tid, LabelOf[tid])
    BY <1>1, <1>3 DEF Stream!Dispatched
  <2> QED BY <1>3, <2>1, Enters
<1> QED BY <1>2, <1>3

LEMMA StreamStarts == ASSUME Stream!Init PROVE StreamInv
<1>1. /\ walk = [stream |-> <<>>, root |-> Stream!blank("swarm-manager"),
                 agents |-> [t \in {} |-> Stream!blank("")], order |-> <<>>]
      /\ walk.stream = <<>> /\ walk.root = Stream!blank("swarm-manager") /\ walk.order = <<>>
      /\ walk.agents = [t \in {} |-> Stream!blank("")]
  BY DEF Stream!Init
<1>2. DOMAIN walk.agents = {} /\ walk.agents = [t \in {} |-> walk.agents[t]]
  BY <1>1
<1>3. Shape(walk)
  <2>1. Cardinality({}) = 0 /\ IsFiniteSet({})
    BY FS_EmptySet
  <2>2. walk.order \in Seq(Tids) /\ Len(walk.order) = 0
    BY <1>1
  <2>3. walk = [stream |-> walk.stream, root |-> walk.root, agents |-> walk.agents, order |-> walk.order]
    BY <1>1
  <2> QED BY <1>2, <2>1, <2>2, <2>3 DEF Shape
<1>4. DOMAIN walk.stream = {} /\ walk.stream \in Seq(Stream!Events)
  BY <1>1
<1>5. \A p : Who(walk.stream, p) = {} /\ ~NamedIn(walk.stream, p)
  BY <1>4 DEF Who, NamedIn
<1>6. TellsOf(walk.stream, walk.root, NULL)
  BY <1>1, <1>5, BlankTells
<1> QED BY <1>2, <1>3, <1>4, <1>5, <1>6 DEF StreamInv

LEMMA StreamGoesOn == ASSUME StreamInv, Stream!Next PROVE StreamInv'
<1> DEFINE S == walk.stream
           n == Len(S) + 1
<1>1. PICK e \in Stream!Events : Stream!Read(e)
  BY DEF Stream!Next
<1> DEFINE M  == Append(S, e)
           p  == e.parent
           w0 == [walk EXCEPT !.stream = M]
           w1 == Stream!Placed(w0, p)
           w2 == IF p = NULL THEN [w1 EXCEPT !.root = Stream!Told(w1.root, e, n)]
                 ELSE [w1 EXCEPT !.agents[p] = Stream!Told(w1.agents[p], e, n)]
<1>2. walk' = Stream!Dispatched(w2, e.task)
  BY <1>1 DEF Stream!Read
<1>3. /\ S \in Seq(Stream!Events) /\ p \in Tids \cup {NULL} /\ e.task \in Tids \cup {NULL}
      /\ e.task # NULL => e.task # p
      /\ NULL \notin Tids
  BY AlgorithmsAssumption DEF StreamInv, Stream!Events
<1>4. /\ Shape(w0) /\ w0.stream = M /\ w0.root = walk.root /\ w0.agents = walk.agents
  <2>1. walk = [stream |-> walk.stream, root |-> walk.root, agents |-> walk.agents, order |-> walk.order]
    BY DEF StreamInv, Shape
  <2> HIDE DEF M
  <2>2. w0 = [stream |-> M, root |-> walk.root, agents |-> walk.agents, order |-> walk.order]
    BY <2>1
  <2> HIDE DEF w0
  <2>3. w0.stream = M /\ w0.root = walk.root /\ w0.agents = walk.agents /\ w0.order = walk.order
    BY <2>2
  <2> QED BY <2>2, <2>3 DEF Shape, StreamInv
<1> HIDE DEF w0
<1>5. /\ Shape(w1) /\ w1.stream = M /\ w1.root = walk.root
      /\ \A t : t \in DOMAIN w1.agents <=> t \in DOMAIN walk.agents \/ (t = p /\ p # NULL)
      /\ \A t \in DOMAIN walk.agents : w1.agents[t] = walk.agents[t]
      /\ p # NULL /\ p \notin DOMAIN walk.agents => w1.agents[p] = Stream!blank("unknown-agent")
  BY <1>3, <1>4, Places
<1> HIDE DEF w1
<1>6. \A t : ~NamedIn(S, t) \/ t \notin Tids \/ t \in DOMAIN walk.agents
  BY DEF StreamInv
<1>7. \A t \in DOMAIN w1.agents :
        /\ TellsOf(S, w1.agents[t], t)
        /\ w1.agents[t].name = IF NamedIn(S, t) THEN LabelOf[t] ELSE "unknown-agent"
  <2> TAKE t \in DOMAIN w1.agents
  <2>1. CASE t \in DOMAIN walk.agents
    BY <1>5, <2>1 DEF StreamInv
  <2>2. CASE t \notin DOMAIN walk.agents
    <3>1. t = p /\ t \in Tids /\ w1.agents[t] = Stream!blank("unknown-agent")
      BY <1>3, <1>5, <2>2
    <3>2. Who(S, t) = {} /\ ~NamedIn(S, t)
      BY <2>2, <3>1 DEF StreamInv
    <3> QED BY <3>1, <3>2, BlankTells
  <2> QED BY <2>1, <2>2
<1>8. /\ Shape(w2) /\ w2.stream = M /\ DOMAIN w2.agents = DOMAIN w1.agents
      /\ TellsOf(M, w2.root, NULL)
      /\ \A t \in DOMAIN w1.agents :
           /\ TellsOf(M, w2.agents[t], t)
           /\ w2.agents[t].name = w1.agents[t].name
  <2>1. TellsOf(S, w1.root, NULL)
    BY <1>5 DEF StreamInv
  <2>2. w1 = [stream |-> w1.stream, root |-> w1.root, agents |-> w1.agents, order |-> w1.order]
    BY <1>5 DEF Shape
  <2>3. CASE p = NULL
    <3> DEFINE r == Stream!Told(w1.root, e, n)
    <3>1. w2 = [w1 EXCEPT !.root = r]
      BY <2>3
    <3>2. TellsOf(M, r, NULL)
      BY <1>3, <2>1, <2>3, ToldOfIt
    <3> HIDE DEF w2, r
    <3>3. w2 = [stream |-> w1.stream, root |-> r, agents |-> w1.agents, order |-> w1.order]
      BY <2>2, <3>1
    <3>4. w2.stream = w1.stream /\ w2.root = r /\ w2.agents = w1.agents /\ w2.order = w1.order
      BY <3>3
    <3>5. \A t \in DOMAIN w1.agents : TellsOf(M, w2.agents[t], t)
      <4>1. \A t \in DOMAIN w1.agents : t # p
        BY <1>3, <1>5, <2>3 DEF Shape
      <4> QED BY <1>3, <1>7, <3>4, <4>1, ToldOfNoOther
    <3>6. Shape(w2)
      BY <1>5, <3>3, <3>4 DEF Shape
    <3> QED BY <1>5, <3>2, <3>4, <3>5, <3>6
  <2>4. CASE p # NULL
    <3> DEFINE r == Stream!Told(w1.agents[p], e, n)
               A == [w1.agents EXCEPT ![p] = r]
    <3>1. w2 = [w1 EXCEPT !.agents = A]
      BY <2>2, <2>4
    <3>2. p \in DOMAIN w1.agents
      BY <1>5, <2>4
    <3>3. TellsOf(M, r, p) /\ r.name = w1.agents[p].name
      BY <1>3, <1>7, <3>2, ToldOfIt
    <3> HIDE DEF w2, r
    <3>4. /\ DOMAIN A = DOMAIN w1.agents /\ A[p] = r /\ \A t \in DOMAIN w1.agents : t # p => A[t] = w1.agents[t]
          /\ A = [t \in DOMAIN A |-> A[t]]
      BY <3>2
    <3> HIDE DEF A
    <3>5. w2 = [stream |-> w1.stream, root |-> w1.root, agents |-> A, order |-> w1.order]
      BY <2>2, <3>1
    <3>6. w2.stream = w1.stream /\ w2.root = w1.root /\ w2.agents = A /\ w2.order = w1.order
      BY <3>5
    <3>7. TellsOf(M, w2.root, NULL)
      BY <1>3, <2>1, <2>4, <3>6, ToldOfNoOther
    <3>8. \A t \in DOMAIN w1.agents : t # p => TellsOf(M, A[t], t)
      BY <1>3, <1>7, <3>4, ToldOfNoOther
    <3>9. Shape(w2)
      BY <1>5, <3>4, <3>5, <3>6 DEF Shape
    <3> QED BY <1>5, <3>3, <3>4, <3>6, <3>7, <3>8, <3>9
  <2> QED BY <2>3, <2>4
<1> HIDE DEF w2
<1>9. /\ M \in Seq(Stream!Events)
      /\ \A q : Who(M, q) = Who(S, q) \cup (IF p = q THEN {n} ELSE {})
      /\ \A t : NamedIn(M, t) <=> NamedIn(S, t) \/ e.task = t
  BY <1>3, EventAdded
<1>10. \A q : Who(M, q) # {} <=> Who(S, q) # {} \/ q = p
  BY <1>9
<1> HIDE DEF M, n, p
<1>11. \A t : t \in DOMAIN w2.agents <=> t \in Tids /\ (Who(M, t) # {} \/ NamedIn(S, t))
  BY <1>3, <1>5, <1>8, <1>10 DEF StreamInv
<1>12. CASE e.task = NULL
  <2>1. walk' = w2
    <3>1. e.task \notin DOMAIN w2.agents
      BY <1>3, <1>8, <1>12 DEF Shape
    <3> QED BY <1>2, <1>12, <3>1 DEF Stream!Dispatched
  <2>2. \A t \in Tids : NamedIn(M, t) <=> NamedIn(S, t)
    BY <1>3, <1>9, <1>12
  <2>3. DOMAIN w2.agents \subseteq Tids
    BY <1>11
  <2>4. walk'.stream = M /\ walk'.root = w2.root /\ walk'.agents = w2.agents
    BY <1>8, <2>1
  <2>5. Shape(walk')
    BY <1>8, <2>1
  <2>6. \A t : t \in DOMAIN w2.agents <=> t \in Tids /\ (Who(M, t) # {} \/ NamedIn(M, t))
    BY <1>11, <2>2
  <2>7. \A t \in DOMAIN w2.agents :
          /\ TellsOf(M, w2.agents[t], t)
          /\ w2.agents[t].name = IF NamedIn(M, t) THEN LabelOf[t] ELSE "unknown-agent"
    BY <1>7, <1>8, <2>2, <2>3
  <2> QED BY <1>8, <1>9, <2>4, <2>5, <2>6, <2>7 DEF StreamInv, Shape
<1>13. CASE e.task # NULL
  <2> DEFINE k == e.task
  <2>1. k \in Tids
    BY <1>3, <1>13
  <2>2. /\ Shape(walk') /\ walk'.stream = M /\ walk'.root = w2.root
        /\ \A t : t \in DOMAIN walk'.agents <=> t \in DOMAIN w2.agents \/ t = k
        /\ \A t \in DOMAIN w2.agents : t # k => walk'.agents[t] = w2.agents[t]
        /\ walk'.agents[k] = IF k \in DOMAIN w2.agents THEN [w2.agents[k] EXCEPT !.name = LabelOf[k]]
                             ELSE Stream!blank(LabelOf[k])
    BY <1>2, <1>8, <2>1, Dispatches
  <2>3. TellsOf(M, walk'.agents[k], k) /\ walk'.agents[k].name = LabelOf[k]
    <3>1. CASE k \in DOMAIN w2.agents
      <4>1. TellsOf(M, w2.agents[k], k)
        BY <1>8, <3>1
      <4>2. walk'.agents[k] = [w2.agents[k] EXCEPT !.name = LabelOf[k]]
        BY <2>2, <3>1
      <4> DEFINE r == w2.agents[k]
                 v == walk'.agents[k]
      <4> HIDE DEF r, v
      <4>3. r = [name |-> r.name, t0 |-> r.t0, t1 |-> r.t1, turns |-> r.turns, tokens |-> r.tokens,
                 tool_calls |-> r.tool_calls, tool_errors |-> r.tool_errors]
        BY <4>1 DEF TellsOf, r
      <4>4. v = [name |-> LabelOf[k], t0 |-> r.t0, t1 |-> r.t1, turns |-> r.turns, tokens |-> r.tokens,
                 tool_calls |-> r.tool_calls, tool_errors |-> r.tool_errors]
        BY <4>2, <4>3 DEF r, v
      <4>5. TellsOf(M, r, k)
        BY <4>1 DEF r
      <4>6. TellsOf(M, v, k) /\ v.name = LabelOf[k]
        BY <4>4, <4>5 DEF TellsOf
      <4> QED BY <4>6 DEF v
    <3>2. CASE k \notin DOMAIN w2.agents
      <4>1. Who(M, k) = {}
        BY <1>11, <2>1, <3>2
      <4> QED BY <2>2, <3>2, <4>1, BlankTells
    <3> QED BY <3>1, <3>2
  <2>4. \A t : t \in DOMAIN walk'.agents <=> t \in Tids /\ (Who(M, t) # {} \/ NamedIn(M, t))
    BY <1>9, <1>11, <2>1, <2>2
  <2>5. \A t \in DOMAIN walk'.agents :
          /\ TellsOf(M, walk'.agents[t], t)
          /\ walk'.agents[t].name = IF NamedIn(M, t) THEN LabelOf[t] ELSE "unknown-agent"
    <3> TAKE t \in DOMAIN walk'.agents
    <3>1. CASE t = k
      <4>1. NamedIn(M, k)
        BY <1>9
      <4> QED BY <2>3, <3>1, <4>1
    <3>2. CASE t # k
      <4>1. t \in DOMAIN w2.agents /\ walk'.agents[t] = w2.agents[t]
        BY <2>2, <3>2
      <4>2. NamedIn(M, t) <=> NamedIn(S, t)
        BY <1>9, <3>2
      <4> QED BY <1>7, <1>8, <4>1, <4>2
    <3> QED BY <3>1, <3>2
  <2> QED BY <1>8, <1>9, <2>2, <2>4, <2>5 DEF StreamInv, Shape
<1> QED BY <1>12, <1>13

\* A record that tells of the events of p tells what Tells asks.
LEMMA TellsIt ==
  ASSUME walk.stream \in Seq(Stream!Events), NEW r, NEW p, TellsOf(walk.stream, r, p)
  PROVE  Stream!Tells(r, p)
<1> DEFINE S == walk.stream
           ks == Who(S, p)
<1>1. \A k \in DOMAIN S : S[k] \in Stream!Events /\ k \in Nat
  BY ElementOfSeq
<1> HIDE DEF S
<1>2. Stream!Of(p) = ks
  BY DEF Stream!Of, Who, S
<1>3. /\ Stream!Kind(ks, "assistant") = {k \in DOMAIN S : S[k] \in Turns(p)}
      /\ Stream!Kind(ks, "user") = {k \in DOMAIN S : S[k] \in Fails(p)}
  BY <1>1 DEF Stream!Kind, Who, Turns, Fails, S
<1>4. /\ {k \in ks : S[k].usage} = {k \in DOMAIN S : S[k] \in Uses(p)}
      /\ {k \in ks : S[k].task # NULL} = {k \in DOMAIN S : S[k] \in Calls(p)}
  BY <1>1 DEF Who, Uses, Calls
<1>5. ks # {} => r.t0 = Stream!Min(ks) /\ r.t1 = Stream!Max(ks)
  <2> SUFFICES ASSUME ks # {} PROVE r.t0 = Stream!Min(ks) /\ r.t1 = Stream!Max(ks)
    OBVIOUS
  <2>1. /\ r.t0 \in ks /\ \A k \in ks : r.t0 <= k
        /\ r.t1 \in ks /\ \A k \in ks : k <= r.t1
    BY DEF TellsOf, S
  <2>2. ks \subseteq Nat
    BY <1>1 DEF Who
  <2> HIDE DEF ks
  <2>3. ASSUME NEW x \in ks, \A y \in ks : x <= y PROVE x = r.t0
    <3>1. x \in Nat /\ r.t0 \in Nat /\ x <= r.t0 /\ r.t0 <= x
      BY <2>1, <2>2, <2>3
    <3> QED BY <3>1
  <2>4. ASSUME NEW x \in ks, \A y \in ks : x >= y PROVE x = r.t1
    <3>1. x \in Nat /\ r.t1 \in Nat /\ x >= r.t1 /\ x <= r.t1
      BY <2>1, <2>2, <2>4
    <3> QED BY <3>1
  <2>5. \A y \in ks : r.t1 >= y
    BY <2>1, <2>2
  <2> QED BY <2>1, <2>3, <2>4, <2>5 DEF Stream!Min, Stream!Max
<1>6. TellsOf(S, r, p)
  BY DEF S
<1> HIDE DEF ks
<1> QED BY <1>2, <1>3, <1>4, <1>5, <1>6, SameCount DEF Stream!Tells, TellsOf, Cnt, S

\* The numbers of the rows of one name grow.
LEMMA RowsApart ==
  ASSUME NEW D \in SUBSET Nat, NEW f, NEW i \in D, NEW j \in D, i < j, f[i] = f[j]
  PROVE  Cardinality({k \in 1 .. i : f[k] = f[i]}) < Cardinality({k \in 1 .. j : f[k] = f[j]})
         \/ i = 0
<1> DEFINE A == {k \in 1 .. i : f[k] = f[i]}
           B == {k \in 1 .. j : f[k] = f[j]}
<1>1. A \subseteq B /\ j \notin A /\ (i # 0 => j \in B)
  OBVIOUS
<1>2. IsFiniteSet(B)
  <2>1. IsFiniteSet(1 .. j) /\ B \in SUBSET (1 .. j)
    BY FS_Interval
  <2> QED BY <2>1, FS_Subset
<1> HIDE DEF A, B
<1>3. i # 0 => A # B
  BY <1>1
<1>4. i # 0 => Cardinality(A) < Cardinality(B)
  <2>1. IsFiniteSet(A) /\ Cardinality(A) \in Nat /\ Cardinality(B) \in Nat
    BY <1>1, <1>2, FS_Subset, FS_CardinalityType
  <2> QED BY <1>1, <1>2, <1>3, <2>1, FS_Subset
<1> QED BY <1>4 DEF A, B

LEMMA StreamRight == ASSUME StreamInv PROVE Stream!StreamAccounted
<1>1. walk.stream \in Seq(Stream!Events) /\ Shape(walk)
  BY DEF StreamInv
<1>2. Stream!Tells(walk.root, NULL) /\ \A t \in DOMAIN walk.agents : Stream!Tells(walk.agents[t], t)
  BY <1>1, TellsIt DEF StreamInv
<1>3. \A t : Stream!Of(t) = Who(walk.stream, t) /\ (Stream!Named(t) <=> NamedIn(walk.stream, t))
  BY DEF Stream!Of, Stream!Named, Who, NamedIn
<1>4. /\ DOMAIN walk.agents = {t \in Tids : Stream!Of(t) # {} \/ Stream!Named(t)}
      /\ \A t \in DOMAIN walk.agents : walk.agents[t].name = IF Stream!Named(t) THEN LabelOf[t] ELSE "unknown-agent"
  BY <1>3 DEF StreamInv
<1>5. Len(walk.order) = Stream!Cardinality(DOMAIN walk.agents)
  BY <1>1, SameCount DEF Shape
<1>6. \A i, j \in DOMAIN Stream!Recs : Stream!Agent(i) = Stream!Agent(j) => i = j
  <2> DEFINE D == DOMAIN Stream!Recs
             f == [k \in D |-> Stream!Recs[k].name]
             num(i) == Cardinality({k \in 1 .. i : f[k] = f[i]})
  <2>1. D = 1 .. Len(Stream!Recs) /\ Len(Stream!Recs) \in Nat
    <3> DEFINE rest == [i \in DOMAIN walk.order |-> walk.agents[walk.order[i]]]
    <3>1. DOMAIN walk.order = 1 .. Len(walk.order) /\ Len(walk.order) \in Nat
      BY <1>1 DEF Shape
    <3>2. rest \in Seq(Range(rest))
      BY <3>1 DEF Range
    <3> HIDE DEF rest
    <3>3. <<walk.root>> \o rest \in Seq(Range(rest) \cup {walk.root})
      BY <3>2
    <3>4. Stream!Recs = <<walk.root>> \o rest
      BY DEF Stream!Recs, rest
    <3> HIDE DEF D
    <3>5. \A s \in Seq(Range(rest) \cup {walk.root}) : DOMAIN s = 1 .. Len(s) /\ Len(s) \in Nat
      OBVIOUS
    <3> QED BY <3>3, <3>4, <3>5 DEF D
  <2>2. \A i \in D : Stream!Agent(i) = <<f[i], num(i)>>
    <3> TAKE i \in D
    <3>1. \A k \in 1 .. i : k \in D
      BY <2>1
    <3>2. {k \in 1 .. i : Stream!Recs[k].name = Stream!Recs[i].name} = {k \in 1 .. i : f[k] = f[i]}
      BY <3>1
    <3> QED BY <3>2, SameCount DEF Stream!Agent
  <2> HIDE DEF f
  <2>3. ASSUME NEW i \in D, NEW j \in D, i < j, f[i] = f[j] PROVE num(i) < num(j)
    <3>1. D \in SUBSET Nat /\ i # 0
      BY <2>1
    <3> HIDE DEF D
    <3> QED BY <2>3, <3>1, RowsApart
  <2>4. \A i \in D : num(i) \in Nat
    <3> TAKE i \in D
    <3>1. IsFiniteSet(1 .. i) /\ {k \in 1 .. i : f[k] = f[i]} \in SUBSET (1 .. i)
      BY <2>1, FS_Interval
    <3> QED BY <3>1, FS_Subset, FS_CardinalityType
  <2> HIDE DEF num
  <2> SUFFICES ASSUME NEW i \in D, NEW j \in D, Stream!Agent(i) = Stream!Agent(j) PROVE i = j
    OBVIOUS
  <2>5. f[i] = f[j] /\ num(i) = num(j)
    BY <2>2
  <2> HIDE DEF D
  <2>6. i \in Nat /\ j \in Nat
    BY <2>1
  <2> QED BY <2>3, <2>4, <2>5, <2>6
<1> QED BY <1>2, <1>4, <1>5, <1>6 DEF Stream!StreamAccounted

-----------------------------------------------------------------------------
(* The walkers together                                                    *)

AInv ==
  /\ walker = "credits"     => walk \in 0 .. 255
  /\ walker = "burst"       => BurstInv
  /\ walker = "stream"      => StreamInv
  /\ walker = "sweep"       => SweepInv
  /\ walker = "steps"       => StepsInv
  /\ walker = "regressions" => RegressInv

LEMMA AStarts == ASSUME Init PROVE AInv
<1>1. walker = "credits" => walk \in 0 .. 255
  BY DEF Init, Credits!Init
<1>2. walker = "burst" => BurstInv
  BY BurstStarts DEF Init
<1>3. walker = "stream" => StreamInv
  BY StreamStarts DEF Init
<1>4. walker = "sweep" => SweepInv
  BY SweepStarts DEF Init
<1>5. walker = "steps" => StepsInv
  BY StepsStart DEF Init
<1>6. walker = "regressions" => RegressInv
  BY RegressStarts DEF Init
<1> QED BY <1>1, <1>2, <1>3, <1>4, <1>5, <1>6 DEF AInv

LEMMA AGoesOn == ASSUME AInv, [Next]_vars PROVE AInv'
<1>1. CASE Next
  <2>1. walker' = walker
    BY <1>1 DEF Next
  <2>2. CASE walker = "credits"
    <3>1. Credits!Next /\ walk \in 0 .. 255
      BY <1>1, <2>2 DEF Next, AInv
    <3>2. walk' \in 0 .. 255
      BY <3>1 DEF Credits!Next
    <3> QED BY <2>1, <2>2, <3>2 DEF AInv
  <2>3. CASE walker = "burst"
    <3>1. BurstInv'
      BY <1>1, <2>3, BurstGoesOn DEF Next, AInv
    <3> QED BY <2>1, <2>3, <3>1 DEF AInv
  <2>4. CASE walker = "stream"
    <3>1. StreamInv'
      BY <1>1, <2>4, StreamGoesOn DEF Next, AInv
    <3> QED BY <2>1, <2>4, <3>1 DEF AInv
  <2>5. CASE walker = "sweep"
    <3>1. SweepInv'
      BY <1>1, <2>5, SweepGoesOn DEF Next, AInv
    <3> QED BY <2>1, <2>5, <3>1 DEF AInv
  <2>6. CASE walker = "steps"
    <3>1. StepsInv'
      BY <1>1, <2>6, StepsGoOn DEF Next, AInv
    <3> QED BY <2>1, <2>6, <3>1 DEF AInv
  <2>7. CASE walker = "regressions"
    <3>1. RegressInv'
      BY <1>1, <2>7, RegressGoesOn DEF Next, AInv
    <3> QED BY <2>1, <2>7, <3>1 DEF AInv
  <2> QED BY <1>1, <2>2, <2>3, <2>4, <2>5, <2>6, <2>7 DEF Next
<1>2. CASE UNCHANGED vars
  <2>1. walker' = walker /\ walk' = walk
    BY <1>2 DEF vars
  <2>2. BurstInv => BurstInv'
    BY <2>1 DEF BurstInv
  <2>3. StreamInv => StreamInv'
    BY <2>1 DEF StreamInv
  <2>4. SweepInv => SweepInv'
    BY <2>1 DEF SweepInv, SweepTypes, spanned, t0, t1, Start, End, started, ended, Sweep!open
  <2>5. StepsInv => StepsInv'
    BY <2>1 DEF StepsInv
  <2>6. RegressInv => RegressInv'
    BY <2>1 DEF RegressInv, RegressTypes, Has, Ahead, list, Regress!Worse
  <2> QED BY <2>1, <2>2, <2>3, <2>4, <2>5, <2>6 DEF AInv
<1> QED BY <1>1, <1>2

\* What each walker is relied on for is invariant.
THEOREM WalkersKeepOn == Spec => []AInv
<1>1. Init => AInv
  BY AStarts
<1>2. AInv /\ [Next]_vars => AInv'
  BY AGoesOn
<1> QED BY <1>1, <1>2, PTL DEF Spec

\* cred_encode_ge and cred_encode_ge2 return the least bucket that covers the credits
\* owed, for each of the 256 counts they can be given.
THEOREM ReturnsCover == Spec => []ReturnCovers
<1>1. AInv => ReturnCovers
  BY CountCovered DEF AInv, ReturnCovers
<1> QED BY <1>1, WalkersKeepOn, PTL

\* From any start, with any number of beats, axi_burst_next walks the words that AXI's
\* formula for the address of a beat names.
THEOREM ContainersKept == Spec => []SameContainer
<1>1. AInv => SameContainer
  BY ContainerKept DEF AInv, SameContainer
<1> QED BY <1>1, WalkersKeepOn, PTL

\* However many agents, and however long the stream and the events mixed in it,
\* collect_ai_from_stream tells each agent of its own events and of all of them, by the
\* name its Task block gives it, in a row of its own; and max_overlap returns the most
\* spans that were open at one time, for any finite number of agents and any stamps.
THEOREM AgentsAccounted == Spec => []StreamAccounted
<1>1. AInv => StreamAccounted
  BY StreamRight, PeakReached DEF AInv, StreamAccounted
<1> QED BY <1>1, WalkersKeepOn, PTL

\* collect_compute splits the seconds of a gate of any length among building and
\* running, and among its steps, each second to one line and to the step it is under.
THEOREM SecondsAddUp == Spec => []SpansAddUp
<1>1. AInv => SpansAddUp
  BY SecondsRight DEF AInv, SpansAddUp
<1> QED BY <1>1, WalkersKeepOn, PTL

\* build_html lists every series that moved the wrong way, once, and no other,
\* whatever the domains, the series, their values and the charts among them.
THEOREM RegressionsOnce == Spec => []RegressionsListed
<1>1. AInv => RegressionsListed
  BY ListIsRight DEF AInv, RegressionsListed
<1> QED BY <1>1, WalkersKeepOn, PTL

=============================================================================
