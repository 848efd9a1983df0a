---------------------------- MODULE RequestProofs ----------------------------
(***************************************************************************)
(* Theorems about Requests, for any parts of a body, any limits, any       *)
(* number of tasks and any page sizes.                                     *)
(***************************************************************************)
EXTENDS Requests, FiniteSetTheorems, SequenceTheorems, TLAPS

-----------------------------------------------------------------------------
(* int32(n) *)

\* Every number has a quotient and a remainder.
LEMMA Division ==
  ASSUME NEW d \in Nat \ {0}, NEW a \in Int
  PROVE  /\ a % d \in 0 .. d - 1
         /\ \E q \in Int : a = q * d + (a % d)
<1>1. a % d \in 0 .. d - 1
  OBVIOUS
<1>2. a = (a \div d) * d + (a % d) /\ a \div d \in Int
  OBVIOUS
<1> QED
  BY <1>1, <1>2

\* Quotient and remainder are unique.
LEMMA Remainder ==
  ASSUME NEW d \in Nat \ {0}, NEW q \in Int, NEW r \in 0 .. d - 1
  PROVE  (q * d + r) % d = r
OBVIOUS

\* A number that fits is not cut.
LEMMA Int32Fits ==
  ASSUME NEW n \in -IntHalf .. IntHalf - 1
  PROVE  Int32(n) = n
BY WidthAssumption DEF Int32

\* The conversion forgets multiples of 2^32.
LEMMA Int32Period ==
  ASSUME NEW n \in Int, NEW k \in Int
  PROVE  Int32(n + k * (2 * IntHalf)) = Int32(n)
<1> DEFINE d == 2 * IntHalf
           a == n + IntHalf
<1>1. d \in Nat \ {0} /\ a \in Int
  BY WidthAssumption
<1> HIDE DEF d, a
<1>2. PICK q \in Int : a = q * d + (a % d)
  BY <1>1, Division
<1>3. a % d \in 0 .. d - 1
  BY <1>1, Division
<1>4. a + k * d = (q + k) * d + (a % d)
  BY <1>1, <1>2, <1>3
<1>5. (a + k * d) % d = a % d
  <2>1. ((q + k) * d + (a % d)) % d = a % d
    BY <1>1, <1>3, Remainder
  <2> QED
    BY <1>4, <2>1
<1>6. n + k * d + IntHalf = a + k * d
  BY <1>1, WidthAssumption DEF a
<1>7. Int32(n + k * d) = ((n + k * d + IntHalf) % d) - IntHalf
  BY DEF Int32, d
<1>8. Int32(n) = (a % d) - IntHalf
  BY DEF Int32, a, d
<1>9. Int32(n + k * d) = Int32(n)
  BY <1>5, <1>6, <1>7, <1>8
<1> QED
  BY <1>9 DEF d

\* What the conversion yields fits, and differs from its argument by a multiple.
LEMMA Int32Cuts ==
  ASSUME NEW n \in Int
  PROVE  /\ Int32(n) \in -IntHalf .. IntHalf - 1
         /\ \E q \in Int : n = Int32(n) + q * (2 * IntHalf)
<1> DEFINE d == 2 * IntHalf
           a == n + IntHalf
<1>1. d \in Nat \ {0} /\ a \in Int
  BY WidthAssumption
<1>2. Int32(n) = (a % d) - IntHalf
  BY DEF Int32
<1> HIDE DEF d, a
<1>3. PICK q \in Int : a = q * d + (a % d)
  BY <1>1, Division
<1>4. a % d \in 0 .. d - 1
  BY <1>1, Division
<1>5. Int32(n) \in -IntHalf .. IntHalf - 1
  BY <1>2, <1>4, WidthAssumption DEF d
<1>6. n = Int32(n) + q * d
  <2>1. n = a - IntHalf /\ IntHalf \in Int
    BY WidthAssumption DEF a
  <2>2. q * d \in Int
    BY <1>1
  <2> QED
    BY <1>1, <1>2, <1>3, <1>4, <2>1, <2>2
<1> QED
  BY <1>5, <1>6 DEF d

\* An OFFSET that is not negative is the place the pages before it reached, as
\* long as they reached less than 2^32 rows.
LEMMA OffsetIsReached ==
  ASSUME NEW page \in Nat \ {0}, NEW size \in Nat,
         (page - 1) * Int32(size) \in 0 .. 2 * IntHalf - 1,
         Offset(page, size) >= 0
  PROVE  /\ Offset(page, size) = (page - 1) * Int32(size)
         /\ Offset(page, size) < IntHalf
<1> DEFINE l == Int32(size)
           n == (page - 1) * l
<1>1. PICK q \in Int : size = l + q * (2 * IntHalf)
  BY Int32Cuts
<1>2. l \in Int /\ n \in 0 .. 2 * IntHalf - 1
  BY Int32Cuts, WidthAssumption
<1> HIDE DEF l
<1>3. (page - 1) * size = n + ((page - 1) * q) * (2 * IntHalf)
  <2>1. \A p, a, b, c \in Int : p * (a + b * c) = p * a + (p * b) * c
    OBVIOUS
  <2> QED
    BY <1>1, <1>2, <2>1, WidthAssumption
<1> HIDE DEF n
<1>4. (page - 1) * q \in Int
  OBVIOUS
<1>5. Offset(page, size) = Int32(n)
  BY <1>2, <1>3, <1>4, Int32Period DEF Offset
<1>6. CASE n < IntHalf
  BY <1>2, <1>5, <1>6, Int32Fits, WidthAssumption DEF n, l
<1>7. CASE n >= IntHalf
  <2>1. Int32(n) = Int32(n - 2 * IntHalf)
    <3>1. n - 2 * IntHalf \in Int /\ n = (n - 2 * IntHalf) + 1 * (2 * IntHalf)
      BY <1>2, WidthAssumption
    <3> QED
      BY <3>1, Int32Period
  <2>2. Int32(n - 2 * IntHalf) = n - 2 * IntHalf
    BY <1>2, <1>7, Int32Fits, WidthAssumption
  <2> QED
    BY <1>2, <1>5, <2>1, <2>2, WidthAssumption
<1> QED
  BY <1>2, <1>6, <1>7, WidthAssumption

-----------------------------------------------------------------------------
(* The order of words *)

\* A set of naturals that is not empty has a least element.
LEMMA Least ==
  ASSUME NEW S \in SUBSET Nat, S # {}
  PROVE  \E x \in S : \A y \in S : x <= y
<1> DEFINE R == {ss \in Nat \X Nat : ss[1] < ss[2]}
<1>1. OpToRel(<, Nat) = R
  BY DEF OpToRel
<1>2. IsWellFoundedOn(R, Nat)
  BY <1>1, NatLessThanWellFounded
<1>3. \A a, b \in Nat : a < b => <<a, b>> \in R
  OBVIOUS
<1> HIDE DEF R
<1>4. PICK x \in S : \A y \in S : ~(<<y, x>> \in R)
  BY <1>2, WFMin
<1>5. \A y \in S : ~(y < x)
  BY <1>3, <1>4
<1> QED
  BY <1>5

Word == Seq(Nat)

\* u comes before v because of what follows their first n bytes.
Smaller(u, v, n) ==
  /\ n \in 0 .. Len(u) /\ n < Len(v)
  /\ \A i \in 1 .. n : u[i] = v[i]
  /\ n = Len(u) \/ u[n + 1] < v[n + 1]

\* That is what the order of the model says.
LEMMA BeforeIsSmaller ==
  ASSUME NEW u \in Word, NEW v \in Word
  PROVE  Before(u, v) <=> \E n \in Nat : Smaller(u, v, n)
<1>1. ASSUME NEW n \in 0 .. Len(u), n <= Len(v)
      PROVE  SubSeq(u, 1, n) = SubSeq(v, 1, n) <=> \A i \in 1 .. n : u[i] = v[i]
  <2>1. \A w \in Word : n <= Len(w) =>
          /\ SubSeq(w, 1, n) \in Seq(Nat) /\ Len(SubSeq(w, 1, n)) = n
          /\ \A i \in 1 .. n : SubSeq(w, 1, n)[i] = w[i]
    BY <1>1, SubSeqProperties DEF Word
  <2> DEFINE a == SubSeq(u, 1, n)
             b == SubSeq(v, 1, n)
  <2>2. /\ a \in Seq(Nat) /\ Len(a) = n /\ \A i \in 1 .. n : a[i] = u[i]
        /\ b \in Seq(Nat) /\ Len(b) = n /\ \A i \in 1 .. n : b[i] = v[i]
    <3>1. n <= Len(u)
      BY DEF Word
    <3> QED
      BY <1>1, <2>1, <3>1
  <2> HIDE DEF a, b
  <2>3. a = b <=> \A i \in 1 .. n : a[i] = b[i]
    BY <2>2, SeqEqual
  <2>4. a = b <=> \A i \in 1 .. n : u[i] = v[i]
    BY <2>2, <2>3
  <2> QED
    BY <2>4 DEF a, b
<1>2. \A n \in Nat : Smaller(u, v, n) <=>
        /\ n \in 0 .. Len(u)
        /\ n <= Len(v) /\ SubSeq(u, 1, n) = SubSeq(v, 1, n)
        /\ n < Len(v) /\ (n = Len(u) \/ u[n + 1] < v[n + 1])
  <2> SUFFICES ASSUME NEW n \in Nat, n \in 0 .. Len(u), n <= Len(v)
               PROVE  SubSeq(u, 1, n) = SubSeq(v, 1, n) <=> \A i \in 1 .. n : u[i] = v[i]
    BY DEF Smaller, Word
  <2> QED
    BY <1>1
<1> QED
  BY <1>2 DEF Before, Word

\* No word comes before one that comes before it.
LEMMA BeforeAsymmetric ==
  ASSUME NEW u \in Word, NEW v \in Word, Before(u, v)
  PROVE  ~Before(v, u)
<1> SUFFICES ASSUME NEW n \in Nat, Smaller(u, v, n), NEW m \in Nat, Smaller(v, u, m)
             PROVE  FALSE
  BY BeforeIsSmaller
<1>1. /\ Len(u) \in Nat /\ Len(v) \in Nat
      /\ \A i \in 1 .. Len(u) : u[i] \in Nat
      /\ \A i \in 1 .. Len(v) : v[i] \in Nat
  BY DEF Word
<1>2. CASE n < m
  <2>1. n + 1 \in 1 .. m /\ n # Len(u) /\ n + 1 \in 1 .. Len(u)
    BY <1>1, <1>2 DEF Smaller
  <2>2. u[n + 1] = v[n + 1] /\ u[n + 1] < v[n + 1]
    BY <2>1 DEF Smaller
  <2> QED
    BY <1>1, <2>1, <2>2
<1>3. CASE m < n
  <2>1. m + 1 \in 1 .. n /\ m # Len(v) /\ m + 1 \in 1 .. Len(v)
    BY <1>1, <1>3 DEF Smaller
  <2>2. u[m + 1] = v[m + 1] /\ v[m + 1] < u[m + 1]
    BY <2>1 DEF Smaller
  <2> QED
    BY <1>1, <2>1, <2>2
<1>4. CASE n = m
  <2>1. n + 1 \in 1 .. Len(u) /\ n + 1 \in 1 .. Len(v)
    BY <1>1, <1>4 DEF Smaller
  <2>2. u[n + 1] < v[n + 1] /\ v[n + 1] < u[n + 1]
    BY <1>1, <1>4, <2>1 DEF Smaller
  <2> QED
    BY <1>1, <2>1, <2>2
<1> QED
  BY <1>2, <1>3, <1>4

\* The order is transitive.
LEMMA BeforeTransitive ==
  ASSUME NEW u \in Word, NEW v \in Word, NEW w \in Word, Before(u, v), Before(v, w)
  PROVE  Before(u, w)
<1> SUFFICES ASSUME NEW n \in Nat, Smaller(u, v, n), NEW m \in Nat, Smaller(v, w, m)
             PROVE  \E k \in Nat : Smaller(u, w, k)
  BY BeforeIsSmaller
<1>1. /\ Len(u) \in Nat /\ Len(v) \in Nat /\ Len(w) \in Nat
      /\ \A i \in 1 .. Len(u) : u[i] \in Nat
      /\ \A i \in 1 .. Len(v) : v[i] \in Nat
      /\ \A i \in 1 .. Len(w) : w[i] \in Nat
  BY DEF Word
<1>2. CASE n < m
  <2>1. n + 1 \in 1 .. m /\ n < Len(w) /\ n \in 0 .. Len(u)
    BY <1>1, <1>2 DEF Smaller
  <2>2. v[n + 1] = w[n + 1]
    BY <2>1 DEF Smaller
  <2>3. \A i \in 1 .. n : u[i] = w[i]
    BY <1>2 DEF Smaller
  <2>4. Smaller(u, w, n)
    BY <2>1, <2>2, <2>3 DEF Smaller
  <2> QED
    BY <2>4
<1>3. CASE m < n
  <2>1. m + 1 \in 1 .. n /\ m < Len(w) /\ m \in 0 .. Len(u) /\ m # Len(v)
    BY <1>1, <1>3 DEF Smaller
  <2>2. u[m + 1] = v[m + 1] /\ v[m + 1] < w[m + 1]
    BY <2>1 DEF Smaller
  <2>3. \A i \in 1 .. m : u[i] = w[i]
    BY <1>3 DEF Smaller
  <2>4. Smaller(u, w, m)
    BY <2>1, <2>2, <2>3 DEF Smaller
  <2> QED
    BY <2>4
<1>4. CASE n = m
  <2>1. n < Len(w) /\ n \in 0 .. Len(u) /\ n # Len(v) /\ n + 1 \in 1 .. Len(v)
    BY <1>1, <1>4 DEF Smaller
  <2>2. v[n + 1] < w[n + 1] /\ n + 1 \in 1 .. Len(w)
    BY <1>1, <1>4, <2>1 DEF Smaller
  <2>3. n = Len(u) \/ u[n + 1] < w[n + 1]
    <3>1. CASE n # Len(u)
      <4>1. u[n + 1] < v[n + 1] /\ n + 1 \in 1 .. Len(u)
        BY <1>1, <2>1, <3>1 DEF Smaller
      <4>2. \A a, b, c \in Nat : a < b /\ b < c => a < c
        OBVIOUS
      <4> QED
        BY <1>1, <2>1, <2>2, <4>1, <4>2
    <3> QED
      BY <3>1
  <2>4. \A i \in 1 .. n : u[i] = w[i]
    BY <1>4 DEF Smaller
  <2>5. Smaller(u, w, n)
    BY <2>1, <2>3, <2>4 DEF Smaller
  <2> QED
    BY <2>5
<1> QED
  BY <1>2, <1>3, <1>4

\* Of two words that differ one comes before the other.
LEMMA BeforeTotal ==
  ASSUME NEW u \in Word, NEW v \in Word, u # v
  PROVE  Before(u, v) \/ Before(v, u)
<1> DEFINE D == {n \in Nat : n = Len(u) \/ n = Len(v) \/ u[n + 1] # v[n + 1]}
<1>1. /\ Len(u) \in Nat /\ Len(v) \in Nat
      /\ \A i \in 1 .. Len(u) : u[i] \in Nat
      /\ \A i \in 1 .. Len(v) : v[i] \in Nat
  BY DEF Word
<1>2. Len(u) \in D /\ Len(v) \in D
  BY <1>1
<1>3. D \in SUBSET Nat /\ D # {}
  BY <1>2
<1>4. PICK n \in D : \A k \in D : n <= k
  BY <1>3, Least
<1>5. n <= Len(u) /\ n <= Len(v) /\ n \in Nat
  BY <1>2, <1>4
<1>6. ASSUME NEW i \in 1 .. n
      PROVE  u[i] = v[i]
  <2> DEFINE k == i - 1
  <2>1. k \in Nat /\ ~(n <= k) /\ k + 1 = i
    BY <1>5
  <2> HIDE DEF k
  <2>2. k \notin D
    <3> HIDE DEF D
    <3> QED
      BY <1>4, <2>1
  <2>3. u[k + 1] = v[k + 1]
    BY <2>1, <2>2
  <2> QED
    BY <2>1, <2>3
<1>7. n = Len(u) \/ n = Len(v) \/ u[n + 1] # v[n + 1]
  BY <1>4
<1> HIDE DEF D
<1>8. ~(n = Len(u) /\ n = Len(v))
  BY <1>6, SeqEqual DEF Word
<1>9. Smaller(u, v, n) \/ Smaller(v, u, n)
  <2>1. CASE n = Len(u)
    BY <1>1, <1>5, <1>6, <1>8, <2>1 DEF Smaller
  <2>2. CASE n = Len(v)
    BY <1>1, <1>5, <1>6, <1>8, <2>2 DEF Smaller
  <2>3. CASE n # Len(u) /\ n # Len(v)
    <3>1. n + 1 \in 1 .. Len(u) /\ n + 1 \in 1 .. Len(v)
      BY <1>1, <1>5, <2>3
    <3>2. u[n + 1] < v[n + 1] \/ v[n + 1] < u[n + 1]
      BY <1>1, <1>7, <2>3, <3>1
    <3> QED
      BY <1>1, <1>5, <1>6, <2>3, <3>2 DEF Smaller
  <2> QED
    BY <2>1, <2>2, <2>3
<1> QED
  BY <1>5, <1>9, BeforeIsSmaller

\* A third word comes after the first or before the second.
LEMMA BeforeEither ==
  ASSUME NEW u \in Word, NEW v \in Word, NEW w \in Word, Before(u, v)
  PROVE  Before(u, w) \/ Before(w, v)
BY BeforeTotal, BeforeTransitive

-----------------------------------------------------------------------------
(* Sorting *)

\* The permutations that put the first n words in order.
Ordering(words, n) ==
  {p \in Bijection(1 .. n, 1 .. n) :
     \A i, j \in 1 .. n : i < j => ~Before(words[p[j]], words[p[i]])}

\* One more word has its place after the last that is not after it.
LEMMA OrderOneMore ==
  ASSUME NEW words \in Seq(Word), NEW n \in Nat, n < Len(words), NEW p \in Ordering(words, n)
  PROVE  \E q : q \in Ordering(words, n + 1)
<1> DEFINE x == words[n + 1]
           K == {k \in 0 .. n : \A i \in 1 .. n : i > k => Before(x, words[p[i]])}
<1>1. /\ x \in Word
      /\ \A i \in 1 .. n : words[p[i]] \in Word
      /\ p \in [1 .. n -> 1 .. n]
      /\ \A i, j \in 1 .. n : p[i] = p[j] => i = j
      /\ \A t \in 1 .. n : \E i \in 1 .. n : p[i] = t
      /\ \A i, j \in 1 .. n : i < j => ~Before(words[p[j]], words[p[i]])
  <2>1. /\ p \in [1 .. n -> 1 .. n]
        /\ \A i, j \in 1 .. n : p[i] = p[j] => i = j
        /\ \A t \in 1 .. n : \E i \in 1 .. n : p[i] = t
        /\ \A i, j \in 1 .. n : i < j => ~Before(words[p[j]], words[p[i]])
    BY DEF Ordering, Bijection, Injection, Surjection, IsInjective
  <2>2. \A i \in 1 .. Len(words) : words[i] \in Word
    OBVIOUS
  <2>3. \A i \in 1 .. n : p[i] \in 1 .. Len(words)
    BY <2>1
  <2>4. n + 1 \in 1 .. Len(words)
    OBVIOUS
  <2> QED
    BY <2>1, <2>2, <2>3, <2>4
<1>2. n \in K
  OBVIOUS
<1>3. PICK k \in K : \A l \in K : k <= l
  <2>1. K \in SUBSET Nat
    OBVIOUS
  <2> HIDE DEF K
  <2> QED
    BY <1>2, <2>1, Least
<1>4. k \in 0 .. n /\ \A i \in 1 .. n : i > k => Before(x, words[p[i]])
  BY <1>3
<1> DEFINE q == [i \in 1 .. n + 1 |-> IF i <= k THEN p[i]
                                     ELSE IF i = k + 1 THEN n + 1 ELSE p[i - 1]]
<1> HIDE DEF x
<1>5. ASSUME NEW i \in 1 .. k
      PROVE  ~Before(x, words[p[i]])
  <2>1. k - 1 \in 0 .. n /\ ~(k <= k - 1) /\ k \in 1 .. n
    BY <1>4
  <2>2. k - 1 \notin K
    <3> HIDE DEF K
    <3> QED
      BY <1>3, <2>1
  <2>3. PICK j \in 1 .. n : j > k - 1 /\ ~Before(x, words[p[j]])
    BY <2>1, <2>2
  <2>4. j = k
    BY <1>4, <2>1, <2>3
  <2>5. CASE i = k
    BY <2>3, <2>4, <2>5
  <2>6. CASE i # k
    <3>1. i \in 1 .. n /\ i < j
      BY <2>1, <2>4, <2>6
    <3>2. ~Before(words[p[j]], words[p[i]]) /\ words[p[i]] \in Word /\ words[p[j]] \in Word
      BY <1>1, <3>1
    <3>3. x \in Word
      BY <1>1
    <3>4. Before(x, words[p[i]])
            => Before(x, words[p[j]]) \/ Before(words[p[j]], words[p[i]])
      BY <3>2, <3>3, BeforeEither
    <3> QED
      BY <2>3, <3>2, <3>4
  <2> QED
    BY <2>5, <2>6
<1> HIDE DEF K
<1>6. /\ \A i \in 1 .. n + 1 : i <= k => i \in 1 .. n /\ q[i] = p[i]
      /\ q[k + 1] = n + 1 /\ k + 1 \in 1 .. n + 1
      /\ \A i \in 1 .. n + 1 : i > k + 1 => i - 1 \in 1 .. n /\ i - 1 > k /\ q[i] = p[i - 1]
      /\ q \in [1 .. n + 1 -> 1 .. n + 1]
  <2>1. \A i \in 1 .. n : p[i] \in 1 .. n
    BY <1>1
  <2> QED
    BY <1>4, <2>1
<1> HIDE DEF q
<1> DEFINE m == n + 1
<1>7. \A t \in 1 .. m : \E i \in 1 .. m : q[i] = t
  <2> SUFFICES ASSUME NEW t \in 1 .. m
               PROVE  \E i \in 1 .. m : q[i] = t
    OBVIOUS
  <2>1. CASE t = m
    BY <1>6, <2>1
  <2>2. CASE t # m
    <3>1. PICK i \in 1 .. n : p[i] = t
      BY <1>1, <2>2
    <3>2. CASE i <= k
      <4>1. i \in 1 .. n + 1
        OBVIOUS
      <4>2. q[i] = p[i]
        BY <1>6, <3>2, <4>1
      <4> QED
        BY <3>1, <4>1, <4>2
    <3>3. CASE i > k
      <4>1. i + 1 \in 1 .. m /\ i + 1 > k + 1 /\ (i + 1) - 1 = i
        BY <1>4, <3>3
      <4>2. q[i + 1] = p[i]
        BY <1>6, <4>1
      <4> QED
        BY <3>1, <4>1, <4>2
    <3> QED
      BY <1>4, <3>2, <3>3
  <2> QED
    BY <2>1, <2>2
<1>8. ASSUME NEW i \in 1 .. m, NEW j \in 1 .. m, i < j
      PROVE  q[i] # q[j] /\ ~Before(words[q[j]], words[q[i]])
  <2>1. CASE j <= k
    <3>0. i \in 1 .. n + 1 /\ j \in 1 .. n + 1 /\ i <= k
      BY <1>4, <1>8, <2>1
    <3>1. i \in 1 .. n /\ j \in 1 .. n /\ q[i] = p[i] /\ q[j] = p[j]
      BY <1>6, <2>1, <3>0
    <3>2. i # j
      BY <1>8
    <3>3. p[i] # p[j] /\ ~Before(words[p[j]], words[p[i]])
      BY <1>1, <1>8, <3>1, <3>2
    <3> QED
      BY <3>1, <3>3
  <2>2. CASE j = k + 1
    <3>1. i \in 1 .. k /\ i \in 1 .. n /\ q[i] = p[i] /\ q[j] = n + 1
      BY <1>4, <1>6, <1>8, <2>2
    <3>2. p[i] \in 1 .. n
      BY <1>1, <3>1
    <3> QED
      BY <1>5, <3>1, <3>2 DEF x
  <2>3. CASE i = k + 1
    <3>1. j - 1 \in 1 .. n /\ j - 1 > k /\ q[j] = p[j - 1] /\ q[i] = n + 1
      BY <1>4, <1>6, <1>8, <2>3
    <3>2. p[j - 1] \in 1 .. n /\ Before(x, words[p[j - 1]]) /\ words[p[j - 1]] \in Word
      BY <1>1, <1>4, <3>1
    <3>3. ~Before(words[p[j - 1]], x)
      BY <1>1, <3>2, BeforeAsymmetric
    <3> QED
      BY <3>1, <3>2, <3>3 DEF x
  <2>4. CASE i <= k /\ j > k + 1
    <3>1. i \in 1 .. n /\ q[i] = p[i]
      BY <1>6, <2>4
    <3>2. j - 1 \in 1 .. n /\ j - 1 > k /\ q[j] = p[j - 1]
      BY <1>6, <2>4
    <3>3. i < j - 1
      BY <1>4, <2>4, <3>2
    <3>4. p[i] # p[j - 1] /\ ~Before(words[p[j - 1]], words[p[i]])
      <4> DEFINE l == j - 1
      <4>1. l \in 1 .. n /\ i < l /\ i # l
        BY <3>2, <3>3
      <4> HIDE DEF l
      <4>2. p[i] # p[l] /\ ~Before(words[p[l]], words[p[i]])
        BY <1>1, <3>1, <4>1
      <4> QED
        BY <4>2 DEF l
    <3> QED
      BY <3>1, <3>2, <3>4
  <2>5. CASE i > k + 1
    <3>1. i - 1 \in 1 .. n /\ q[i] = p[i - 1]
      BY <1>6, <2>5
    <3>2. j > k + 1
      BY <1>4, <1>8, <2>5
    <3>3. j - 1 \in 1 .. n /\ q[j] = p[j - 1]
      BY <1>6, <3>2
    <3>4. i - 1 < j - 1
      BY <1>8
    <3> DEFINE l == j - 1
               h == i - 1
    <3>5. l \in 1 .. n /\ h \in 1 .. n /\ h < l /\ h # l
      BY <3>1, <3>3, <3>4
    <3>6. q[i] = p[h] /\ q[j] = p[l]
      BY <3>1, <3>3
    <3> HIDE DEF l, h
    <3>7. p[h] # p[l] /\ ~Before(words[p[l]], words[p[h]])
      BY <1>1, <3>5
    <3> QED
      BY <3>6, <3>7
  <2> QED
    BY <1>4, <1>8, <2>1, <2>2, <2>3, <2>4, <2>5
<1>9. \A i, j \in 1 .. m : q[i] = q[j] => i = j
  <2> SUFFICES ASSUME NEW i \in 1 .. m, NEW j \in 1 .. m, q[i] = q[j], i # j
               PROVE  FALSE
    OBVIOUS
  <2>1. i < j \/ j < i
    OBVIOUS
  <2> QED
    BY <1>8, <2>1
<1>10. q \in [1 .. m -> 1 .. m]
  BY <1>6
<1> HIDE DEF m
<1>11. q \in Ordering(words, m)
  BY <1>7, <1>8, <1>9, <1>10 DEF Ordering, Bijection, Injection, Surjection, IsInjective
<1> QED
  BY <1>11 DEF m

\* Every list of words can be sorted.
LEMMA OrderExists ==
  ASSUME NEW words \in Seq(Word)
  PROVE  Orders(words) # {}
<1> DEFINE Bad == {n \in 0 .. Len(words) : Ordering(words, n) = {}}
<1>1. Len(words) \in Nat /\ DOMAIN words = 1 .. Len(words)
  OBVIOUS
<1>2. Orders(words) = Ordering(words, Len(words))
  BY <1>1 DEF Orders, Ordering
<1>3. Ordering(words, 0) # {}
  <2> DEFINE p == [i \in 1 .. 0 |-> 1]
  <2>1. p \in Ordering(words, 0)
    BY DEF Ordering, Bijection, Injection, Surjection, IsInjective
  <2> QED
    BY <2>1
<1>4. ASSUME Bad # {} PROVE FALSE
  <2>1. PICK b \in Bad : \A n \in Bad : b <= n
    <3>1. Bad \in SUBSET Nat
      BY <1>1
    <3> HIDE DEF Bad
    <3> QED
      BY <1>4, <3>1, Least
  <2>2. b \in 0 .. Len(words) /\ Ordering(words, b) = {}
    BY <2>1
  <2>3. b - 1 \in Nat /\ b - 1 \in 0 .. Len(words) /\ b - 1 < Len(words) /\ ~(b <= b - 1)
    BY <1>1, <1>3, <2>2
  <2>4. b - 1 \notin Bad
    <3> HIDE DEF Bad
    <3> QED
      BY <2>1, <2>3
  <2>5. PICK p : p \in Ordering(words, b - 1)
    BY <2>3, <2>4
  <2>6. \E q : q \in Ordering(words, (b - 1) + 1)
    BY <2>3, <2>5, OrderOneMore
  <2>7. (b - 1) + 1 = b
    BY <2>2
  <2> QED
    BY <2>2, <2>6, <2>7
<1> QED
  BY <1>1, <1>2, <1>4

\* The words of v are those of u at other places.
Rearranged(u, v) ==
  \E t \in [1 .. Len(u) -> 1 .. Len(v)] :
    /\ \A i, j \in 1 .. Len(u) : t[i] = t[j] => i = j
    /\ \A i \in 1 .. Len(u) : u[i] = v[t[i]]

InOrder(u) == \A i, j \in 1 .. Len(u) : i < j => ~Before(u[j], u[i])

\* What sorting yields.
LEMMA SortedIs ==
  ASSUME NEW words \in Seq(Word)
  PROVE  /\ Sorted(words) \in Seq(Word)
         /\ Len(Sorted(words)) = Len(words)
         /\ InOrder(Sorted(words))
         /\ Rearranged(Sorted(words), words) /\ Rearranged(words, Sorted(words))
<1> DEFINE n == Len(words)
           p == CHOOSE p \in Orders(words) : TRUE
           s == [i \in 1 .. n |-> words[p[i]]]
<1>1. n \in Nat /\ DOMAIN words = 1 .. n /\ \A i \in 1 .. n : words[i] \in Word
  OBVIOUS
<1>2. p \in Orders(words)
  BY OrderExists
<1>3. Sorted(words) = s
  BY <1>1 DEF Sorted
<1> HIDE DEF n, p
<1>4. /\ p \in [1 .. n -> 1 .. n]
      /\ \A i, j \in 1 .. n : p[i] = p[j] => i = j
      /\ \A t \in 1 .. n : \E i \in 1 .. n : p[i] = t
      /\ \A i, j \in 1 .. n : i < j => ~Before(words[p[j]], words[p[i]])
  BY <1>1, <1>2 DEF Orders, Bijection, Injection, Surjection, IsInjective
<1>5. \A i \in 1 .. n : s[i] = words[p[i]] /\ s[i] \in Word
  BY <1>1, <1>4
<1>6. s \in Seq(Word) /\ Len(s) = n
  <2>1. s \in [1 .. n -> Word]
    BY <1>1, <1>4
  <2> HIDE DEF s
  <2> QED
    BY <1>1, <2>1
<1> HIDE DEF s
<1>7. InOrder(s)
  <2> SUFFICES ASSUME NEW i \in 1 .. n, NEW j \in 1 .. n, i < j
               PROVE  ~Before(s[j], s[i])
    BY <1>6 DEF InOrder
  <2>1. s[i] = words[p[i]] /\ s[j] = words[p[j]]
    BY <1>5
  <2> QED
    BY <1>4, <2>1
<1>8. Rearranged(s, words)
  <2>1. \A i \in 1 .. n : s[i] = words[p[i]]
    BY <1>5
  <2>2. n = Len(words)
    BY DEF n
  <2>3. \E t \in [1 .. n -> 1 .. n] :
          /\ \A i, j \in 1 .. n : t[i] = t[j] => i = j
          /\ \A i \in 1 .. n : s[i] = words[t[i]]
    BY <1>4, <2>1
  <2> QED
    BY <1>6, <2>2, <2>3 DEF Rearranged
<1>9. Rearranged(words, s)
  <2> DEFINE r == [t \in 1 .. n |-> CHOOSE i \in 1 .. n : p[i] = t]
  <2>1. \A t \in 1 .. n : r[t] \in 1 .. n /\ p[r[t]] = t
    BY <1>4
  <2>2. r \in [1 .. n -> 1 .. n]
    BY <2>1
  <2> HIDE DEF r
  <2>3. \A i, j \in 1 .. n : r[i] = r[j] => i = j
    BY <2>1
  <2>4. \A t \in 1 .. n : words[t] = s[r[t]]
    BY <1>5, <2>1
  <2> QED
    BY <1>6, <2>2, <2>3, <2>4 DEF Rearranged, n
<1> QED
  BY <1>3, <1>6, <1>7, <1>8, <1>9 DEF n

\* There are n numbers from 1 to n.
LEMMA UpToCount ==
  ASSUME NEW n \in Nat
  PROVE  IsFiniteSet(1 .. n) /\ Cardinality(1 .. n) = n
<1>1. IsFiniteSet(1 .. n) /\ Cardinality(1 .. n) = IF 1 > n THEN 0 ELSE n - 1 + 1
  <2>1. 1 \in Int /\ n \in Int
    OBVIOUS
  <2> QED
    BY <2>1, FS_Interval
<1>2. (IF 1 > n THEN 0 ELSE n - 1 + 1) = n
  OBVIOUS
<1> QED
  BY <1>1, <1>2

\* Of two lists in order with the same words, the first has at no place a smaller
\* word: its first i words would have i - 1 places in the second.
LEMMA SortedIsLeast ==
  ASSUME NEW u \in Seq(Word), NEW v \in Seq(Word), InOrder(u), InOrder(v), Rearranged(u, v),
         NEW i \in 1 .. Len(u), i <= Len(v)
  PROVE  ~Before(u[i], v[i])
<1> SUFFICES ASSUME Before(u[i], v[i]) PROVE FALSE
  OBVIOUS
<1>1. /\ Len(u) \in Nat /\ Len(v) \in Nat
      /\ \A j \in 1 .. Len(u) : u[j] \in Word
      /\ \A j \in 1 .. Len(v) : v[j] \in Word
  OBVIOUS
<1>2. PICK t \in [1 .. Len(u) -> 1 .. Len(v)] :
        /\ \A j, k \in 1 .. Len(u) : t[j] = t[k] => j = k
        /\ \A j \in 1 .. Len(u) : u[j] = v[t[j]]
  BY DEF Rearranged
<1>3. ASSUME NEW j \in 1 .. i
      PROVE  t[j] \in 1 .. i - 1
  <2>1. j \in 1 .. Len(u) /\ t[j] \in 1 .. Len(v) /\ u[j] = v[t[j]] /\ i \in 1 .. Len(v)
    <3>1. j \in 1 .. Len(u) /\ i \in 1 .. Len(v)
      BY <1>1
    <3> QED
      BY <1>2, <3>1
  <2>2. ~Before(u[i], u[j])
    <3>1. CASE j = i
      BY <1>1, <3>1, BeforeAsymmetric
    <3>2. CASE j < i
      BY <2>1, <3>2 DEF InOrder
    <3> QED
      BY <3>1, <3>2
  <2>3. Before(u[j], v[i])
    BY <1>1, <2>1, <2>2, BeforeEither
  <2>4. ASSUME t[j] >= i PROVE FALSE
    <3>1. CASE t[j] = i
      BY <1>1, <2>1, <2>3, <3>1, BeforeAsymmetric
    <3>2. CASE t[j] > i
      BY <2>1, <2>3, <3>2 DEF InOrder
    <3> QED
      BY <2>1, <2>4, <3>1, <3>2
  <2> QED
    BY <2>1, <2>4
<1> DEFINE f == [j \in 1 .. i |-> t[j]]
<1>4. f \in [1 .. i -> 1 .. i - 1]
  BY <1>3
<1>5. /\ IsFiniteSet(1 .. i) /\ Cardinality(1 .. i) = i
      /\ IsFiniteSet(1 .. i - 1) /\ Cardinality(1 .. i - 1) = i - 1
  <2>1. i \in Nat /\ i - 1 \in Nat
    OBVIOUS
  <2> QED
    BY <2>1, UpToCount
<1> DEFINE S == 1 .. i
           T == 1 .. i - 1
<1>6. IsFiniteSet(S) /\ IsFiniteSet(T) /\ Cardinality(T) < Cardinality(S)
  BY <1>5
<1>7. f \in [S -> T]
  BY <1>4
<1>8. \E j, k \in S : j # k /\ f[j] = f[k]
  <2> HIDE DEF S, T, f
  <2> QED
    BY <1>6, <1>7, FS_PigeonHole
<1> QED
  BY <1>2, <1>8

\* Neither of two such lists has the smaller word at any place: they are one.
LEMMA SortedIsUnique ==
  ASSUME NEW u \in Seq(Word), NEW v \in Seq(Word), InOrder(u), InOrder(v),
         Rearranged(u, v), Rearranged(v, u), Len(u) = Len(v)
  PROVE  u = v
<1>1. \A i \in 1 .. Len(u) : u[i] \in Word /\ v[i] \in Word
  OBVIOUS
<1>2. \A i \in 1 .. Len(u) : ~Before(u[i], v[i]) /\ ~Before(v[i], u[i])
  BY SortedIsLeast
<1>3. \A i \in 1 .. Len(u) : u[i] = v[i]
  BY <1>1, <1>2, BeforeTotal
<1> QED
  BY <1>3, SeqEqual

\* There is a place for each of the words.
LEMMA RearrangedLength ==
  ASSUME NEW u \in Seq(Word), NEW v \in Seq(Word), Rearranged(u, v)
  PROVE  Len(u) <= Len(v)
<1> DEFINE S == 1 .. Len(u)
           T == 1 .. Len(v)
<1>1. Len(u) \in Nat /\ Len(v) \in Nat
  OBVIOUS
<1>2. PICK t \in [S -> T] : \A i, j \in S : t[i] = t[j] => i = j
  BY DEF Rearranged
<1>3. /\ IsFiniteSet(S) /\ Cardinality(S) = Len(u)
      /\ IsFiniteSet(T) /\ Cardinality(T) = Len(v)
  BY <1>1, UpToCount
<1> HIDE DEF S, T
<1>4. ~(Cardinality(T) < Cardinality(S))
  BY <1>2, <1>3, FS_PigeonHole
<1> QED
  BY <1>1, <1>3, <1>4

\* Rearranging twice is rearranging.
LEMMA RearrangedTransitive ==
  ASSUME NEW u \in Seq(Word), NEW v \in Seq(Word), NEW w \in Seq(Word),
         Rearranged(u, v), Rearranged(v, w)
  PROVE  Rearranged(u, w)
<1>1. PICK t \in [1 .. Len(u) -> 1 .. Len(v)] :
        /\ \A i, j \in 1 .. Len(u) : t[i] = t[j] => i = j
        /\ \A i \in 1 .. Len(u) : u[i] = v[t[i]]
  BY DEF Rearranged
<1>2. PICK z \in [1 .. Len(v) -> 1 .. Len(w)] :
        /\ \A i, j \in 1 .. Len(v) : z[i] = z[j] => i = j
        /\ \A i \in 1 .. Len(v) : v[i] = w[z[i]]
  BY DEF Rearranged
<1> DEFINE y == [i \in 1 .. Len(u) |-> z[t[i]]]
<1>3. y \in [1 .. Len(u) -> 1 .. Len(w)]
  OBVIOUS
<1>4. \A i \in 1 .. Len(u) : t[i] \in 1 .. Len(v) /\ y[i] = z[t[i]]
  OBVIOUS
<1> HIDE DEF y
<1>5. \A i, j \in 1 .. Len(u) : y[i] = y[j] => i = j
  BY <1>1, <1>2, <1>4
<1>6. ASSUME NEW i \in 1 .. Len(u)
      PROVE  u[i] = w[y[i]]
  <2>1. u[i] = v[t[i]]
    BY <1>1
  <2>2. v[t[i]] = w[z[t[i]]]
    BY <1>2, <1>4
  <2> QED
    BY <1>4, <2>1, <2>2
<1> QED
  BY <1>3, <1>5, <1>6 DEF Rearranged

\* Lists in which every word is as often are rearrangements of each other.
LEMMA SameTimesRearranged ==
  ASSUME NEW u \in Seq(Word), NEW v \in Seq(Word),
         \A w \in ToSet(u) : Times(w, u) = Times(w, v)
  PROVE  Rearranged(u, v)
<1> DEFINE U(w) == {i \in 1 .. Len(u) : u[i] = w}
           V(w) == {i \in 1 .. Len(v) : v[i] = w}
           h(w) == CHOOSE f \in [U(w) -> V(w)] : \A i, j \in U(w) : f[i] = f[j] => i = j
           t == [i \in 1 .. Len(u) |-> h(u[i])[i]]
<1>1. /\ Len(u) \in Nat /\ Len(v) \in Nat
      /\ IsFiniteSet(1 .. Len(u)) /\ IsFiniteSet(1 .. Len(v))
  BY UpToCount
<1>2. ASSUME NEW w \in ToSet(u)
      PROVE  h(w) \in [U(w) -> V(w)] /\ \A i, j \in U(w) : h(w)[i] = h(w)[j] => i = j
  <2>1. IsFiniteSet(U(w)) /\ IsFiniteSet(V(w))
    <3>1. U(w) \subseteq 1 .. Len(u) /\ V(w) \subseteq 1 .. Len(v)
      OBVIOUS
    <3> HIDE DEF U, V
    <3> QED
      BY <1>1, <3>1, FS_Subset
  <2>2. Cardinality(U(w)) = Cardinality(V(w))
    BY DEF Times
  <2> HIDE DEF U, V
  <2>3. ExistsBijection(U(w), V(w))
    BY <2>1, <2>2, FS_SameCardinalityBij
  <2>4. \E f \in [U(w) -> V(w)] : \A i, j \in U(w) : f[i] = f[j] => i = j
    BY <2>3 DEF ExistsBijection, Bijection, Injection, IsInjective
  <2> QED
    BY <2>4
<1>3. ASSUME NEW i \in 1 .. Len(u)
      PROVE  /\ u[i] \in ToSet(u) /\ i \in U(u[i]) /\ t[i] = h(u[i])[i]
             /\ t[i] \in 1 .. Len(v) /\ v[t[i]] = u[i]
  <2>1. u[i] \in ToSet(u) /\ i \in U(u[i])
    BY DEF ToSet
  <2>2. t[i] = h(u[i])[i]
    OBVIOUS
  <2> HIDE DEF h, t
  <2>3. t[i] \in V(u[i])
    BY <1>2, <2>1, <2>2
  <2> QED
    BY <2>1, <2>2, <2>3
<1>4. t \in [1 .. Len(u) -> 1 .. Len(v)]
  <2>1. \A i \in 1 .. Len(u) : t[i] \in 1 .. Len(v)
    BY <1>3
  <2>2. t = [i \in 1 .. Len(u) |-> t[i]]
    OBVIOUS
  <2> HIDE DEF t
  <2> QED
    BY <2>1, <2>2
<1> HIDE DEF U, V, h, t
<1>5. ASSUME NEW i \in 1 .. Len(u), NEW j \in 1 .. Len(u), t[i] = t[j]
      PROVE  i = j
  <2>1. u[i] = u[j]
    BY <1>3, <1>5
  <2>2. i \in U(u[i]) /\ j \in U(u[i]) /\ h(u[i])[i] = h(u[i])[j] /\ u[i] \in ToSet(u)
    BY <1>3, <1>5, <2>1
  <2> QED
    BY <1>2, <2>2
<1>6. \A i \in 1 .. Len(u) : u[i] = v[t[i]]
  BY <1>3
<1> QED
  BY <1>4, <1>5, <1>6 DEF Rearranged

\* So they are sorted into the same list.
LEMMA SameTimesSorted ==
  ASSUME NEW u \in Seq(Word), NEW v \in Seq(Word),
         \A w \in ToSet(u) \cup ToSet(v) : Times(w, u) = Times(w, v)
  PROVE  Sorted(u) = Sorted(v)
<1> DEFINE a == Sorted(u)
           b == Sorted(v)
<1>1. /\ a \in Seq(Word) /\ InOrder(a) /\ Rearranged(a, u) /\ Rearranged(u, a)
      /\ b \in Seq(Word) /\ InOrder(b) /\ Rearranged(b, v) /\ Rearranged(v, b)
  BY SortedIs
<1>2. Rearranged(u, v) /\ Rearranged(v, u)
  BY SameTimesRearranged
<1> HIDE DEF a, b
<1>3. Rearranged(a, v) /\ Rearranged(b, u)
  BY <1>1, <1>2, RearrangedTransitive
<1>4. Rearranged(a, b) /\ Rearranged(b, a)
  BY <1>1, <1>3, RearrangedTransitive
<1>5. Len(a) = Len(b)
  <2>1. Len(a) <= Len(b) /\ Len(b) <= Len(a)
    BY <1>1, <1>4, RearrangedLength
  <2>2. Len(a) \in Nat /\ Len(b) \in Nat
    BY <1>1
  <2> QED
    BY <2>1, <2>2
<1>6. a = b
  BY <1>1, <1>4, <1>5, SortedIsUnique
<1> QED
  BY <1>6 DEF a, b

-----------------------------------------------------------------------------
(* Joining *)

\* What the places of words are joined to, one after the other.
IsText(text, words) ==
  text = [n \in 0 .. Len(words) |->
            IF n = 0 THEN <<>>
            ELSE IF n = 1 THEN words[1]
            ELSE text[n - 1] \o <<Comma>> \o words[n]]

\* The same of the first n words.
IsTextUpTo(text, words, n) ==
  text = [i \in 0 .. n |->
            IF i = 0 THEN <<>>
            ELSE IF i = 1 THEN words[1]
            ELSE text[i - 1] \o <<Comma>> \o words[i]]

\* One more word can be joined.
LEMMA TextOneMore ==
  ASSUME NEW words, NEW n \in Nat, NEW f, IsTextUpTo(f, words, n)
  PROVE  \E g : IsTextUpTo(g, words, n + 1)
<1> DEFINE m == n + 1
           step == IF m = 1 THEN words[1] ELSE f[n] \o <<Comma>> \o words[m]
           g == [i \in 0 .. m |-> IF i = m THEN step ELSE f[i]]
           e(i) == IF i = 0 THEN <<>> ELSE IF i = 1 THEN words[1]
                   ELSE g[i - 1] \o <<Comma>> \o words[i]
<1>1. \A i \in 0 .. n : f[i] = IF i = 0 THEN <<>> ELSE IF i = 1 THEN words[1]
                               ELSE f[i - 1] \o <<Comma>> \o words[i]
  BY DEF IsTextUpTo
<1>2. g[m] = step /\ \A i \in 0 .. n : g[i] = f[i]
  <2> HIDE DEF step
  <2> QED
    OBVIOUS
<1>3. ASSUME NEW i \in 0 .. m
      PROVE  g[i] = e(i)
  <2> HIDE DEF g
  <2>1. CASE i = m
    <3>1. m - 1 = n /\ m # 0 /\ g[n] = f[n]
      BY <1>2
    <3> QED
      BY <1>2, <2>1, <3>1
  <2>2. CASE i # m
    <3>1. i \in 0 .. n /\ g[i] = f[i]
      BY <1>2, <2>2
    <3>2. i # 0 => i - 1 \in 0 .. n /\ g[i - 1] = f[i - 1]
      BY <1>2, <3>1
    <3> QED
      BY <1>1, <3>1, <3>2
  <2> QED
    BY <2>1, <2>2
<1>4. g = [i \in 0 .. m |-> g[i]]
  <2> HIDE DEF step
  <2> QED
    OBVIOUS
<1>5. [i \in 0 .. m |-> g[i]] = [i \in 0 .. m |-> e(i)]
  <2> HIDE DEF g, e
  <2> QED
    BY <1>3
<1>6. IsTextUpTo(g, words, m)
  <2>1. g = [i \in 0 .. m |-> e(i)]
    <3> HIDE DEF g, e
    <3> QED
      BY <1>4, <1>5
  <2> HIDE DEF g, m
  <2> QED
    BY <2>1 DEF IsTextUpTo
<1> QED
  <2> HIDE DEF g
  <2> QED
    BY <1>6

\* So there is a text for every list: the recursive function is well defined.
LEMMA TextExists ==
  ASSUME NEW words \in Seq(Word)
  PROVE  \E f : IsText(f, words)
<1> DEFINE Bad == {n \in 0 .. Len(words) : ~\E f : IsTextUpTo(f, words, n)}
<1>1. Len(words) \in Nat
  OBVIOUS
<1>2. \E f : IsTextUpTo(f, words, 0)
  <2> DEFINE f == [i \in 0 .. 0 |-> <<>>]
  <2>1. \A i \in 0 .. 0 : i = 0
    OBVIOUS
  <2>2. f = [i \in 0 .. 0 |-> IF i = 0 THEN <<>> ELSE IF i = 1 THEN words[1]
                              ELSE f[i - 1] \o <<Comma>> \o words[i]]
    BY <2>1
  <2> HIDE DEF f
  <2>3. IsTextUpTo(f, words, 0)
    BY <2>2 DEF IsTextUpTo
  <2> QED
    BY <2>3
<1>3. ASSUME Bad # {} PROVE FALSE
  <2>1. PICK b \in Bad : \A n \in Bad : b <= n
    <3>1. Bad \in SUBSET Nat
      BY <1>1
    <3> HIDE DEF Bad
    <3> QED
      BY <1>3, <3>1, Least
  <2>2. b \in 0 .. Len(words) /\ ~\E f : IsTextUpTo(f, words, b)
    BY <2>1
  <2>3. b # 0
    BY <1>2, <2>2
  <2>4. b - 1 \in Nat /\ b - 1 \in 0 .. Len(words) /\ ~(b <= b - 1)
    BY <1>1, <2>2, <2>3
  <2>5. b - 1 \notin Bad
    <3> HIDE DEF Bad
    <3> QED
      BY <2>1, <2>4
  <2>6. PICK f : IsTextUpTo(f, words, b - 1)
    BY <2>4, <2>5
  <2>7. \E g : IsTextUpTo(g, words, (b - 1) + 1)
    BY <2>4, <2>6, TextOneMore
  <2>8. (b - 1) + 1 = b
    BY <2>2
  <2> QED
    BY <2>2, <2>7, <2>8
<1>4. PICK f : IsTextUpTo(f, words, Len(words))
  BY <1>1, <1>3
<1> QED
  BY <1>4 DEF IsText, IsTextUpTo

\* And the last of it is what Joined yields.
LEMMA JoinedIs ==
  ASSUME NEW words \in Seq(Word)
  PROVE  \E f : IsText(f, words) /\ Joined(words) = f[Len(words)]
<1> DEFINE f == CHOOSE f : IsText(f, words)
<1>1. IsText(f, words)
  BY TextExists
<1>2. Joined(words) = f[Len(words)]
  BY DEF Joined, IsText
<1> QED
  BY <1>1, <1>2

-----------------------------------------------------------------------------
(* Taking apart what was joined *)

Lacks(w, c) == \A i \in 1 .. Len(w) : w[i] # c

EndsWith(w, c) == w # <<>> /\ w[Len(w)] = c

\* What is where in a concatenation.
LEMMA WordsConcat ==
  ASSUME NEW a \in Word, NEW w \in Word
  PROVE  /\ a \o w \in Word /\ Len(a \o w) = Len(a) + Len(w)
         /\ \A k \in 1 .. Len(a) + Len(w) :
              (a \o w)[k] = IF k <= Len(a) THEN a[k] ELSE w[k - Len(a)]
BY ConcatProperties DEF Word

\* Texts cut at the same place.
LEMMA CutAtPlace ==
  ASSUME NEW a \in Word, NEW b \in Word, NEW w \in Word, NEW z \in Word,
         a \o w = b \o z, Len(a) = Len(b)
  PROVE  a = b /\ w = z
<1>1. /\ Len(a) \in Nat /\ Len(w) \in Nat /\ Len(z) \in Nat
      /\ Len(a \o w) = Len(a) + Len(w) /\ Len(b \o z) = Len(b) + Len(z)
  <2>1. Len(a) \in Nat /\ Len(w) \in Nat /\ Len(z) \in Nat
    BY DEF Word
  <2> QED
    BY <2>1, WordsConcat
<1>2. Len(w) = Len(z)
  BY <1>1
<1>3. \A i \in 1 .. Len(a) : a[i] = b[i]
  <2>1. \A i \in 1 .. Len(a) : (a \o w)[i] = a[i] /\ (b \o z)[i] = b[i]
    BY <1>1, ConcatProperties DEF Word
  <2> QED
    BY <2>1
<1>4. ASSUME NEW i \in 1 .. Len(w)
      PROVE  w[i] = z[i]
  <2> DEFINE k == Len(a) + i
  <2>1. k \in 1 .. Len(a) + Len(w) /\ ~(k <= Len(a)) /\ k - Len(a) = i
    BY <1>1
  <2> HIDE DEF k
  <2>2. (a \o w)[k] = w[i]
    BY <2>1, WordsConcat
  <2>3. k \in 1 .. Len(b) + Len(z) /\ ~(k <= Len(b)) /\ k - Len(b) = i
    BY <1>2, <2>1
  <2>4. (b \o z)[k] = z[i]
    BY <2>3, WordsConcat
  <2> QED
    BY <2>2, <2>4
<1> QED
  BY <1>2, <1>3, <1>4, SeqEqual DEF Word

\* What follows the last c does not reach back behind it.
LEMMA LastNotBefore ==
  ASSUME NEW c, NEW a \in Word, NEW b \in Word, NEW w \in Word, NEW z \in Word,
         a \o w = b \o z, a = <<>> \/ EndsWith(a, c), Lacks(z, c)
  PROVE  Len(a) <= Len(b)
<1>1. /\ Len(a) \in Nat /\ Len(b) \in Nat /\ Len(w) \in Nat /\ Len(z) \in Nat
      /\ Len(a \o w) = Len(a) + Len(w) /\ Len(b \o z) = Len(b) + Len(z)
  <2>1. Len(a) \in Nat /\ Len(b) \in Nat /\ Len(w) \in Nat /\ Len(z) \in Nat
    BY DEF Word
  <2> QED
    BY <2>1, WordsConcat
<1>2. ASSUME Len(b) < Len(a) PROVE FALSE
  <2> DEFINE k == Len(a)
  <2>1. a # <<>> /\ a[k] = c
    BY <1>1, <1>2 DEF EndsWith
  <2>2. k \in 1 .. Len(a) + Len(w) /\ k <= Len(a)
    BY <1>1, <1>2
  <2>3. k \in 1 .. Len(b) + Len(z) /\ ~(k <= Len(b)) /\ k - Len(b) \in 1 .. Len(z)
    BY <1>1, <1>2
  <2> HIDE DEF k
  <2>4. (a \o w)[k] = a[k]
    BY <2>2, ConcatProperties DEF Word
  <2>5. (b \o z)[k] = z[k - Len(b)]
    BY <2>3, ConcatProperties DEF Word
  <2> QED
    BY <2>1, <2>3, <2>4, <2>5 DEF Lacks
<1> QED
  BY <1>1, <1>2

\* A text is cut after its last c in one way.
LEMMA CutAtLast ==
  ASSUME NEW c, NEW a \in Word, NEW b \in Word, NEW w \in Word, NEW z \in Word,
         a \o w = b \o z, Lacks(w, c), Lacks(z, c),
         a = <<>> \/ EndsWith(a, c), b = <<>> \/ EndsWith(b, c)
  PROVE  a = b /\ w = z
<1>1. Len(a) <= Len(b) /\ Len(b) <= Len(a)
  BY LastNotBefore
<1>2. Len(a) = Len(b)
  BY <1>1 DEF Word
<1> QED
  BY <1>2, CutAtPlace

\* The case in which there is a c in both.
LEMMA CutAfterLast ==
  ASSUME NEW c \in Nat, NEW a \in Word, NEW b \in Word, NEW w \in Word, NEW z \in Word,
         a \o w = b \o z, Lacks(w, c), Lacks(z, c), EndsWith(a, c), EndsWith(b, c)
  PROVE  a = b /\ w = z
BY CutAtLast

\* A byte put at the end.
LEMMA ByteAtEnd ==
  ASSUME NEW a \in Word, NEW c \in Nat
  PROVE  /\ a \o <<c>> \in Word /\ EndsWith(a \o <<c>>, c)
         /\ \A b \in Word : a \o <<c>> = b \o <<c>> => a = b
<1>1. <<c>> \in Word /\ Len(<<c>>) = 1 /\ <<c>>[1] = c
  BY DEF Word
<1>2. \A b \in Word : /\ b \o <<c>> \in Word /\ Len(b \o <<c>>) = Len(b) + 1
                      /\ (b \o <<c>>)[Len(b) + 1] = c
  BY DEF Word
<1>3. EndsWith(a \o <<c>>, c)
  BY <1>2 DEF EndsWith, Word
<1>4. ASSUME NEW b \in Word, a \o <<c>> = b \o <<c>>
      PROVE  a = b
  <2>1. Len(a) + 1 = Len(b) + 1
    BY <1>2, <1>4
  <2>2. Len(a) = Len(b)
    BY <2>1 DEF Word
  <2> QED
    BY <1>1, <1>4, <2>2, CutAtPlace
<1> QED
  BY <1>2, <1>3, <1>4

\* What comes before the n-th word.
Lead(f, n) == IF n = 1 THEN <<>> ELSE f[n - 1] \o <<Comma>>

\* The text of the first n words ends with the n-th, after nothing or a comma.
LEMMA TextParts ==
  ASSUME NEW words \in Seq(Word), NEW f, IsText(f, words)
  PROVE  /\ f[0] = <<>>
         /\ \A n \in 1 .. Len(words) :
              /\ words[n] \in Word /\ f[n] \in Word /\ Lead(f, n) \in Word
              /\ f[n] = Lead(f, n) \o words[n]
              /\ IF n = 1 THEN Lead(f, n) = <<>> ELSE EndsWith(Lead(f, n), Comma)
<1>1. Len(words) \in Nat /\ \A n \in 1 .. Len(words) : words[n] \in Word
  OBVIOUS
<1>2. \A n \in 0 .. Len(words) :
        f[n] = IF n = 0 THEN <<>> ELSE IF n = 1 THEN words[1]
               ELSE f[n - 1] \o <<Comma>> \o words[n]
  BY DEF IsText
<1>3. f[0] = <<>> /\ <<>> \in Word /\ Comma \in Nat
  BY <1>1, <1>2 DEF Word, Comma
<1>4. ASSUME NEW n \in 1 .. Len(words)
      PROVE  f[n] = Lead(f, n) \o words[n]
  <2>1. CASE n = 1
    <3>1. f[n] = words[n] /\ words[n] \in Word /\ Lead(f, n) = <<>>
      BY <1>1, <1>2, <2>1 DEF Lead
    <3> QED
      BY <3>1, ConcatEmptySeq DEF Word
  <2>2. CASE n # 1
    <3>1. n \in 0 .. Len(words) /\ n # 0
      BY <1>1
    <3>2. f[n] = f[n - 1] \o <<Comma>> \o words[n]
      BY <1>2, <2>2, <3>1
    <3> QED
      BY <2>2, <3>2 DEF Lead
  <2> QED
    BY <2>1, <2>2
<1>5. ASSUME NEW n \in 1 .. Len(words), n # 1 => f[n - 1] \in Word
      PROVE  /\ Lead(f, n) \in Word
             /\ f[n] \in Word
             /\ IF n = 1 THEN Lead(f, n) = <<>> ELSE EndsWith(Lead(f, n), Comma)
  <2>1. CASE n = 1
    <3>1. Lead(f, n) = <<>> /\ f[n] = words[n]
      BY <1>1, <1>2, <2>1 DEF Lead
    <3> QED
      BY <1>1, <1>3, <2>1, <3>1
  <2>2. CASE n # 1
    <3>1. Lead(f, n) = f[n - 1] \o <<Comma>>
      BY <2>2 DEF Lead
    <3>2. Lead(f, n) \in Word /\ EndsWith(Lead(f, n), Comma)
      BY <1>3, <1>5, <2>2, <3>1, ByteAtEnd
    <3>3. f[n] \in Word
      BY <1>1, <1>4, <3>2, WordsConcat
    <3> QED
      BY <2>2, <3>2, <3>3
  <2> QED
    BY <2>1, <2>2
<1> DEFINE Bad == {n \in 0 .. Len(words) : f[n] \notin Word}
<1>6. ASSUME Bad # {} PROVE FALSE
  <2>1. PICK b \in Bad : \A n \in Bad : b <= n
    <3>1. Bad \in SUBSET Nat
      BY <1>1
    <3> HIDE DEF Bad
    <3> QED
      BY <1>6, <3>1, Least
  <2>2. b \in 1 .. Len(words) /\ f[b] \notin Word
    BY <1>1, <1>3, <2>1
  <2>3. b - 1 \in 0 .. Len(words) /\ ~(b <= b - 1)
    BY <1>1, <2>2
  <2>4. b - 1 \notin Bad
    <3> HIDE DEF Bad
    <3> QED
      BY <2>1, <2>3
  <2>5. f[b - 1] \in Word
    BY <2>3, <2>4
  <2> QED
    BY <1>5, <2>2, <2>5
<1>7. \A n \in 0 .. Len(words) : f[n] \in Word
  BY <1>6
<1>8. ASSUME NEW n \in 1 .. Len(words)
      PROVE  n - 1 \in 0 .. Len(words) /\ n \in 0 .. Len(words)
  BY <1>1
<1> HIDE DEF Bad
<1> QED
  BY <1>1, <1>3, <1>4, <1>5, <1>7, <1>8

PlainWord(w) == w \in Word /\ w # <<>> /\ Lacks(w, Comma) /\ Lacks(w, Bar)

\* There is no bar in a text of plain words.
LEMMA JoinedLacksBar ==
  ASSUME NEW words \in Seq(Word), NEW f, IsText(f, words),
         \A i \in 1 .. Len(words) : PlainWord(words[i])
  PROVE  f[Len(words)] \in Word /\ Lacks(f[Len(words)], Bar)
<1> DEFINE Bad == {n \in 0 .. Len(words) : ~(f[n] \in Word /\ Lacks(f[n], Bar))}
<1>1. Len(words) \in Nat
  OBVIOUS
<1>2. f[0] \in Word /\ Lacks(f[0], Bar)
  <2>1. f[0] = <<>>
    BY TextParts
  <2> QED
    BY <2>1 DEF Lacks, Word
<1>3. ASSUME NEW a \in Word, NEW w \in Word, Lacks(a, Bar), Lacks(w, Bar)
      PROVE  a \o w \in Word /\ Lacks(a \o w, Bar)
  <2>1. Len(a) \in Nat /\ Len(w) \in Nat
    BY DEF Word
  <2> SUFFICES ASSUME NEW k \in 1 .. Len(a) + Len(w)
               PROVE  (a \o w)[k] # Bar
    BY WordsConcat DEF Lacks
  <2>2. CASE k <= Len(a)
    <3>1. k \in 1 .. Len(a) /\ (a \o w)[k] = a[k]
      BY <2>2, WordsConcat
    <3> QED
      BY <1>3, <3>1 DEF Lacks
  <2>3. CASE ~(k <= Len(a))
    <3>1. k - Len(a) \in 1 .. Len(w) /\ (a \o w)[k] = w[k - Len(a)]
      BY <2>1, <2>3, WordsConcat
    <3> QED
      BY <1>3, <3>1 DEF Lacks
  <2> QED
    BY <2>2, <2>3
<1>4. ASSUME Bad # {} PROVE FALSE
  <2>1. PICK b \in Bad : \A n \in Bad : b <= n
    <3>1. Bad \in SUBSET Nat
      BY <1>1
    <3> HIDE DEF Bad
    <3> QED
      BY <1>4, <3>1, Least
  <2>2. b \in 1 .. Len(words) /\ ~(f[b] \in Word /\ Lacks(f[b], Bar))
    BY <1>1, <1>2, <2>1
  <2>3. b - 1 \in 0 .. Len(words) /\ ~(b <= b - 1)
    BY <1>1, <2>2
  <2>4. b - 1 \notin Bad
    <3> HIDE DEF Bad
    <3> QED
      BY <2>1, <2>3
  <2>5. f[b - 1] \in Word /\ Lacks(f[b - 1], Bar)
    BY <2>3, <2>4
  <2> HIDE DEF Bad
  <2>6. /\ words[b] \in Word /\ Lacks(words[b], Bar) /\ Lead(f, b) \in Word
        /\ f[b] = Lead(f, b) \o words[b]
    BY <2>2, TextParts DEF PlainWord
  <2>7. Lacks(Lead(f, b), Bar)
    <3>1. CASE b = 1
      BY <3>1 DEF Lead, Lacks
    <3>2. CASE b # 1
      <4>1. <<Comma>> \in Word /\ Lacks(<<Comma>>, Bar)
        BY DEF Word, Lacks, Comma, Bar
      <4> QED
        BY <1>3, <2>5, <3>2, <4>1 DEF Lead
    <3> QED
      BY <3>1, <3>2
  <2> QED
    BY <1>3, <2>2, <2>6, <2>7
<1>5. Len(words) \in 0 .. Len(words)
  BY <1>1
<1> QED
  BY <1>4, <1>5

\* Plain words can be read from the text they are joined to.
LEMMA TextIdentifiesWords ==
  ASSUME NEW u \in Seq(Word), NEW v \in Seq(Word), NEW f, NEW g, IsText(f, u), IsText(g, v),
         \A i \in 1 .. Len(u) : PlainWord(u[i]), \A i \in 1 .. Len(v) : PlainWord(v[i]),
         f[Len(u)] = g[Len(v)]
  PROVE  u = v
<1> DEFINE Same(m, n) == m = n /\ \A i \in 1 .. m : u[i] = v[i]
           Bad == {m \in 0 .. Len(u) : \E n \in 0 .. Len(v) : f[m] = g[n] /\ ~Same(m, n)}
<1>1. Len(u) \in Nat /\ Len(v) \in Nat
  OBVIOUS
<1>2. /\ f[0] = <<>> /\ g[0] = <<>>
      /\ \A n \in 1 .. Len(u) :
              /\ u[n] \in Word /\ f[n] \in Word /\ Lead(f, n) \in Word
              /\ f[n] = Lead(f, n) \o u[n]
              /\ IF n = 1 THEN Lead(f, n) = <<>> ELSE EndsWith(Lead(f, n), Comma)
      /\ \A n \in 1 .. Len(v) :
              /\ v[n] \in Word /\ g[n] \in Word /\ Lead(g, n) \in Word
              /\ g[n] = Lead(g, n) \o v[n]
              /\ IF n = 1 THEN Lead(g, n) = <<>> ELSE EndsWith(Lead(g, n), Comma)
  BY TextParts
<1>3. \A a, w \in Word : w # <<>> => a \o w # <<>>
  <2> SUFFICES ASSUME NEW a \in Word, NEW w \in Word, w # <<>> PROVE a \o w # <<>>
    OBVIOUS
  <2>1. Len(a) \in Nat /\ Len(w) \in Nat /\ Len(w) # 0 /\ Len(a \o w) = Len(a) + Len(w)
    BY DEF Word
  <2>2. Len(a \o w) # 0
    BY <2>1
  <2> QED
    BY <2>2
<1>4. /\ \A n \in 1 .. Len(u) : f[n] # <<>>
      /\ \A n \in 1 .. Len(v) : g[n] # <<>>
  <2>1. ASSUME NEW n \in 1 .. Len(u) PROVE f[n] # <<>>
    <3>1. Lead(f, n) \in Word /\ u[n] \in Word /\ u[n] # <<>> /\ f[n] = Lead(f, n) \o u[n]
      BY <1>2 DEF PlainWord
    <3> QED
      BY <1>3, <3>1
  <2>2. ASSUME NEW n \in 1 .. Len(v) PROVE g[n] # <<>>
    <3>1. Lead(g, n) \in Word /\ v[n] \in Word /\ v[n] # <<>> /\ g[n] = Lead(g, n) \o v[n]
      BY <1>2 DEF PlainWord
    <3> QED
      BY <1>3, <3>1
  <2> QED
    BY <2>1, <2>2
<1>5. ASSUME Bad # {} PROVE FALSE
  <2>1. PICK b \in Bad : \A m \in Bad : b <= m
    <3>1. Bad \in SUBSET Nat
      BY <1>1
    <3> HIDE DEF Bad
    <3> QED
      BY <1>5, <3>1, Least
  <2>2. PICK n \in 0 .. Len(v) : f[b] = g[n] /\ ~Same(b, n)
    BY <2>1
  <2>3. b \in 0 .. Len(u)
    BY <2>1
  <2>4. b # 0
    <3>1. ASSUME b = 0 PROVE FALSE
      <4>1. n = 0
        BY <1>1, <1>2, <1>4, <2>2, <3>1
      <4> QED
        BY <2>2, <3>1, <4>1
    <3> QED
      BY <3>1
  <2>5. n # 0
    <3>1. b \in 1 .. Len(u)
      BY <1>1, <2>3, <2>4
    <3> QED
      BY <1>2, <1>4, <2>2, <3>1
  <2>6. b \in 1 .. Len(u) /\ n \in 1 .. Len(v)
    BY <1>1, <2>2, <2>3, <2>4, <2>5
  <2> DEFINE a == Lead(f, b)
             c == Lead(g, n)
  <2>7. /\ a \in Word /\ c \in Word /\ u[b] \in Word /\ v[n] \in Word
        /\ a \o u[b] = c \o v[n]
        /\ IF b = 1 THEN a = <<>> ELSE EndsWith(a, Comma)
        /\ IF n = 1 THEN c = <<>> ELSE EndsWith(c, Comma)
        /\ Lacks(u[b], Comma) /\ Lacks(v[n], Comma)
    BY <1>2, <2>2, <2>6 DEF PlainWord
  <2> HIDE DEF a, c
  <2>8. a = c /\ u[b] = v[n]
    <3>1. (a = <<>> \/ EndsWith(a, Comma)) /\ (c = <<>> \/ EndsWith(c, Comma))
      BY <2>7
    <3> QED
      BY <2>7, <3>1, CutAtLast
  <2>9. b = 1 <=> n = 1
    BY <2>7, <2>8 DEF EndsWith
  <2>10. CASE b = 1
    BY <2>2, <2>8, <2>9, <2>10
  <2>11. CASE b # 1
    <3> DEFINE l == b - 1
               k == n - 1
    <3>1. /\ l \in 1 .. Len(u) /\ k \in 1 .. Len(v) /\ ~(b <= l) /\ l \in 0 .. Len(u)
          /\ k \in 0 .. Len(v)
      BY <1>1, <2>6, <2>9, <2>11
    <3>2. f[l] \o <<Comma>> = g[k] \o <<Comma>>
      BY <2>8, <2>9, <2>11 DEF a, c, Lead
    <3>3. (b = n <=> l = k) /\ \A i \in 1 .. b : i = b \/ i \in 1 .. l
      BY <2>6
    <3> HIDE DEF l, k
    <3>4. f[l] = g[k]
      <4>1. Comma \in Nat /\ f[l] \in Word /\ g[k] \in Word
        BY <1>2, <3>1 DEF Comma
      <4> QED
        BY <3>2, <4>1, ByteAtEnd
    <3>5. l \notin Bad
      <4> HIDE DEF Bad
      <4> QED
        BY <2>1, <3>1
    <3>6. Same(l, k)
      BY <3>1, <3>4, <3>5
    <3>7. b = n /\ \A i \in 1 .. b : u[i] = v[i]
      BY <2>8, <3>3, <3>6
    <3> QED
      BY <2>2, <3>7
  <2> QED
    BY <2>10, <2>11
<1>6. Same(Len(u), Len(v))
  <2>1. Len(u) \in 0 .. Len(u) /\ Len(v) \in 0 .. Len(v)
    BY <1>1
  <2> QED
    BY <1>5, <2>1
<1> QED
  BY <1>6, SeqEqual

\* What is hashed of a task, without its file.
Meta(model, envs, cmd) ==
  model \o <<Bar>> \o Joined(envs) \o <<Bar>> \o Joined(cmd) \o <<Bar>>

\* So the parts of a signature can be read from it.
LEMMA SignatureParts ==
  ASSUME NEW m \in Word, NEW e \in Seq(Word), NEW c \in Seq(Word),
         NEW n \in Word, NEW d \in Seq(Word), NEW b \in Seq(Word),
         Plain(e), Plain(c), Plain(d), Plain(b),
         Meta(m, e, c) = Meta(n, d, b)
  PROVE  m = n /\ e = d /\ c = b
<1>1. ASSUME NEW words \in Seq(Word), Plain(words)
      PROVE  \A i \in 1 .. Len(words) : PlainWord(words[i])
  <2> SUFFICES ASSUME NEW i \in 1 .. Len(words) PROVE PlainWord(words[i])
    OBVIOUS
  <2>1. words[i] \in Word /\ words[i] \in ToSet(words)
    BY DEF ToSet
  <2>2. words[i] # <<>> /\ Comma \notin ToSet(words[i]) /\ Bar \notin ToSet(words[i])
    BY <1>1, <2>1 DEF Plain
  <2>3. \A k \in 1 .. Len(words[i]) : words[i][k] \in ToSet(words[i])
    BY DEF ToSet
  <2> QED
    BY <2>1, <2>2, <2>3 DEF PlainWord, Lacks
<1>2. ASSUME NEW words \in Seq(Word), Plain(words)
      PROVE  Joined(words) \in Word /\ Lacks(Joined(words), Bar)
  <2>1. PICK f : IsText(f, words) /\ Joined(words) = f[Len(words)]
    BY JoinedIs
  <2> QED
    BY <1>1, <1>2, <2>1, JoinedLacksBar
<1>3. ASSUME NEW u \in Seq(Word), Plain(u), NEW v \in Seq(Word), Plain(v),
             Joined(u) = Joined(v)
      PROVE  u = v
  <2>1. PICK f : IsText(f, u) /\ Joined(u) = f[Len(u)]
    BY JoinedIs
  <2>2. PICK g : IsText(g, v) /\ Joined(v) = g[Len(v)]
    BY JoinedIs
  <2> QED
    BY <1>1, <1>3, <2>1, <2>2, TextIdentifiesWords
<1> DEFINE je == Joined(e)
           jc == Joined(c)
           jd == Joined(d)
           jb == Joined(b)
           p1 == m \o <<Bar>>
           p2 == p1 \o je
           p3 == p2 \o <<Bar>>
           p4 == p3 \o jc
           q1 == n \o <<Bar>>
           q2 == q1 \o jd
           q3 == q2 \o <<Bar>>
           q4 == q3 \o jb
<1>4. /\ je \in Word /\ jc \in Word /\ jd \in Word /\ jb \in Word
      /\ Lacks(je, Bar) /\ Lacks(jc, Bar) /\ Lacks(jd, Bar) /\ Lacks(jb, Bar)
  BY <1>2
<1>5. p4 \o <<Bar>> = q4 \o <<Bar>>
  BY DEF Meta
<1> HIDE DEF je, jc, jd, jb
<1>6. Bar \in Nat
  BY DEF Bar
<1>7. p1 \in Word /\ q1 \in Word /\ EndsWith(p1, Bar) /\ EndsWith(q1, Bar)
  BY <1>6, ByteAtEnd
<1>8. (p1 = q1 => m = n) /\ (p4 = q4 => p3 \o jc = q3 \o jb)
  BY <1>6, ByteAtEnd
<1> HIDE DEF p1, q1
<1>9. p2 \in Word /\ q2 \in Word
  BY <1>4, <1>7, WordsConcat
<1>10. p2 = q2 => p1 \o je = q1 \o jd
  OBVIOUS
<1> HIDE DEF p2, q2
<1>11. /\ p3 \in Word /\ q3 \in Word /\ EndsWith(p3, Bar) /\ EndsWith(q3, Bar)
       /\ p3 = q3 => p2 = q2
  BY <1>6, <1>9, ByteAtEnd
<1> HIDE DEF p3, q3
<1>12. p4 \in Word /\ q4 \in Word
  BY <1>4, <1>11, WordsConcat
<1> HIDE DEF p4, q4
<1>13. p4 = q4
  BY <1>5, <1>6, <1>12, ByteAtEnd
<1>14. p3 = q3 /\ jc = jb
  <2>1. p3 \o jc = q3 \o jb
    BY <1>8, <1>13
  <2> QED
    BY <1>4, <1>6, <1>11, <2>1, CutAfterLast
<1>15. p1 = q1 /\ je = jd
  <2>1. p1 \o je = q1 \o jd
    BY <1>10, <1>11, <1>14
  <2> QED
    BY <1>4, <1>6, <1>7, <2>1, CutAfterLast
<1>16. m = n
  BY <1>8, <1>15
<1> QED
  BY <1>3, <1>14, <1>15, <1>16 DEF je, jc, jd, jb

-----------------------------------------------------------------------------
(* A task is made from what was read (TaskForm) *)

\* What holds of every row.
RowOK(r) ==
  /\ r.cpu \in 1 .. MaxCPUByTask
  /\ r.sent.timeout < IntHalf /\ DefaultTaskTimeoutSec \in 1 .. IntHalf - 1
     => r.timeout > 0
  /\ [name |-> r.input, content |-> r.sig.hash] \in r.files /\ IsFiniteSet(r.files)
  /\ r.sent \in Forms /\ r.model = r.sent.model /\ r.cmd = r.sent.cmd
  /\ r.envs = Sorted(r.sent.envs)
  /\ r.sig = [meta |-> Meta(r.model, r.envs, r.cmd), hash |-> r.sig.hash]

(* The file whose hash is kept is in the directory, and the task that was  *)
(* read passed the checks of its part.                                     *)
BodyOK ==
  /\ body \in [parts : 0 .. MaxParts, task : Forms \cup {None},
               files : SUBSET FileParts, last : FileParts \cup {None}]
  /\ body.last # None => body.last \in body.files
  /\ IsFiniteSet(body.files)
  /\ body.task # None =>
       body.task \in Forms /\ body.task.cpu \in 0 .. MaxCPUByTask /\ body.task.timeout >= 0

FormInv == BodyOK /\ \A r \in accepted : RowOK(r)

\* The limits a task is given are never zero (internal/server/task.go:194-220).
LEMMA LimitsGiven ==
  ASSUME NEW task \in Forms, task.cpu \in 0 .. MaxCPUByTask, task.timeout >= 0
  PROVE  /\ WithLimits(task).cpu \in 1 .. MaxCPUByTask
         /\ WithLimits(task).timeout \in Int
         /\ WithLimits(task).timeout \in {task.timeout, DefaultTaskTimeoutSec}
         /\ DefaultTaskTimeoutSec > 0 => WithLimits(task).timeout > 0
  BY FormAssumption DEF WithLimits

\* So the row made from them is as it should be.
LEMMA RowIsOK ==
  ASSUME FormInv, body.task # None, body.last # None
  PROVE  RowOK(Row)
<1> DEFINE task == WithLimits(body.task)
<1>1. /\ task.cpu \in 1 .. MaxCPUByTask
      /\ task.timeout \in Int
      /\ task.timeout \in {body.task.timeout, DefaultTaskTimeoutSec}
      /\ DefaultTaskTimeoutSec > 0 => task.timeout > 0
  BY LimitsGiven DEF FormInv, BodyOK
<1> HIDE DEF task
<1>2. /\ Row.cpu = task.cpu /\ Row.sent = body.task
      /\ Row.timeout = Int32(task.timeout)
      /\ Row.input = body.last.name /\ Row.files = body.files
      /\ Row.sig.hash = body.last.content
  BY DEF Row, Signature, task
<1>3. ASSUME body.task.timeout < IntHalf, DefaultTaskTimeoutSec \in 1 .. IntHalf - 1
      PROVE  Row.timeout > 0
  <2>1. task.timeout \in 1 .. IntHalf - 1
    BY <1>1, <1>3, WidthAssumption
  <2> QED
    BY <1>2, <2>1, Int32Fits, WidthAssumption
<1>4. body.last = [name |-> body.last.name, content |-> body.last.content]
  BY FormAssumption DEF FormInv, BodyOK
<1>5. body.last \in body.files /\ IsFiniteSet(body.files) /\ body.task \in Forms
  BY DEF FormInv, BodyOK
<1>6. task.model = body.task.model /\ task.envs = body.task.envs /\ task.cmd = body.task.cmd
  BY <1>5, FormAssumption DEF WithLimits, task
<1>7. /\ Row.model = task.model /\ Row.envs = Sorted(task.envs) /\ Row.cmd = task.cmd
      /\ Row.sig = Signature(task, body.last.content)
  BY DEF Row, task
<1>8. Row.sig = [meta |-> Meta(Row.model, Row.envs, Row.cmd), hash |-> Row.sig.hash]
  BY <1>2, <1>7 DEF Signature, Meta
<1> QED
  BY <1>1, <1>2, <1>3, <1>4, <1>5, <1>6, <1>7, <1>8 DEF RowOK

\* Every part of a body, and the end of it, keeps the invariant.
LEMMA FormKeeps == ASSUME FormInv, FormNext PROVE FormInv'
<1> USE FormAssumption
<1>1. ASSUME UNCHANGED accepted, BodyOK' PROVE FormInv'
  BY <1>1 DEF FormInv, RowOK
<1>2. ASSUME body' = NoBody PROVE BodyOK'
  BY <1>2, FS_EmptySet DEF BodyOK, NoBody
<1>3. ASSUME Refuse PROVE FormInv'
  BY <1>1, <1>2, <1>3 DEF Refuse
<1>4. ASSUME NEW task \in Forms, TaskPart(task) PROVE FormInv'
  <2>1. CASE Refuse
    BY <1>3, <2>1
  <2>2. CASE ~Refuse
    <3>1. /\ More /\ task.cpu \in 0 .. MaxCPUByTask /\ task.timeout >= 0
          /\ body' = [body EXCEPT !.parts = @ + 1, !.task = task] /\ UNCHANGED accepted
      BY <1>4, <2>2 DEF TaskPart
    <3>2. body' = [parts |-> body.parts + 1, task |-> task,
                   files |-> body.files, last |-> body.last]
      BY <3>1 DEF FormInv, BodyOK
    <3> QED
      BY <1>1, <3>1, <3>2 DEF FormInv, BodyOK, More
  <2> QED
    BY <2>1, <2>2
<1>5. ASSUME NEW file \in FileParts, FilePart(file) PROVE FormInv'
  <2>1. body' = [parts |-> body.parts + 1, task |-> body.task,
                 files |-> {f \in body.files : f.name # file.name} \cup {file},
                 last |-> file]
    BY <1>5 DEF FormInv, BodyOK, FilePart
  <2>2. /\ body.parts + 1 \in 0 .. MaxParts
        /\ {f \in body.files : f.name # file.name} \cup {file} \in SUBSET FileParts
        /\ body.task \in Forms \cup {None}
    BY <1>5 DEF FormInv, BodyOK, FilePart, More
  <2>3. IsFiniteSet({f \in body.files : f.name # file.name} \cup {file})
    <3>1. {f \in body.files : f.name # file.name} \in SUBSET body.files
      OBVIOUS
    <3>2. IsFiniteSet({f \in body.files : f.name # file.name})
      BY <3>1, FS_Subset DEF FormInv, BodyOK
    <3> QED
      BY <3>2, FS_AddElement
  <2>4. BodyOK'
    <3> DEFINE saved == {f \in body.files : f.name # file.name} \cup {file}
    <3>1. file \in saved
      OBVIOUS
    <3> HIDE DEF saved
    <3> QED
      BY <1>5, <2>1, <2>2, <2>3, <3>1 DEF FormInv, BodyOK, saved
  <2> QED
    BY <1>1, <2>4, <1>5 DEF FilePart
<1>6. CASE OtherPart
  <2>1. body' = [parts |-> body.parts + 1, task |-> body.task,
                 files |-> body.files, last |-> body.last]
    BY <1>6 DEF FormInv, BodyOK, OtherPart
  <2>2. BodyOK'
    BY <1>6, <2>1 DEF FormInv, BodyOK, OtherPart, More
  <2> QED
    BY <1>1, <2>2, <1>6 DEF OtherPart
<1>7. CASE Fails
  BY <1>3, <1>7 DEF Fails
<1>8. CASE Create
  <2>1. RowOK(Row) /\ accepted' = accepted \cup {Row} /\ BodyOK'
    BY <1>2, <1>8, RowIsOK DEF Create
  <2>2. \A r \in accepted' : RowOK(r)
    BY <2>1 DEF FormInv
  <2> QED
    BY <2>1, <2>2 DEF FormInv, RowOK
<1> QED
  BY <1>4, <1>5, <1>6, <1>7, <1>8 DEF FormNext

-----------------------------------------------------------------------------
(* Sequences without repetitions, cut at a place *)

Distinct(s) == \A i, j \in 1 .. Len(s) : s[i] = s[j] => i = j

\* The elements up to place n, and those after it.
Upto(s, n) == {s[i] : i \in {j \in 1 .. Len(s) : j <= n}}
Past(s, n) == {s[i] : i \in {j \in 1 .. Len(s) : j > n}}

\* What is at place j once e was inserted at place i, or place i removed.
Inserted(s, i, e, j) == IF j < i THEN s[j] ELSE IF j = i THEN e ELSE s[j - 1]
Removed(s, i, j) == IF j < i THEN s[j] ELSE s[j + 1]

\* What InsertAt does, place by place.
LEMMA InsertAtPlaces ==
  ASSUME NEW T, NEW s \in Seq(T), NEW e \in T, NEW i \in 1 .. Len(s) + 1
  PROVE  /\ InsertAt(s, i, e) \in Seq(T)
         /\ Len(InsertAt(s, i, e)) = Len(s) + 1
         /\ \A j \in 1 .. Len(s) + 1 : InsertAt(s, i, e)[j] = Inserted(s, i, e, j)
<1> DEFINE a == SubSeq(s, 1, i - 1)
           b == SubSeq(s, i, Len(s))
<1>1. /\ a \in Seq(T) /\ Len(a) = i - 1
      /\ \A j \in 1 .. i - 1 : a[j] = s[j]
  BY SubSeqProperties
<1>2. /\ b \in Seq(T) /\ Len(b) = Len(s) + 1 - i
      /\ \A j \in 1 .. Len(s) + 1 - i : b[j] = s[i + j - 1]
  BY SubSeqProperties
<1>3. InsertAt(s, i, e) = a \o <<e>> \o b
  BY DEF InsertAt
<1> HIDE DEF a, b
<1>4. a \o <<e>> \in Seq(T) /\ Len(a \o <<e>>) = i
  BY <1>1
<1> DEFINE c == a \o <<e>>
           t == c \o b
<1>5. \A j \in 1 .. i : c[j] = IF j < i THEN s[j] ELSE e
  BY <1>1
<1>6. c \in Seq(T) /\ Len(c) = i /\ InsertAt(s, i, e) = t
  BY <1>3, <1>4
<1> HIDE DEF c, t
<1>7. /\ t \in Seq(T)
      /\ Len(t) = Len(s) + 1
      /\ \A j \in 1 .. Len(s) + 1 :
           t[j] = IF j <= i THEN c[j] ELSE b[j - i]
  <2>1. /\ t \in Seq(T) /\ Len(t) = Len(c) + Len(b)
        /\ \A j \in 1 .. Len(c) + Len(b) :
             t[j] = IF j <= Len(c) THEN c[j] ELSE b[j - Len(c)]
    BY <1>2, <1>6, ConcatProperties DEF t
  <2>2. Len(c) + Len(b) = Len(s) + 1
    BY <1>2, <1>6
  <2> QED
    BY <1>6, <2>1, <2>2
<1>8. ASSUME NEW j \in 1 .. Len(s) + 1
      PROVE  t[j] = IF j < i THEN s[j] ELSE IF j = i THEN e ELSE s[j - 1]
  <2>1. CASE j <= i
    <3>1. j \in 1 .. i /\ t[j] = c[j]
      BY <1>7, <2>1
    <3> QED
      BY <1>5, <3>1
  <2>2. CASE j > i
    <3>1. j - i \in 1 .. Len(s) + 1 - i /\ i + (j - i) - 1 = j - 1
      BY <2>2
    <3>2. b[j - i] = s[j - 1]
      BY <1>2, <3>1
    <3>3. t[j] = b[j - i]
      BY <1>7, <2>2
    <3> QED
      BY <2>2, <3>2, <3>3
  <2> QED
    BY <2>1, <2>2
<1> QED
  BY <1>6, <1>7, <1>8 DEF Inserted

\* And RemoveAt.
LEMMA RemoveAtPlaces ==
  ASSUME NEW T, NEW s \in Seq(T), NEW i \in 1 .. Len(s)
  PROVE  /\ RemoveAt(s, i) \in Seq(T)
         /\ Len(RemoveAt(s, i)) = Len(s) - 1
         /\ \A j \in 1 .. Len(s) - 1 : RemoveAt(s, i)[j] = Removed(s, i, j)
<1> DEFINE a == SubSeq(s, 1, i - 1)
           b == SubSeq(s, i + 1, Len(s))
<1>1. /\ a \in Seq(T) /\ Len(a) = i - 1
      /\ \A j \in 1 .. i - 1 : a[j] = s[j]
  BY SubSeqProperties
<1>2. /\ b \in Seq(T) /\ Len(b) = Len(s) - i
      /\ \A j \in 1 .. Len(s) - i : b[j] = s[i + j]
  BY SubSeqProperties
<1> DEFINE t == a \o b
<1>3. RemoveAt(s, i) = t
  BY DEF RemoveAt
<1> HIDE DEF a, b, t
<1>4. /\ t \in Seq(T)
      /\ Len(t) = Len(s) - 1
      /\ \A j \in 1 .. Len(s) - 1 :
           t[j] = IF j <= i - 1 THEN a[j] ELSE b[j - (i - 1)]
  <2>1. /\ t \in Seq(T) /\ Len(t) = Len(a) + Len(b)
        /\ \A j \in 1 .. Len(a) + Len(b) :
             t[j] = IF j <= Len(a) THEN a[j] ELSE b[j - Len(a)]
    BY <1>1, <1>2, ConcatProperties DEF t
  <2>2. Len(a) + Len(b) = Len(s) - 1
    BY <1>1, <1>2
  <2> QED
    BY <1>1, <2>1, <2>2
<1>5. ASSUME NEW j \in 1 .. Len(s) - 1
      PROVE  t[j] = IF j < i THEN s[j] ELSE s[j + 1]
  <2>1. CASE j < i
    BY <1>1, <1>4, <2>1
  <2>2. CASE j >= i
    <3>1. j - (i - 1) \in 1 .. Len(s) - i /\ i + (j - (i - 1)) = j + 1
      BY <2>2
    <3>2. b[j - (i - 1)] = s[j + 1]
      BY <1>2, <3>1
    <3>3. t[j] = b[j - (i - 1)]
      BY <1>4, <2>2
    <3> QED
      BY <2>2, <3>2, <3>3
  <2> QED
    BY <2>1, <2>2
<1> QED
  BY <1>3, <1>4, <1>5 DEF Removed

\* A new element moves one other over the place, at most.
LEMMA InsertAtParts ==
  ASSUME NEW T, NEW s \in Seq(T), NEW e \in T, NEW i \in 1 .. Len(s) + 1,
         NEW n \in Nat, Distinct(s), \A j \in 1 .. Len(s) : s[j] # e
  PROVE  /\ Distinct(InsertAt(s, i, e))
         /\ Upto(InsertAt(s, i, e), n) \subseteq Upto(s, n) \cup {e}
         /\ Past(InsertAt(s, i, e), n) \subseteq Past(s, n) \cup {s[n], e}
<1> DEFINE t == InsertAt(s, i, e)
<1>0. /\ t \in Seq(T) /\ Len(t) = Len(s) + 1
      /\ \A j \in 1 .. Len(s) + 1 : t[j] = Inserted(s, i, e, j)
  BY InsertAtPlaces
<1> HIDE DEF t
<1>1. /\ t \in Seq(T) /\ Len(t) = Len(s) + 1
      /\ \A j \in 1 .. Len(s) + 1 :
           t[j] = IF j < i THEN s[j] ELSE IF j = i THEN e ELSE s[j - 1]
  BY <1>0 DEF Inserted
<1>2. Distinct(t)
  <2> SUFFICES ASSUME NEW j \in 1 .. Len(t), NEW k \in 1 .. Len(t), t[j] = t[k], j < k
               PROVE  FALSE
    BY <1>1 DEF Distinct
  <2>1. CASE k < i
    BY <1>1, <2>1 DEF Distinct
  <2>2. CASE k = i \/ j = i
    BY <1>1, <2>2
  <2>3. CASE k > i /\ j < i
    <3>1. t[j] = s[j] /\ t[k] = s[k - 1] /\ {j, k - 1} \subseteq 1 .. Len(s)
      BY <1>1, <2>3
    <3>2. j = k - 1
      BY <3>1 DEF Distinct
    <3> QED
      BY <2>3, <3>2
  <2>4. CASE j > i
    BY <1>1, <2>4 DEF Distinct
  <2> QED
    BY <1>1, <2>1, <2>2, <2>3, <2>4
<1>3. Upto(t, n) \subseteq Upto(s, n) \cup {e}
  <2> SUFFICES ASSUME NEW j \in 1 .. Len(t), j <= n, t[j] # e
               PROVE  t[j] \in Upto(s, n)
    BY DEF Upto
  <2>1. CASE j < i
    BY <1>1, <2>1 DEF Upto
  <2>2. CASE j > i
    <3>1. t[j] = s[j - 1] /\ j - 1 \in 1 .. Len(s) /\ j - 1 <= n
      BY <1>1, <2>2
    <3> QED
      BY <3>1 DEF Upto
  <2> QED
    BY <1>1, <2>1, <2>2
<1>4. Past(t, n) \subseteq Past(s, n) \cup {s[n], e}
  <2> SUFFICES ASSUME NEW j \in 1 .. Len(t), j > n, t[j] # e, t[j] # s[n]
               PROVE  t[j] \in Past(s, n)
    BY DEF Past
  <2>1. CASE j < i
    BY <1>1, <2>1 DEF Past
  <2>2. CASE j > i
    <3>1. t[j] = s[j - 1] /\ j - 1 \in 1 .. Len(s)
      BY <1>1, <2>2
    <3>2. j - 1 # n
      BY <3>1
    <3> QED
      BY <3>1, <3>2 DEF Past
  <2> QED
    BY <1>1, <2>1, <2>2
<1> QED
  BY <1>2, <1>3, <1>4 DEF t

\* So does the removal of one, in the other direction.
LEMMA RemoveAtParts ==
  ASSUME NEW T, NEW s \in Seq(T), NEW i \in 1 .. Len(s), NEW n \in Nat, Distinct(s)
  PROVE  /\ Distinct(RemoveAt(s, i))
         /\ Upto(RemoveAt(s, i), n) \subseteq Upto(s, n) \cup {s[n + 1]}
         /\ Past(RemoveAt(s, i), n) \subseteq Past(s, n)
<1> DEFINE t == RemoveAt(s, i)
<1>0. /\ t \in Seq(T) /\ Len(t) = Len(s) - 1
      /\ \A j \in 1 .. Len(s) - 1 : t[j] = Removed(s, i, j)
  BY RemoveAtPlaces
<1> HIDE DEF t
<1>1. /\ t \in Seq(T) /\ Len(t) = Len(s) - 1
      /\ \A j \in 1 .. Len(s) - 1 : t[j] = IF j < i THEN s[j] ELSE s[j + 1]
  BY <1>0 DEF Removed
<1>2. Distinct(t)
  BY <1>1 DEF Distinct
<1>3. Upto(t, n) \subseteq Upto(s, n) \cup {s[n + 1]}
  <2> SUFFICES ASSUME NEW j \in 1 .. Len(t), j <= n, t[j] # s[n + 1]
               PROVE  t[j] \in Upto(s, n)
    BY DEF Upto
  <2>1. CASE j < i
    BY <1>1, <2>1 DEF Upto
  <2>2. CASE j >= i
    <3>1. t[j] = s[j + 1] /\ j + 1 \in 1 .. Len(s)
      BY <1>1, <2>2
    <3>2. j # n
      BY <3>1
    <3> QED
      BY <3>1, <3>2 DEF Upto
  <2> QED
    BY <1>1, <2>1, <2>2
<1>4. Past(t, n) \subseteq Past(s, n)
  <2> SUFFICES ASSUME NEW j \in 1 .. Len(t), j > n
               PROVE  t[j] \in Past(s, n)
    BY DEF Past
  <2>1. CASE j < i
    BY <1>1, <2>1 DEF Past
  <2>2. CASE j >= i
    <3>1. t[j] = s[j + 1] /\ j + 1 \in 1 .. Len(s) /\ j + 1 > n
      BY <1>1, <2>2
    <3> QED
      BY <3>1 DEF Past
  <2> QED
    BY <1>1, <2>1, <2>2
<1> QED
  BY <1>2, <1>3, <1>4 DEF t

\* The elements of a sequence without repetitions are as many as its places.
LEMMA DistinctCount ==
  ASSUME NEW T, NEW p \in Seq(T), Distinct(p)
  PROVE  IsFiniteSet(ToSet(p)) /\ Cardinality(ToSet(p)) = Len(p)
<1>1. Len(p) \in Nat /\ DOMAIN p = 1 .. Len(p) /\ p \in [1 .. Len(p) -> T]
  BY LenProperties
<1>2. p \in [1 .. Len(p) -> ToSet(p)]
  BY <1>1 DEF ToSet
<1>3. p \in Injection(1 .. Len(p), ToSet(p))
  BY <1>1, <1>2 DEF Distinct, Injection, IsInjective
<1>4. p \in Surjection(1 .. Len(p), ToSet(p))
  BY <1>1, <1>2 DEF Surjection, ToSet
<1>5. ExistsBijection(1 .. Len(p), ToSet(p))
  BY <1>3, <1>4 DEF ExistsBijection, Bijection
<1> QED
  BY <1>1, <1>5, FS_CountingElements, FS_NatBijection

-----------------------------------------------------------------------------
(* A client reads page after page (TaskList) *)

\* What a page holds: LIMIT is the page size in an int32.
Limit == Int32(walk.size)

\* The places that were read.
Reached == IF walk.pc \in {"count", "done"} THEN walk.page * Limit ELSE (walk.page - 1) * Limit

\* What lies in these places and was not shown, and what was shown and lies beyond.
Missed == (walk.old \cap Upto(table, Reached)) \ ToSet(walk.seen)
ToComeAgain == ToSet(walk.seen) \cap Past(table, Reached)

WalkTyped ==
  walk \in [pc : {"new", "page", "count", "done", "failed"}, page : Nat \ {0},
            size : Nat \ {0}, seen : Seq(1 .. born), old : SUBSET (1 .. born),
            inserts : Nat, deletes : Nat]

(* An insertion moves one row out of the places that were read, to be read *)
(* again; a deletion moves one in that will not be read.  Pages read less  *)
(* than 2^32 rows before an OFFSET is refused.                             *)
WalkCounts ==
  /\ Reached \in 0 .. 2 * IntHalf - 1
  /\ Cardinality(Missed) <= walk.deletes
  /\ Len(walk.seen) - Cardinality(ToSet(walk.seen)) + Cardinality(ToComeAgain) <= walk.inserts

ListInv ==
  /\ born \in Nat /\ table \in Seq(1 .. born) /\ Distinct(table)
  /\ WalkTyped
  /\ walk.pc = "new" => walk.page = 1 /\ walk.seen = <<>>
  /\ walk.pc = "done" => Len(table) <= walk.page * walk.size
  /\ RepeatedOnlyByCreation
  /\ walk.pc # "failed" => WalkCounts

\* The elements of a sequence over a set are in the set.
LEMMA ElementsIn ==
  ASSUME NEW T, NEW s \in Seq(T)
  PROVE  ToSet(s) \subseteq T /\ Upto(s, 0) = {} /\ DOMAIN s = 1 .. Len(s)
  BY LenProperties DEF ToSet, Upto

\* One element more, one more to count.
LEMMA OneMore ==
  ASSUME NEW A, NEW B, NEW x, IsFiniteSet(B), A \subseteq B \cup {x}
  PROVE  IsFiniteSet(A) /\ Cardinality(A) \in Nat /\ Cardinality(A) <= Cardinality(B) + 1
<1>1. /\ IsFiniteSet(B \cup {x}) /\ Cardinality(B) \in Nat
      /\ Cardinality(B \cup {x}) <= Cardinality(B) + 1
  BY FS_AddElement, FS_CardinalityType
<1>2. IsFiniteSet(A) /\ Cardinality(A) <= Cardinality(B \cup {x})
  BY <1>1, FS_Subset
<1> QED
  BY <1>1, <1>2, FS_CardinalityType

\* No element more, none more to count.
LEMMA NoneMore ==
  ASSUME NEW A, NEW B, IsFiniteSet(B), A \subseteq B
  PROVE  IsFiniteSet(A) /\ Cardinality(A) \in Nat /\ Cardinality(A) <= Cardinality(B)
  BY FS_Subset, FS_CardinalityType

\* What is counted is finite.
LEMMA WalkFinite ==
  ASSUME ListInv
  PROVE  /\ IsFiniteSet(ToSet(walk.seen)) /\ Cardinality(ToSet(walk.seen)) \in Nat
         /\ IsFiniteSet(Missed) /\ Cardinality(Missed) \in Nat
         /\ IsFiniteSet(ToComeAgain) /\ Cardinality(ToComeAgain) \in Nat
         /\ Len(walk.seen) \in Nat /\ Limit \in Int
<1>1. IsFiniteSet(1 .. born)
  BY FS_Interval DEF ListInv
<1>2. ToSet(walk.seen) \subseteq 1 .. born /\ walk.old \subseteq 1 .. born
  BY ElementsIn DEF ListInv, WalkTyped
<1>3. Missed \subseteq 1 .. born /\ ToComeAgain \subseteq 1 .. born
  BY <1>2 DEF Missed, ToComeAgain
<1>4. Len(walk.seen) \in Nat /\ Limit \in Int
  <2>1. walk.size \in Int /\ walk.seen \in Seq(1 .. born)
    BY DEF ListInv, WalkTyped
  <2>2. Limit \in -IntHalf .. IntHalf - 1
    BY <2>1, Int32Cuts DEF Limit
  <2>3. Len(walk.seen) \in Nat
    BY <2>1, LenProperties
  <2> QED
    BY <2>2, <2>3, WidthAssumption
<1> QED
  BY <1>1, <1>2, <1>3, <1>4, NoneMore

\* The client begins before it has seen anything.
LEMMA ListInitInv == ASSUME ListInit PROVE ListInv
<1>1. born \in Nat /\ table \in Seq(1 .. born) /\ Len(table) = born /\ Distinct(table)
  <2>1. born \in Nat /\ table = [i \in 1 .. born |-> born + 1 - i]
    BY ListAssumption DEF ListInit
  <2>2. table \in [1 .. born -> 1 .. born]
    BY <2>1
  <2>3. table \in Seq(1 .. born)
    BY <2>1, <2>2, SeqDef
  <2>4. Len(table) = born
    BY <2>1, <2>2, <2>3, LenProperties
  <2> QED
    BY <2>1, <2>3, <2>4 DEF Distinct
<1>2. /\ walk.pc = "new" /\ walk.page = 1 /\ walk.seen = <<>> /\ WalkTyped
      /\ walk.inserts = 0 /\ walk.deletes = 0
  BY <1>1, ListAssumption, EmptySeq DEF ListInit, WalkTyped
<1>3. ToSet(walk.seen) = {} /\ Len(walk.seen) = 0
  BY <1>2 DEF ToSet
<1>4. Limit \in Int /\ Reached = 0
  <2>1. walk.size \in Int
    BY <1>2 DEF WalkTyped
  <2>2. Limit \in -IntHalf .. IntHalf - 1
    BY <2>1, Int32Cuts DEF Limit
  <2>3. Limit \in Int /\ \A x \in Int : (1 - 1) * x = 0
    BY <2>2, WidthAssumption
  <2> QED
    BY <1>2, <2>3 DEF Reached
<1>5. Missed = {} /\ ToComeAgain = {}
  BY <1>1, <1>3, <1>4, ElementsIn DEF Missed, ToComeAgain
<1>6. WalkCounts /\ RepeatedOnlyByCreation
  <2>1. Cardinality(Missed) = 0 /\ Cardinality(ToComeAgain) = 0
    BY <1>5, FS_EmptySet
  <2>2. Cardinality(ToSet(walk.seen)) = 0
    BY <1>3, FS_EmptySet
  <2>3. Reached \in 0 .. 2 * IntHalf - 1
    BY <1>4, WidthAssumption
  <2> QED
    BY <1>2, <1>3, <2>1, <2>2, <2>3 DEF WalkCounts, RepeatedOnlyByCreation
<1> QED
  BY <1>1, <1>2, <1>6 DEF ListInv

\* If the table changes under the client, what is counted may grow by as much as
\* the changes.
LEMMA TableChanges ==
  ASSUME ListInv, walk.pc \in {"page", "count"},
         born' \in Nat, born <= born', table' \in Seq(1 .. born'), Distinct(table'),
         NEW i \in Nat, NEW d \in Nat,
         walk' = [pc |-> walk.pc, page |-> walk.page, size |-> walk.size,
                  seen |-> walk.seen, old |-> walk.old,
                  inserts |-> walk.inserts + i, deletes |-> walk.deletes + d],
         Cardinality(Missed') \in Nat, Cardinality(Missed') <= Cardinality(Missed) + d,
         Cardinality(ToComeAgain') \in Nat,
         Cardinality(ToComeAgain') <= Cardinality(ToComeAgain) + i
  PROVE  ListInv'
<1>1. WalkTyped /\ born \in Nat /\ WalkCounts
  BY DEF ListInv
<1>2. /\ walk'.seen = walk.seen /\ walk'.old = walk.old /\ walk'.pc = walk.pc
      /\ walk'.page = walk.page /\ walk'.size = walk.size
      /\ walk'.inserts = walk.inserts + i /\ walk'.deletes = walk.deletes + d
      /\ walk.inserts \in Nat /\ walk.deletes \in Nat
  BY <1>1 DEF WalkTyped
<1>3. WalkTyped'
  <2>1. walk.seen \in Seq(1 .. born') /\ walk.old \in SUBSET (1 .. born')
    <3>1. 1 .. born \subseteq 1 .. born'
      BY <1>1
    <3> QED
      BY <1>1, <3>1, SeqMonotonic DEF WalkTyped
  <2> QED
    BY <1>1, <2>1 DEF WalkTyped
<1>4. Reached' = Reached /\ Reached \in 0 .. 2 * IntHalf - 1
  BY <1>1, <1>2 DEF Reached, Limit, WalkCounts
<1>5. /\ Len(walk.seen) \in Nat /\ Cardinality(ToSet(walk.seen)) \in Nat
      /\ Cardinality(Missed) \in Nat /\ Cardinality(ToComeAgain) \in Nat
  BY WalkFinite
<1>6. WalkCounts' /\ RepeatedOnlyByCreation'
  <2>1. Cardinality(Missed') <= walk'.deletes
    <3>1. Cardinality(Missed) <= walk.deletes
      BY <1>1 DEF WalkCounts
    <3>2. \A m, n, k \in Int : m <= n /\ k <= m + d => k <= n + d
      OBVIOUS
    <3>3. Cardinality(Missed') <= walk.deletes + d
      BY <1>2, <1>5, <3>1, <3>2
    <3> QED
      BY <1>2, <3>3
  <2>2. Len(walk.seen) - Cardinality(ToSet(walk.seen)) + Cardinality(ToComeAgain')
          <= walk'.inserts
    <3>1. Len(walk.seen) - Cardinality(ToSet(walk.seen)) + Cardinality(ToComeAgain)
            <= walk.inserts
      BY <1>1 DEF WalkCounts
    <3>2. \A l, n, m, p, q \in Int :
            l - n + m <= q /\ p <= m + i => l - n + p <= q + i
      OBVIOUS
    <3>3. /\ Len(walk.seen) \in Int /\ Cardinality(ToSet(walk.seen)) \in Int
          /\ Cardinality(ToComeAgain) \in Int /\ Cardinality(ToComeAgain') \in Int
          /\ walk.inserts \in Int
      BY <1>2, <1>5
    <3>4. Len(walk.seen) - Cardinality(ToSet(walk.seen)) + Cardinality(ToComeAgain')
            <= walk.inserts + i
      BY <3>1, <3>2, <3>3
    <3> QED
      BY <1>2, <3>4
  <2>3. WalkCounts'
    BY <1>2, <1>4, <2>1, <2>2 DEF WalkCounts
  <2>4. Len(walk.seen) - Cardinality(ToSet(walk.seen)) <= walk'.inserts
    <3>1. \A l, n, p, q \in Int : l - n + p <= q /\ p >= 0 => l - n <= q
      OBVIOUS
    <3>2. /\ Len(walk.seen) \in Int /\ Cardinality(ToSet(walk.seen)) \in Int
          /\ walk'.inserts \in Int /\ Cardinality(ToComeAgain') \in Int
          /\ Cardinality(ToComeAgain') >= 0
      BY <1>2, <1>5
    <3> QED
      BY <2>2, <3>1, <3>2
  <2> QED
    BY <1>2, <2>3, <2>4 DEF RepeatedOnlyByCreation
<1> QED
  BY <1>2, <1>3, <1>6 DEF ListInv

\* An INSERT while the client reads (query.sql.go, CreateTask).
LEMMA CreateKeeps ==
  ASSUME ListInv, CreateTask, walk.pc \notin {"done", "failed"} PROVE ListInv'
<1> DEFINE e == born + 1
           T == 1 .. e
<1>1. PICK i \in 1 .. Len(table) + 1 : table' = InsertAt(table, i, e)
  BY DEF CreateTask
<1>2. /\ walk.pc \in {"page", "count"} /\ born' = e /\ born \in Nat /\ e \in Nat
      /\ born <= e /\ walk' = [walk EXCEPT !.inserts = @ + 1]
  BY DEF CreateTask, ListInv, WalkTyped
<1>3. table \in Seq(T) /\ e \in T
  <2>1. 1 .. born \subseteq 1 .. e
    BY <1>2
  <2> QED
    BY <1>2, <2>1, SeqMonotonic DEF ListInv
<1>4. \A j \in 1 .. Len(table) : table[j] # e
  <2>1. \A j \in 1 .. Len(table) : table[j] \in 1 .. born
    BY ElementOfSeq DEF ListInv
  <2> QED
    BY <1>2, <2>1
<1>5. /\ walk.old \subseteq 1 .. born /\ ToSet(walk.seen) \subseteq 1 .. born
      /\ e \notin 1 .. born
  BY <1>2, ElementsIn DEF ListInv, WalkTyped
<1> HIDE DEF e, T
<1>6. Reached \in Nat /\ Reached' = Reached
  <2>1. WalkCounts /\ WalkTyped
    BY <1>2 DEF ListInv
  <2>2. walk'.pc = walk.pc /\ walk'.page = walk.page /\ walk'.size = walk.size
    BY <1>2, <2>1 DEF WalkTyped
  <2> QED
    BY <2>1, <2>2, WidthAssumption DEF WalkCounts, Reached, Limit
<1>7. walk'.seen = walk.seen /\ walk'.old = walk.old
  BY <1>2 DEF ListInv, WalkTyped
<1>8. table' \in Seq(1 .. e)
  BY <1>1, <1>3, InsertAtPlaces DEF T
<1>9. /\ Distinct(table')
      /\ Upto(table', Reached) \subseteq Upto(table, Reached) \cup {e}
      /\ Past(table', Reached) \subseteq Past(table, Reached) \cup {table[Reached], e}
  <2>1. Distinct(table)
    BY DEF ListInv
  <2>2. i \in 1 .. Len(table) + 1
    OBVIOUS
  <2>3. /\ Distinct(InsertAt(table, i, e))
        /\ Upto(InsertAt(table, i, e), Reached) \subseteq Upto(table, Reached) \cup {e}
        /\ Past(InsertAt(table, i, e), Reached)
             \subseteq Past(table, Reached) \cup {table[Reached], e}
    BY <1>3, <1>4, <1>6, <2>1, <2>2, InsertAtParts
  <2> QED
    BY <1>1, <2>3
<1>10. Cardinality(Missed') \in Nat /\ Cardinality(Missed') <= Cardinality(Missed)
  <2>1. Missed' \subseteq Missed
    BY <1>5, <1>6, <1>7, <1>9 DEF Missed
  <2> QED
    BY <2>1, WalkFinite, NoneMore
<1>11. /\ Cardinality(ToComeAgain') \in Nat
       /\ Cardinality(ToComeAgain') <= Cardinality(ToComeAgain) + 1
  <2>1. ToComeAgain' \subseteq ToComeAgain \cup {table[Reached]}
    BY <1>5, <1>6, <1>7, <1>9 DEF ToComeAgain
  <2> QED
    BY <2>1, WalkFinite, OneMore
<1>12. walk' = [pc |-> walk.pc, page |-> walk.page, size |-> walk.size,
            seen |-> walk.seen, old |-> walk.old,
            inserts |-> walk.inserts + 1, deletes |-> walk.deletes + 0]
  <2>1. WalkTyped /\ walk.inserts + 0 = walk.inserts /\ walk.deletes + 0 = walk.deletes
    BY DEF ListInv, WalkTyped
  <2> QED
    BY <1>2, <2>1 DEF WalkTyped
<1>13. Cardinality(Missed') <= Cardinality(Missed) + 0
  BY <1>10, WalkFinite
<1> QED
  BY <1>2, <1>8, <1>9, <1>10, <1>11, <1>12, <1>13, TableChanges

\* A DELETE while the client reads (query.sql.go, DeleteTask).
LEMMA DeleteKeeps ==
  ASSUME ListInv, DeleteTask, walk.pc \notin {"done", "failed"} PROVE ListInv'
<1>1. PICK i \in 1 .. Len(table) : table' = RemoveAt(table, i)
  BY DEF DeleteTask
<1>2. /\ walk.pc \in {"page", "count"} /\ born' = born /\ born \in Nat
      /\ walk' = [walk EXCEPT !.deletes = @ + 1]
      /\ table \in Seq(1 .. born) /\ Distinct(table)
  BY DEF DeleteTask, ListInv, WalkTyped
<1>3. Reached \in Nat /\ Reached' = Reached
  <2>1. WalkCounts /\ WalkTyped
    BY <1>2 DEF ListInv
  <2>2. walk'.pc = walk.pc /\ walk'.page = walk.page /\ walk'.size = walk.size
    BY <1>2, <2>1 DEF WalkTyped
  <2> QED
    BY <2>1, <2>2, WidthAssumption DEF WalkCounts, Reached, Limit
<1>4. walk'.seen = walk.seen /\ walk'.old = walk.old
  BY <1>2 DEF ListInv, WalkTyped
<1>5. table' \in Seq(1 .. born)
  BY <1>1, <1>2, RemoveAtPlaces
<1>6. /\ Distinct(table')
      /\ Upto(table', Reached) \subseteq Upto(table, Reached) \cup {table[Reached + 1]}
      /\ Past(table', Reached) \subseteq Past(table, Reached)
  BY <1>1, <1>2, <1>3, RemoveAtParts
<1>7. Cardinality(Missed') \in Nat /\ Cardinality(Missed') <= Cardinality(Missed) + 1
  <2>1. Missed' \subseteq Missed \cup {table[Reached + 1]}
    BY <1>3, <1>4, <1>6 DEF Missed
  <2> QED
    BY <2>1, WalkFinite, OneMore
<1>8. /\ Cardinality(ToComeAgain') \in Nat
      /\ Cardinality(ToComeAgain') <= Cardinality(ToComeAgain)
  <2>1. ToComeAgain' \subseteq ToComeAgain
    BY <1>3, <1>4, <1>6 DEF ToComeAgain
  <2> QED
    BY <2>1, WalkFinite, NoneMore
<1>9. walk' = [pc |-> walk.pc, page |-> walk.page, size |-> walk.size,
            seen |-> walk.seen, old |-> walk.old,
            inserts |-> walk.inserts + 0, deletes |-> walk.deletes + 1]
  <2>1. WalkTyped /\ walk.inserts + 0 = walk.inserts /\ walk.deletes + 0 = walk.deletes
    BY DEF ListInv, WalkTyped
  <2> QED
    BY <1>2, <2>1 DEF WalkTyped
<1>10. Cardinality(ToComeAgain') <= Cardinality(ToComeAgain) + 0
  BY <1>8, WalkFinite
<1>11. born' \in Nat /\ born <= born' /\ table' \in Seq(1 .. born')
  BY <1>2, <1>5
<1> QED
  BY <1>2, <1>6, <1>7, <1>8, <1>9, <1>10, <1>11, TableChanges

\* A request fails, and the client gives up.
LEMMA FailureKeeps ==
  ASSUME ListInv, UNCHANGED <<table, born>>, walk' = [walk EXCEPT !.pc = "failed"]
  PROVE  ListInv'
<1>1. WalkTyped /\ RepeatedOnlyByCreation
  BY DEF ListInv
<1>2. WalkTyped' /\ walk'.pc = "failed"
  BY <1>1 DEF WalkTyped
<1>3. walk'.seen = walk.seen /\ walk'.inserts = walk.inserts
  BY <1>1 DEF WalkTyped
<1> QED
  BY <1>1, <1>2, <1>3 DEF ListInv, RepeatedOnlyByCreation

\* The first request sets the page size (internal/server/task.go, HandleGetAllTasks).
LEMMA FirstPageKeeps == ASSUME ListInv, FirstPage PROVE ListInv'
<1>1. PICK asked \in PageSizes : walk' = [walk EXCEPT !.pc = "page", !.size = PageSize(asked)]
  BY DEF FirstPage
<1>2. WalkTyped /\ walk.page = 1 /\ walk.seen = <<>> /\ WalkCounts /\ UNCHANGED <<table, born>>
  BY DEF FirstPage, ListInv
<1>3. PageSize(asked) \in Nat \ {0}
  BY ListAssumption DEF PageSize
<1>4. WalkTyped'
  BY <1>1, <1>2, <1>3 DEF WalkTyped
<1>5. /\ walk'.pc = "page" /\ walk'.page = 1 /\ walk'.seen = <<>> /\ walk'.old = walk.old
      /\ walk'.size = PageSize(asked)
      /\ walk'.inserts = walk.inserts /\ walk'.deletes = walk.deletes
      /\ walk.inserts \in Nat /\ walk.deletes \in Nat
  BY <1>1, <1>2 DEF WalkTyped
<1>6. Reached' = 0
  <2>1. Int32(PageSize(asked)) \in -IntHalf .. IntHalf - 1
    BY <1>3, Int32Cuts
  <2>2. Limit' \in Int
    BY <1>5, <2>1, WidthAssumption DEF Limit
  <2>3. \A x \in Int : (1 - 1) * x = 0
    OBVIOUS
  <2> QED
    BY <1>5, <2>2, <2>3 DEF Reached
<1>7. ToSet(walk'.seen) = {} /\ Len(walk'.seen) = 0
  BY <1>5 DEF ToSet
<1>8. Missed' = {} /\ ToComeAgain' = {}
  <2>1. Upto(table', 0) = {}
    BY <1>2, ElementsIn DEF ListInv
  <2> QED
    BY <1>6, <1>7, <2>1 DEF Missed, ToComeAgain
<1>9. /\ Cardinality(Missed') = 0 /\ Cardinality(ToComeAgain') = 0
      /\ Cardinality(ToSet(walk'.seen)) = 0
  BY <1>7, <1>8, FS_EmptySet
<1>10. WalkCounts' /\ RepeatedOnlyByCreation'
  BY <1>5, <1>6, <1>7, <1>9, WidthAssumption DEF WalkCounts, RepeatedOnlyByCreation
<1> QED
  BY <1>2, <1>4, <1>5, <1>10 DEF ListInv

\* The count, and the next request: the places that were read stay the same.
LEMMA ReadCountKeeps == ASSUME ListInv, ReadCount PROVE ListInv'
<1>1. WalkTyped /\ WalkCounts /\ walk.pc = "count" /\ UNCHANGED <<table, born>>
  BY DEF ListInv, ReadCount
<1>2. CASE walk' = [walk EXCEPT !.pc = "failed"]
  BY <1>1, <1>2, FailureKeeps
<1>3. ASSUME NEW pc \in {"done", "page"}, NEW page,
             page = IF pc = "done" THEN walk.page ELSE walk.page + 1,
             pc = "done" => Len(table) <= walk.page * walk.size,
             walk' = [pc |-> pc, page |-> page, size |-> walk.size, seen |-> walk.seen,
                      old |-> walk.old, inserts |-> walk.inserts, deletes |-> walk.deletes]
      PROVE  ListInv'
  <2>1. WalkTyped'
    BY <1>1, <1>3 DEF WalkTyped
  <2>2. Reached' = Reached
    <3>1. Limit' = Limit
      BY <1>3 DEF Limit
    <3>2. walk.page \in Nat /\ walk.page + 1 - 1 = walk.page
      BY <1>1 DEF WalkTyped
    <3> QED
      BY <1>1, <1>3, <3>1, <3>2 DEF Reached
  <2>3. /\ walk'.seen = walk.seen /\ walk'.old = walk.old
        /\ walk'.inserts = walk.inserts /\ walk'.deletes = walk.deletes
    BY <1>3
  <2>4. Missed' = Missed /\ ToComeAgain' = ToComeAgain
    BY <1>1, <2>2, <2>3 DEF Missed, ToComeAgain
  <2>5. WalkCounts' /\ RepeatedOnlyByCreation'
    BY <1>1, <2>2, <2>3, <2>4 DEF WalkCounts, RepeatedOnlyByCreation, ListInv
  <2>6. walk'.pc = "done" => Len(table') <= walk'.page * walk'.size
    BY <1>1, <1>3
  <2> QED
    BY <1>1, <1>3, <2>1, <2>5, <2>6 DEF ListInv
<1>4. CASE walk.page * walk.size >= Len(table) /\ walk' = [walk EXCEPT !.pc = "done"]
  <2>1. walk' = [pc |-> "done", page |-> walk.page, size |-> walk.size, seen |-> walk.seen,
                 old |-> walk.old, inserts |-> walk.inserts, deletes |-> walk.deletes]
    BY <1>1, <1>4 DEF WalkTyped
  <2>2. Len(table) <= walk.page * walk.size
    <3>1. walk.page * walk.size \in Int /\ Len(table) \in Int
      BY <1>1, LenProperties DEF WalkTyped, ListInv
    <3> QED
      BY <1>4, <3>1
  <2> QED
    BY <1>3, <2>1, <2>2
<1>5. CASE walk' = [walk EXCEPT !.pc = "page", !.page = @ + 1]
  <2>1. walk' = [pc |-> "page", page |-> walk.page + 1, size |-> walk.size,
                 seen |-> walk.seen, old |-> walk.old,
                 inserts |-> walk.inserts, deletes |-> walk.deletes]
    BY <1>1, <1>5 DEF WalkTyped
  <2> QED
    BY <1>3, <2>1
<1> QED
  BY <1>2, <1>4, <1>5 DEF ReadCount

\* What is read next is added at the end.
LEMMA ConcatElements ==
  ASSUME NEW T, NEW s \in Seq(T), NEW t \in Seq(T)
  PROVE  /\ s \o t \in Seq(T) /\ Len(s \o t) = Len(s) + Len(t)
         /\ ToSet(s \o t) = ToSet(s) \cup ToSet(t)
<1> DEFINE u == s \o t
<1>1. /\ u \in Seq(T) /\ Len(u) = Len(s) + Len(t)
      /\ \A i \in 1 .. Len(s) + Len(t) :
           u[i] = IF i <= Len(s) THEN s[i] ELSE t[i - Len(s)]
  BY ConcatProperties
<1>2. /\ DOMAIN u = 1 .. Len(u) /\ DOMAIN s = 1 .. Len(s) /\ DOMAIN t = 1 .. Len(t)
      /\ Len(s) \in Nat /\ Len(t) \in Nat
  BY <1>1, LenProperties
<1> HIDE DEF u
<1>3. ToSet(u) \subseteq ToSet(s) \cup ToSet(t)
  <2> SUFFICES ASSUME NEW i \in 1 .. Len(u)
               PROVE  u[i] \in ToSet(s) \cup ToSet(t)
    BY <1>2 DEF ToSet
  <2>1. CASE i <= Len(s)
    BY <1>1, <1>2, <2>1 DEF ToSet
  <2>2. CASE i > Len(s)
    <3>1. i - Len(s) \in 1 .. Len(t) /\ u[i] = t[i - Len(s)]
      BY <1>1, <1>2, <2>2
    <3> QED
      BY <1>2, <3>1 DEF ToSet
  <2> QED
    BY <1>1, <1>2, <2>1, <2>2
<1>4. ToSet(s) \subseteq ToSet(u)
  <2> SUFFICES ASSUME NEW i \in 1 .. Len(s) PROVE s[i] \in ToSet(u)
    BY <1>2 DEF ToSet
  <2>1. i \in 1 .. Len(u) /\ u[i] = s[i]
    BY <1>1, <1>2
  <2> QED
    BY <1>2, <2>1 DEF ToSet
<1>5. ToSet(t) \subseteq ToSet(u)
  <2> SUFFICES ASSUME NEW i \in 1 .. Len(t) PROVE t[i] \in ToSet(u)
    BY <1>2 DEF ToSet
  <2>1. Len(s) + i \in 1 .. Len(u) /\ ~(Len(s) + i <= Len(s)) /\ (Len(s) + i) - Len(s) = i
    BY <1>1, <1>2
  <2>2. u[Len(s) + i] = t[i]
    BY <1>1, <1>2, <2>1
  <2> QED
    BY <1>2, <2>1, <2>2 DEF ToSet
<1> QED
  BY <1>1, <1>3, <1>4, <1>5 DEF u

\* The rows of a page are those up to n + l that are not up to n.
LEMMA RowsParts ==
  ASSUME table \in Seq(1 .. born), Distinct(table), NEW n \in Nat, NEW l \in Nat
  PROVE  /\ Rows(l, n) \in Seq(1 .. born) /\ IsFiniteSet(ToSet(Rows(l, n)))
         /\ Cardinality(ToSet(Rows(l, n))) = Len(Rows(l, n))
         /\ Upto(table, n + l) = Upto(table, n) \cup ToSet(Rows(l, n))
         /\ Past(table, n) = Past(table, n + l) \cup ToSet(Rows(l, n))
         /\ ToSet(Rows(l, n)) \cap Past(table, n + l) = {}
<1> DEFINE p == Rows(l, n)
           m == IF n + l < Len(table) THEN n + l ELSE Len(table)
<1>1. /\ m \in Int /\ m <= Len(table) /\ m <= n + l
      /\ \A i \in 1 .. Len(table) : i <= m <=> i <= n + l
      /\ Len(table) \in Nat
  OBVIOUS
<1>2. p = SubSeq(table, n + 1, m)
  BY DEF Rows
<1> HIDE DEF m, p
<1>3. /\ p \in Seq(1 .. born)
      /\ Len(p) = IF n + 1 <= m THEN m - n ELSE 0
      /\ \A i \in 1 .. m - n : p[i] = table[n + i]
  <2>1. \A i \in n + 1 .. m : table[i] \in 1 .. born
    <3>1. \A i \in 1 .. Len(table) : table[i] \in 1 .. born
      BY ElementOfSeq
    <3> QED
      BY <1>1, <3>1
  <2> QED
    BY <1>1, <1>2, <2>1, SubSeqProperties
<1>4. Distinct(p)
  <2> SUFFICES ASSUME NEW i \in 1 .. Len(p), NEW k \in 1 .. Len(p), p[i] = p[k]
               PROVE  i = k
    BY DEF Distinct
  <2>1. /\ p[i] = table[n + i] /\ p[k] = table[n + k]
        /\ n + i \in 1 .. Len(table) /\ n + k \in 1 .. Len(table)
    <3>1. i \in 1 .. m - n /\ k \in 1 .. m - n
      BY <1>1, <1>3
    <3> QED
      BY <1>1, <1>3, <3>1
  <2>2. n + i = n + k
    BY <2>1 DEF Distinct
  <2> QED
    BY <2>2
<1>5. \A x : x \in ToSet(p) <=> \E i \in n + 1 .. m : x = table[i]
  <2>1. ASSUME NEW x \in ToSet(p) PROVE \E i \in n + 1 .. m : x = table[i]
    <3>1. PICK i \in 1 .. Len(p) : x = p[i]
      BY <1>3, <2>1, LenProperties DEF ToSet
    <3>2. x = table[n + i] /\ n + i \in n + 1 .. m
      BY <1>1, <1>3, <3>1
    <3> QED
      BY <3>2
  <2>2. ASSUME NEW i \in n + 1 .. m PROVE table[i] \in ToSet(p)
    <3>1. i - n \in 1 .. Len(p) /\ p[i - n] = table[i]
      <4>1. i - n \in 1 .. m - n /\ n + (i - n) = i
        BY <1>1, <2>2
      <4> QED
        BY <1>1, <1>3, <4>1
    <3> QED
      BY <1>3, <3>1, LenProperties DEF ToSet
  <2> QED
    BY <2>1, <2>2
<1>6. Upto(table, n + l) = Upto(table, n) \cup ToSet(p)
  BY <1>1, <1>5 DEF Upto
<1>7. Past(table, n) = Past(table, n + l) \cup ToSet(p)
  BY <1>1, <1>5 DEF Past
<1>8. ToSet(p) \cap Past(table, n + l) = {}
  <2> SUFFICES ASSUME NEW i \in n + 1 .. m, NEW k \in 1 .. Len(table), k > n + l,
                      table[i] = table[k]
               PROVE  FALSE
    BY <1>1, <1>5 DEF Past
  <2>1. i \in 1 .. Len(table) /\ i < k
    BY <1>1
  <2> QED
    BY <2>1 DEF Distinct
<1> QED
  BY <1>3, <1>4, <1>6, <1>7, <1>8, DistinctCount DEF p

\* A page is read from where the pages before it ended (internal/server/task.go,
\* query.sql.go, GetTasksPaginated).
LEMMA ReadPageKeeps == ASSUME ListInv, ReadPage PROVE ListInv'
<1> DEFINE n == Offset(walk.page, walk.size)
           p == Rows(Limit, n)
           S == ToSet(walk.seen)
           P == ToSet(p)
           A == Past(table, n + Limit)
           U == S \cup P
<1>1. /\ WalkTyped /\ WalkCounts /\ walk.pc = "page" /\ UNCHANGED <<table, born>>
      /\ table \in Seq(1 .. born) /\ Distinct(table)
  BY DEF ListInv, ReadPage
<1>2. CASE walk' = [walk EXCEPT !.pc = "failed"]
  BY <1>1, <1>2, FailureKeeps
<1>3. CASE Limit >= 0 /\ n >= 0 /\ walk' = [walk EXCEPT !.pc = "count", !.seen = @ \o p]
  <2>1. walk.page \in Nat \ {0} /\ walk.size \in Nat /\ walk.seen \in Seq(1 .. born)
    BY <1>1 DEF WalkTyped
  <2>2. Reached = (walk.page - 1) * Limit /\ Reached \in 0 .. 2 * IntHalf - 1
    BY <1>1 DEF Reached, WalkCounts
  <2>3. Limit \in Nat /\ Limit < IntHalf
    <3>1. walk.size \in Int
      BY <2>1
    <3>2. Limit \in -IntHalf .. IntHalf - 1
      BY <3>1, Int32Cuts DEF Limit
    <3> QED
      BY <1>3, <3>2, WidthAssumption
  <2>4. n = Reached /\ n \in 0 .. IntHalf - 1
    <3>1. n = (walk.page - 1) * Limit /\ n < IntHalf
      BY <1>3, <2>1, <2>2, OffsetIsReached DEF Limit
    <3> QED
      BY <2>2, <3>1, WidthAssumption
  <2>5. /\ p \in Seq(1 .. born)
        /\ IsFiniteSet(P) /\ Cardinality(P) = Len(p)
        /\ Upto(table, n + Limit) = Upto(table, n) \cup P
        /\ Past(table, n) = A \cup P
        /\ P \cap A = {}
    <3>1. n \in Nat
      BY <2>4, WidthAssumption
    <3> HIDE DEF n
    <3> QED
      BY <1>1, <2>3, <3>1, RowsParts
  <2> HIDE DEF n, p, S, P, A, U
  <2>6. /\ walk' = [pc |-> "count", page |-> walk.page, size |-> walk.size,
                    seen |-> walk.seen \o p, old |-> walk.old,
                    inserts |-> walk.inserts, deletes |-> walk.deletes]
        /\ walk.inserts \in Nat /\ walk.deletes \in Nat
    BY <1>1, <1>3 DEF WalkTyped
  <2>7. /\ walk.seen \o p \in Seq(1 .. born) /\ Len(walk.seen \o p) = Len(walk.seen) + Len(p)
        /\ ToSet(walk.seen \o p) = U
    BY <2>1, <2>5, ConcatElements DEF S, P, U
  <2>8. WalkTyped'
    BY <1>1, <2>6, <2>7 DEF WalkTyped
  <2>9. Reached' = n + Limit /\ n + Limit \in 0 .. 2 * IntHalf - 1
    <3>1. Limit' = Limit
      BY <2>6 DEF Limit
    <3>2. Reached' = walk.page * Limit
      BY <2>6, <3>1 DEF Reached
    <3>3. walk.page * Limit = (walk.page - 1) * Limit + Limit
      BY <2>1, <2>3
    <3> QED
      BY <2>2, <2>3, <2>4, <3>2, <3>3, WidthAssumption
  <2>10. Missed' \subseteq Missed
    <3>1. Missed' = (walk.old \cap (Upto(table, n) \cup P)) \ (S \cup P)
      BY <1>1, <2>5, <2>6, <2>7, <2>9 DEF Missed, U
    <3> QED
      BY <2>4, <3>1 DEF Missed, S
  <2>11. /\ ToComeAgain' = U \cap A
         /\ ToComeAgain = S \cap (A \cup P)
    <3>1. ToComeAgain' = U \cap A
      BY <1>1, <2>6, <2>7, <2>9 DEF ToComeAgain, A
    <3>2. ToComeAgain = S \cap Past(table, n)
      BY <2>4 DEF ToComeAgain, S
    <3> QED
      BY <2>5, <3>1, <3>2
  <2>12. /\ Len(walk.seen) \in Nat /\ Cardinality(S) \in Nat /\ IsFiniteSet(S)
         /\ Cardinality(Missed) \in Nat /\ IsFiniteSet(Missed)
         /\ Cardinality(ToComeAgain) \in Nat /\ Len(p) \in Nat
    BY <2>5, WalkFinite, LenProperties DEF S
  <2>13. /\ Cardinality(U) \in Nat /\ Cardinality(ToComeAgain') \in Nat
         /\ Cardinality(U) - Cardinality(ToComeAgain')
              = Cardinality(S) + Len(p) - Cardinality(ToComeAgain)
    <3> DEFINE C == S \cap P
               D == S \cap A
    <3>1. /\ IsFiniteSet(C) /\ IsFiniteSet(D) /\ IsFiniteSet(U)
          /\ Cardinality(U) = Cardinality(S) + Cardinality(P) - Cardinality(C)
      BY <2>5, <2>12, FS_Union, FS_Intersection DEF U
    <3>2. C \cap D = {} /\ ToComeAgain = C \cup D /\ ToComeAgain' = D
      BY <2>5, <2>11 DEF U
    <3> HIDE DEF C, D
    <3>3. Cardinality(ToComeAgain) = Cardinality(C) + Cardinality(D) - Cardinality(C \cap D)
      BY <3>1, <3>2, FS_Union
    <3>4. Cardinality(C \cap D) = 0
      BY <3>2, FS_EmptySet
    <3>5. /\ Cardinality(S) \in Nat /\ Cardinality(P) \in Nat /\ Cardinality(C) \in Nat
          /\ Cardinality(D) \in Nat /\ Cardinality(U) \in Nat
      BY <2>5, <2>12, <3>1, FS_CardinalityType
    <3>6. Cardinality(ToComeAgain') = Cardinality(D)
      BY <3>2
    <3>7. Cardinality(ToComeAgain) = Cardinality(C) + Cardinality(D)
      BY <3>3, <3>4, <3>5
    <3> QED
      BY <2>5, <3>1, <3>5, <3>6, <3>7
  <2>14. Len(walk.seen) - Cardinality(S) + Cardinality(ToComeAgain) <= walk.inserts
    BY <1>1 DEF WalkCounts, S
  <2>15. /\ Len(walk'.seen) - Cardinality(ToSet(walk'.seen)) + Cardinality(ToComeAgain')
              <= walk'.inserts
         /\ Len(walk'.seen) - Cardinality(ToSet(walk'.seen)) <= walk'.inserts
    <3>1. \A l, c, a, k, u, b, i \in Int :
            u - b = c + k - a /\ l - c + a <= i /\ b >= 0
            => l + k - u + b <= i /\ l + k - u <= i
      OBVIOUS
    <3>2. /\ Len(walk'.seen) = Len(walk.seen) + Len(p)
          /\ Cardinality(ToSet(walk'.seen)) = Cardinality(U)
          /\ walk'.inserts = walk.inserts
      BY <2>6, <2>7
    <3>3. /\ Len(walk.seen) + Len(p) - Cardinality(U) + Cardinality(ToComeAgain')
               <= walk.inserts
          /\ Len(walk.seen) + Len(p) - Cardinality(U) <= walk.inserts
      <4>1. /\ {Len(walk.seen), Len(p), Cardinality(U), Cardinality(ToComeAgain'),
                 Cardinality(S), Cardinality(ToComeAgain), walk.inserts} \subseteq Int
            /\ Cardinality(ToComeAgain') >= 0
        BY <2>6, <2>12, <2>13
      <4> QED
        BY <2>13, <2>14, <3>1, <4>1
    <3>4. /\ Len(walk'.seen) \in Int /\ Cardinality(ToSet(walk'.seen)) \in Int
          /\ Cardinality(ToComeAgain') \in Int /\ walk'.inserts \in Int
      BY <2>6, <2>12, <2>13, <3>2
    <3> QED
      BY <3>2, <3>3, <3>4
  <2>16. Cardinality(Missed') <= walk'.deletes
    <3>1. Cardinality(Missed') \in Nat /\ Cardinality(Missed') <= Cardinality(Missed)
      BY <2>10, <2>12, NoneMore
    <3>2. Cardinality(Missed) <= walk.deletes
      BY <1>1 DEF WalkCounts
    <3> QED
      BY <2>6, <2>12, <3>1, <3>2
  <2>17. WalkCounts' /\ RepeatedOnlyByCreation'
    BY <2>9, <2>15, <2>16 DEF WalkCounts, RepeatedOnlyByCreation
  <2> QED
    BY <1>1, <2>6, <2>8, <2>17 DEF ListInv
<1> QED
  BY <1>2, <1>3 DEF ReadPage, Limit

-----------------------------------------------------------------------------
(* The theorems *)

RequestInv == FormInv /\ ListInv

\* A step of the list is one of these.
LEMMA ListKeeps == ASSUME ListInv, ListNext PROVE ListInv'
BY FirstPageKeeps, CreateKeeps, DeleteKeeps, ReadPageKeeps, ReadCountKeeps DEF ListNext

\* The invariant holds of every behaviour: no order of parts in a body, and no
\* interleaving of pages, insertions and deletions leads out of it.
THEOREM RequestInvariant == Spec => []RequestInv
<1>1. Init => RequestInv
  <2> SUFFICES ASSUME Init PROVE RequestInv
    OBVIOUS
  <2>1. FormInv
    BY FormAssumption, FS_EmptySet DEF Init, FormInit, FormInv, BodyOK, NoBody
  <2>2. ListInv
    BY ListInitInv DEF Init
  <2> QED
    BY <2>1, <2>2 DEF RequestInv
<1>2. RequestInv /\ [Next]_vars => RequestInv'
  <2> SUFFICES ASSUME RequestInv, [Next]_vars PROVE RequestInv'
    OBVIOUS
  <2>1. UNCHANGED formVars => FormInv'
    BY DEF RequestInv, formVars, FormInv, BodyOK, RowOK
  <2>2. UNCHANGED listVars => ListInv'
    BY DEF RequestInv, listVars, ListInv, WalkTyped, WalkCounts, RepeatedOnlyByCreation,
           Missed, ToComeAgain, Reached, Limit
  <2>3. FormNext => FormInv'
    BY FormKeeps DEF RequestInv
  <2>4. ListNext => ListInv'
    BY ListKeeps DEF RequestInv
  <2> QED
    BY <2>1, <2>2, <2>3, <2>4 DEF RequestInv, Next, vars
<1> QED
  BY <1>1, <1>2, PTL DEF Spec

\* A task never has more CPUs than the configuration allows, nor none, and its
\* timeout is positive if the numbers given fit into an int32.
THEOREM FormTypes == Spec => []FormTypeOK
<1>1. RequestInv => FormTypeOK
  BY DEF RequestInv, FormInv, BodyOK, RowOK, FormTypeOK
<1> QED
  BY <1>1, RequestInvariant, PTL

\* The hash in a signature is that of the file the row names, whatever parts came
\* in whatever order.
THEOREM HashIsOfInput == Spec => []HashCoversInput
<1>1. RequestInv => HashCoversInput
  BY DEF RequestInv, FormInv, RowOK, HashCoversInput
<1> QED
  BY <1>1, RequestInvariant, PTL

\* A row keeps the words that were sent, the variables sorted.
LEMMA RowWords ==
  ASSUME FormInv, NEW r \in accepted
  PROVE  /\ r.sent.model \in Word /\ r.sent.envs \in Seq(Word) /\ r.sent.cmd \in Seq(Word)
         /\ r.model = r.sent.model /\ r.envs = Sorted(r.sent.envs) /\ r.cmd = r.sent.cmd
         /\ r.envs \in Seq(Word)
<1>1. r.sent.model \in Word /\ r.sent.envs \in Seq(Word) /\ r.sent.cmd \in Seq(Word)
  BY FormAssumption DEF FormInv, RowOK, Word
<1>2. r.model = r.sent.model /\ r.envs = Sorted(r.sent.envs) /\ r.cmd = r.sent.cmd
  BY DEF FormInv, RowOK
<1> QED
  BY <1>1, <1>2, SortedIs

\* The order in which the client lists the variables does not change the signature
\* under which a result is found (internal/service/task.go:531).
THEOREM SameTaskIsFound == Spec => []SameTaskSameSignature
<1>1. FormInv => SameTaskSameSignature
  <2> SUFFICES ASSUME FormInv, NEW r \in accepted, NEW s \in accepted,
                      r.sent.model = s.sent.model, r.sent.cmd = s.sent.cmd,
                      \A w \in ToSet(r.sent.envs) \cup ToSet(s.sent.envs) :
                        Times(w, r.sent.envs) = Times(w, s.sent.envs),
                      r.sig.hash = s.sig.hash
               PROVE  r.sig = s.sig
    BY DEF SameTaskSameSignature
  <2>1. r.sent.envs \in Seq(Word) /\ s.sent.envs \in Seq(Word)
    BY RowWords
  <2>2. Sorted(r.sent.envs) = Sorted(s.sent.envs)
    BY <2>1, SameTimesSorted
  <2>3. r.model = s.model /\ r.envs = s.envs /\ r.cmd = s.cmd
    BY <2>2, RowWords
  <2>4. /\ r.sig = [meta |-> Meta(r.model, r.envs, r.cmd), hash |-> r.sig.hash]
        /\ s.sig = [meta |-> Meta(s.model, s.envs, s.cmd), hash |-> s.sig.hash]
    BY DEF FormInv, RowOK
  <2> QED
    BY <2>3, <2>4
<1> QED
  BY <1>1, RequestInvariant, PTL DEF RequestInv

\* Tasks with one signature are run with the same model, variables, command and file,
\* as long as no word could be mistaken for a separator or for nothing: a result
\* that is shared is the right one (internal/service/task.go:533).
THEOREM SharedResultIsRight == Spec => []SignatureIdentifiesRun
<1>1. FormInv => SignatureIdentifiesRun
  <2> SUFFICES ASSUME FormInv, NEW r \in accepted, NEW s \in accepted, r.sig = s.sig,
                      \A t \in {r, s} : OneFile(t) /\ Plain(t.envs) /\ Plain(t.cmd)
               PROVE  /\ r.model = s.model /\ r.envs = s.envs /\ r.cmd = s.cmd
                      /\ {f.content : f \in r.files} = {f.content : f \in s.files}
    BY DEF SignatureIdentifiesRun
  <2>1. ASSUME NEW t \in {r, s}
        PROVE  {f.content : f \in t.files} = {t.sig.hash}
    <3>1. /\ [name |-> t.input, content |-> t.sig.hash] \in t.files
          /\ IsFiniteSet(t.files) /\ Cardinality(t.files) = 1
      BY DEF FormInv, RowOK, OneFile
    <3>2. \E x : t.files = {x}
      BY <3>1, FS_Singleton
    <3>3. t.files = {[name |-> t.input, content |-> t.sig.hash]}
      BY <3>1, <3>2
    <3> QED
      BY <3>3
  <2>2. /\ r.model \in Word /\ r.envs \in Seq(Word) /\ r.cmd \in Seq(Word)
        /\ s.model \in Word /\ s.envs \in Seq(Word) /\ s.cmd \in Seq(Word)
    BY RowWords
  <2>3. Meta(r.model, r.envs, r.cmd) = Meta(s.model, s.envs, s.cmd)
    <3>1. \A t \in accepted :
            t.sig = [meta |-> Meta(t.model, t.envs, t.cmd), hash |-> t.sig.hash]
      BY DEF FormInv, RowOK
    <3>2. \A x, a, h : x = [meta |-> a, hash |-> h] => x.meta = a
      OBVIOUS
    <3>3. /\ r.sig = [meta |-> Meta(r.model, r.envs, r.cmd), hash |-> r.sig.hash]
          /\ s.sig = [meta |-> Meta(s.model, s.envs, s.cmd), hash |-> s.sig.hash]
      BY <3>1
    <3>4. r.sig.meta = Meta(r.model, r.envs, r.cmd)
      BY <3>2, <3>3
    <3>5. s.sig.meta = Meta(s.model, s.envs, s.cmd)
      BY <3>2, <3>3
    <3> QED
      BY <3>4, <3>5
  <2>4. Plain(r.envs) /\ Plain(r.cmd) /\ Plain(s.envs) /\ Plain(s.cmd)
    OBVIOUS
  <2>5. r.model = s.model /\ r.envs = s.envs /\ r.cmd = s.cmd
    BY <2>2, <2>3, <2>4, SignatureParts
  <2> QED
    BY <2>1, <2>5
<1> QED
  BY <1>1, RequestInvariant, PTL DEF RequestInv

\* A client that reads all pages is shown no more tasks twice than were created
\* meanwhile.
THEOREM FewRepeated == Spec => []RepeatedOnlyByCreation
<1>1. RequestInv => RepeatedOnlyByCreation
  BY DEF RequestInv, ListInv
<1> QED
  BY <1>1, RequestInvariant, PTL

\* And it misses no more of the tasks that stayed than were deleted meanwhile.
THEOREM FewHidden == Spec => []HiddenOnlyByDeletion
<1>1. RequestInv => HiddenOnlyByDeletion
  <2> SUFFICES ASSUME ListInv, walk.pc = "done", Int32(walk.size) = walk.size
               PROVE  Cardinality((walk.old \cap ToSet(table)) \ ToSet(walk.seen))
                        <= walk.deletes
    BY DEF RequestInv, HiddenOnlyByDeletion
  <2>1. Reached = walk.page * walk.size
    BY DEF Reached, Limit
  <2>2. Len(table) <= Reached /\ Reached \in Int
    BY <2>1, WidthAssumption DEF ListInv, WalkCounts
  <2>3. Upto(table, Reached) = ToSet(table)
    <3>1. \A j \in 1 .. Len(table) : j <= Reached
      BY <2>2, LenProperties DEF ListInv
    <3>2. DOMAIN table = 1 .. Len(table)
      BY ElementsIn DEF ListInv
    <3> QED
      BY <3>1, <3>2 DEF Upto, ToSet
  <2>4. Missed = (walk.old \cap ToSet(table)) \ ToSet(walk.seen)
    BY <2>3 DEF Missed
  <2> QED
    BY <2>4 DEF ListInv, WalkCounts
<1> QED
  BY <1>1, RequestInvariant, PTL

==============================================================================
