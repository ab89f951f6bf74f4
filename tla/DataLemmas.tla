------------------------------ MODULE DataLemmas ------------------------------
(***************************************************************************)
(* What the proofs need to know about data and the provers do not: the     *)
(* arithmetic of quotients, remainders and products when the divisor is    *)
(* not a number, a form of induction that needs no operator as a           *)
(* parameter, the members of sets and sequences counted, and what a fold   *)
(* computes.  Nothing here is about the program.                           *)
(***************************************************************************)
EXTENDS Integers, Sequences, FiniteSets, FiniteSetsExt, FiniteSetTheorems,
        WellFoundedInduction, TLAPS

(* What the quotient and the remainder are.                                *)
LEMMA DivMod ==
    ASSUME NEW x \in Nat, NEW q \in Nat \ {0}
    PROVE  x = q * (x \div q) + (x % q)
  OBVIOUS

LEMMA DivModType ==
    ASSUME NEW x \in Nat, NEW q \in Nat \ {0}
    PROVE  /\ x \div q \in Int
           /\ x % q \in Int /\ 0 <= x % q /\ x % q < q
  OBVIOUS

(* The remainder is the only one of its kind.                              *)
LEMMA ModUnique ==
    ASSUME NEW x \in Nat, NEW q \in Nat \ {0}, NEW d \in Int, NEW r \in Int,
           0 <= r, r < q, x = q * d + r
    PROVE  x % q = r
<1> DEFINE e == x \div q
           m == x % q
<1>1. /\ e \in Int /\ m \in Int /\ m >= 0 /\ m < q
      /\ q * e + m = q * d + r
  BY DivMod, DivModType
<1> HIDE DEF e, m
<1>2. q * (e - d) = r - m
  BY <1>1
<1>3. e - d > -1 /\ e - d < 1
  BY <1>1, <1>2
<1>4. e = d
  BY <1>1, <1>3
<1>5. QED
  BY <1>1, <1>4 DEF m

(* Adding one to a remainder, with the wrap to zero.                       *)
LEMMA ModSuccessor ==
    ASSUME NEW x \in Nat, NEW q \in Nat \ {0, 1}
    PROVE  (x + 1) % q = IF (x % q) + 1 = q THEN 0 ELSE (x % q) + 1
<1> DEFINE e == x \div q
           m == x % q
<1>1. e \in Int /\ m \in Int /\ m >= 0 /\ m < q /\ x = q * e + m
  BY DivMod, DivModType
<1> HIDE DEF e, m
<1>2. CASE m + 1 = q
  <2>1. x + 1 = q * (e + 1) + 0
    BY <1>1, <1>2
  <2>2. (x + 1) % q = 0
    BY <1>1, <2>1, ModUnique
  <2>3. QED
    BY <1>2, <2>2 DEF m
<1>3. CASE m + 1 # q
  <2>1. x + 1 = q * e + (m + 1) /\ m + 1 \in Int /\ 0 <= m + 1 /\ m + 1 < q
    BY <1>1, <1>3
  <2>2. (x + 1) % q = m + 1
    BY <1>1, <2>1, ModUnique
  <2>3. QED
    BY <1>3, <2>2 DEF m
<1>4. QED
  BY <1>2, <1>3

(* Adding one to a quotient's dividend.                                    *)
LEMMA DivSuccessor ==
    ASSUME NEW x \in Nat, NEW q \in Nat \ {0}
    PROVE  /\ (x + 1) % q = IF (x % q) + 1 = q THEN 0 ELSE (x % q) + 1
           /\ (x + 1) \div q = IF (x % q) + 1 = q THEN (x \div q) + 1
                               ELSE x \div q
<1> DEFINE e == x \div q
           m == x % q
           f == (x + 1) \div q
           n == (x + 1) % q
<1>1. /\ e \in Int /\ m \in Int /\ m >= 0 /\ m < q /\ x = q * e + m
      /\ f \in Int /\ n \in Int /\ n >= 0 /\ n < q /\ x + 1 = q * f + n
  BY DivMod, DivModType
<1> HIDE DEF e, m, f, n
<1>2. q * (f - e) = m + 1 - n
  BY <1>1
<1>3. f - e >= 0 /\ f - e <= 1
  <2>1. q * (f - e) > -q /\ q * (f - e) <= q
    BY <1>1, <1>2
  <2>2. QED
    BY <1>1, <2>1
<1>4. CASE f = e
  BY <1>1, <1>2, <1>4 DEF e, m, f, n
<1>5. CASE f = e + 1
  BY <1>1, <1>2, <1>5 DEF e, m, f, n
<1>6. QED
  BY <1>1, <1>3, <1>4, <1>5

(* A sum may be reduced before it is completed.                            *)
LEMMA ModSum ==
    ASSUME NEW x \in Nat, NEW k \in Nat, NEW q \in Nat \ {0}
    PROVE  ((x % q) + k) % q = (x + k) % q
<1> DEFINE e == x \div q
           m == x % q
           f == (m + k) \div q
           r == (m + k) % q
<1>1. e \in Int /\ m \in Int /\ m >= 0 /\ m < q /\ x = q * e + m
  BY DivMod, DivModType
<1> HIDE DEF e, m
<1>2. m + k \in Nat
  BY <1>1
<1>3. f \in Int /\ r \in Int /\ r >= 0 /\ r < q /\ m + k = q * f + r
  BY <1>2, DivMod, DivModType
<1> HIDE DEF f, r
<1>4. x + k = q * (e + f) + r /\ e + f \in Int /\ x + k \in Nat
  BY <1>1, <1>3
<1>5. (x + k) % q = r
  BY <1>3, <1>4, ModUnique
<1>6. QED
  BY <1>5 DEF m, r

(* Numbers less than q apart have different remainders.                    *)
LEMMA ModDiffer ==
    ASSUME NEW x \in Nat, NEW y \in Nat, NEW q \in Nat \ {0},
           x < y, y < x + q
    PROVE  x % q # y % q
<1> DEFINE e == x \div q
           f == y \div q
           m == x % q
<1>1. e \in Int /\ f \in Int /\ m \in Int /\ x = q * e + m
  BY DivMod, DivModType
<1> SUFFICES ASSUME x % q = y % q PROVE FALSE
  OBVIOUS
<1>2. y = q * f + m
  BY DivMod
<1> HIDE DEF e, f, m
<1>3. q * (f - e) > 0 /\ q * (f - e) < q
  BY <1>1, <1>2
<1>4. f - e > 0 /\ f - e < 1
  BY <1>1, <1>3
<1>5. QED
  BY <1>1, <1>4

(* Two products multiplied out.                                            *)
LEMMA Distribute ==
    ASSUME NEW n \in Int, NEW r \in Int
    PROVE  /\ n * (r - 1) \in Int /\ n * (r - 1) = n * r - n
           /\ (n - 1) * (r - 1) \in Int /\ (n - 1) * (r - 1) = n * r - r - (n - 1)
  OBVIOUS

(* The quotient by n of a number that falls short of n times r by less     *)
(* than n, or by at most n when l is 1.                                    *)
LEMMA QuotientBound ==
    ASSUME NEW n \in Nat \ {0}, NEW r \in Int, NEW j \in 0 .. n - 1,
           NEW l \in {0, 1}, NEW c \in Int, c = n * r - j - l
    PROVE  /\ c \div n \in {r - 1, r}
           /\ l = 1 => c \div n = r - 1
<1> DEFINE q == c \div n
<1>1. q \in Int /\ n * q <= c /\ c < n * q + n
  OBVIOUS
<1>2. n * q <= n * r /\ (l = 1 => n * q < n * r)
  BY <1>1
<1>3. n * r < n * q + 2 * n
  BY <1>1
<1>4. q <= r /\ (l = 1 => q < r)
  BY <1>1, <1>2
<1>5. r < q + 2
  BY <1>1, <1>3
<1>6. QED
  BY <1>1, <1>4, <1>5

(* The quotient is the number of the block of q that x is in.              *)
LEMMA InBlock ==
    ASSUME NEW x \in Nat, NEW q \in Nat \ {0}, NEW d \in Int
    PROVE  x \div q = d <=> q * d <= x /\ x < q * d + q
<1> DEFINE e == x \div q
           m == x % q
<1>1. e \in Int /\ m \in Int /\ 0 <= m /\ m < q /\ x = q * e + m
  BY DivMod, DivModType
<1> HIDE DEF e, m
<1>2. ASSUME e = d
      PROVE  q * d <= x /\ x < q * d + q
  <2>1. q * d \in Int /\ x = q * d + m
    BY <1>1, <1>2
  <2>2. QED
    BY <1>1, <2>1
<1>3. ASSUME q * d <= x, x < q * d + q
      PROVE  e = d
  <2>1. q * (e - d) = q * e - q * d /\ q * e \in Int /\ q * d \in Int
    BY <1>1
  <2>2. q * (e - d) < q /\ q * (e - d) > -q
    BY <1>1, <1>3, <2>1
  <2>3. ~(e - d >= 1)
    <3>1. ASSUME e - d >= 1 PROVE q * (e - d) >= q
      BY <1>1, <3>1
    <3>2. QED
      BY <1>1, <2>1, <2>2, <3>1
  <2>4. ~(e - d <= -1)
    <3>1. ASSUME e - d <= -1 PROVE q * (e - d) <= -q
      BY <1>1, <3>1
    <3>2. QED
      BY <1>1, <2>1, <2>2, <3>1
  <2>5. QED
    BY <1>1, <2>3, <2>4
<1>4. QED
  BY <1>2, <1>3 DEF e

LEMMA BlockBound ==
    ASSUME NEW m \in Nat, NEW q \in Nat \ {0}, NEW x \in Nat, x < m * q
    PROVE  x \div q \in 0 .. m - 1
<1> DEFINE e == x \div q
<1>1. e \in Int /\ q * e <= x /\ x < q * e + q
  BY DivModType, InBlock
<1> HIDE DEF e
<1>2. e < m
  <2>1. ASSUME e >= m PROVE q * e >= m * q
    BY <1>1, <2>1
  <2>2. QED
    BY <1>1, <2>1
<1>3. e >= 0
  <2>1. ASSUME e <= -1 PROVE q * e <= -q
    BY <1>1, <2>1
  <2>2. QED
    BY <1>1, <2>1
<1>4. QED
  BY <1>1, <1>2, <1>3 DEF e

(* The last q numbers of the first d * q.                                  *)
LEMMA BlockInterval ==
    ASSUME NEW m \in Nat, NEW q \in Nat \ {0}, NEW d \in 1 .. m
    PROVE  /\ (d - 1) * q + 1 \in Int /\ d * q \in Int
           /\ (d - 1) * q + 1 >= 1 /\ d * q <= m * q
           /\ d * q - ((d - 1) * q + 1) + 1 = q
<1>1. (d - 1) * q = d * q - q /\ d * q \in Int /\ (d - 1) * q \in Int
  OBVIOUS
<1>2. (d - 1) * q >= 0
  OBVIOUS
<1>3. d * q <= m * q
  OBVIOUS
<1>4. m * q \in Int
  OBVIOUS
<1>5. QED
  BY <1>1, <1>2, <1>3, <1>4

(* The set of naturals at which a step by step construction fails has no   *)
(* least element, so it is empty.                                          *)
LEMMA NoLeastFailure ==
    ASSUME NEW S \in SUBSET Nat, \A k \in S : k # 0 /\ k - 1 \in S
    PROVE  S = {}
<1> SUFFICES ASSUME S # {} PROVE FALSE
  OBVIOUS
<1> DEFINE R == OpToRel(<, Nat)
<1>1. IsWellFoundedOn(R, Nat)
  BY NatLessThanWellFounded, Zenon
<1>2. \A j, k \in Nat : j < k => <<j, k>> \in R
  BY Zenon DEF OpToRel
<1> HIDE DEF R
<1>3. PICK k \in S : \A j \in S : <<j, k>> \notin R
  BY <1>1, WFMin
<1>4. k \in Nat /\ k - 1 \in S /\ k - 1 \in Nat /\ k - 1 < k
  OBVIOUS
<1>5. QED
  BY <1>2, <1>3, <1>4

-----------------------------------------------------------------------------
(* The members of a set of numbers counted up to one of them.              *)

LEMMA PartOfInterval ==
    ASSUME NEW n \in Nat, NEW S \in SUBSET (1 .. n)
    PROVE  IsFiniteSet(S) /\ Cardinality(S) \in Nat
<1>1. IsFiniteSet(1 .. n)
  <2>1. 1 \in Int /\ n \in Int
    OBVIOUS
  <2>2. QED
    BY <2>1, FS_Interval
<1>2. IsFiniteSet(S)
  BY <1>1, FS_Subset
<1>3. QED
  BY <1>2, FS_CardinalityType

(* How many numbers of S do not exceed k.                                  *)
UpTo(k, S) == {j \in S : j <= k}
Rank(k, S) == Cardinality(UpTo(k, S))

(* The ranks of the members of a set are different, from 1 to their number.*)
LEMMA RankType ==
    ASSUME NEW n \in Nat, NEW S \in SUBSET (1 .. n), NEW k \in S
    PROVE  Rank(k, S) \in 1 .. Cardinality(S)
<1> DEFINE below == UpTo(k, S)
<1>1. IsFiniteSet(S)
  BY PartOfInterval
<1>2. below \in SUBSET S /\ k \in below
  BY DEF UpTo
<1> HIDE DEF below
<1>3. IsFiniteSet(below) /\ Cardinality(below) <= Cardinality(S)
  BY <1>1, <1>2, FS_Subset
<1>4. Cardinality(below) \in Nat /\ Cardinality(S) \in Nat
  BY <1>1, <1>3, FS_CardinalityType
<1>5. Cardinality(below) # 0
  BY <1>2, <1>3, FS_EmptySet
<1>6. QED
  BY <1>3, <1>4, <1>5 DEF Rank, below

(* A greater member has a greater rank, ...                                *)
LEMMA RankGrows ==
    ASSUME NEW n \in Nat, NEW S \in SUBSET (1 .. n), NEW j \in S, NEW k \in S, j < k
    PROVE  Rank(j, S) # Rank(k, S)
<1> DEFINE low == UpTo(j, S)
           high == UpTo(k, S)
<1>1. IsFiniteSet(S)
  BY PartOfInterval
<1>2. high \in SUBSET S /\ low \in SUBSET high /\ k \in high /\ k \notin low
  <2>1. j \in Int /\ k \in Int /\ j < k /\ j \in S /\ k \in S
    OBVIOUS
  <2>2. ASSUME NEW x \in S, x <= j
        PROVE  x <= k
    <3>1. x \in Int
      OBVIOUS
    <3>2. QED
      BY <2>1, <2>2, <3>1
  <2>3. k <= k /\ ~(k <= j)
    BY <2>1
  <2>4. QED
    BY <2>1, <2>2, <2>3 DEF UpTo
<1> HIDE DEF low, high
<1>3. IsFiniteSet(high)
  BY <1>1, <1>2, FS_Subset
<1>4. Cardinality(high) # Cardinality(low)
  BY <1>2, <1>3, FS_Subset
<1>5. QED
  BY <1>4 DEF Rank, low, high

(* ... so that members have different ranks.                               *)
LEMMA RankInjective ==
    ASSUME NEW n \in Nat, NEW S \in SUBSET (1 .. n), NEW j \in S, NEW k \in S, j # k
    PROVE  Rank(j, S) # Rank(k, S)
<1>1. j < k \/ k < j
  OBVIOUS
<1>2. CASE j < k
  BY <1>2, RankGrows
<1>3. CASE k < j
  BY <1>3, RankGrows
<1>4. QED
  BY <1>1, <1>2, <1>3

(* Moving numbers along does not change how many they are.                 *)
MovedBy(S, d) == {k + d : k \in S}
(* A set and the same set moved along the numbers have the same size.      *)
LEMMA MovedSize ==
    ASSUME NEW S \in SUBSET Int, IsFiniteSet(S), NEW d \in Int
    PROVE  /\ IsFiniteSet(MovedBy(S, d))
           /\ Cardinality(MovedBy(S, d)) = Cardinality(S)
<1> DEFINE T == MovedBy(S, d)
           f == [k \in S |-> k + d]
<1>1. f \in Bijection(S, T)
  BY DEF MovedBy, Bijection, Injection, Surjection, IsInjective
<1>2. ExistsBijection(S, T)
  <2> HIDE DEF f, T
  <2>1. QED
    BY <1>1 DEF ExistsBijection
<1>3. QED
  <2> HIDE DEF T
  <2>1. IsFiniteSet(T) /\ Cardinality(T) = Cardinality(S)
    BY <1>2, FS_Bijection
  <2>2. QED
    BY <2>1 DEF T

(* How many members of a sequence are of a kind.                           *)
Where(s, T) == {k \in DOMAIN s : s[k] \in T}
Count(s, T) == Cardinality(Where(s, T))

(* A count is a number, and none when no place qualifies.                  *)
LEMMA CountType ==
    ASSUME NEW V, NEW s \in Seq(V), NEW T
    PROVE  /\ Count(s, T) \in Nat
           /\ IsFiniteSet(Where(s, T))
           /\ Count(s, T) = 0 <=> Where(s, T) = {}
<1>1. DOMAIN s = 1 .. Len(s) /\ IsFiniteSet(1 .. Len(s))
  BY FS_Interval
<1>2. IsFiniteSet(Where(s, T))
  BY <1>1, FS_Subset DEF Where
<1>3. QED
  BY <1>2, FS_CardinalityType, FS_EmptySet DEF Count

(* Taking the head of a sequence away ...                                  *)
LEMMA CountTail ==
    ASSUME NEW V, NEW s \in Seq(V), s # <<>>, NEW T
    PROVE  Count(Tail(s), T) = IF Head(s) \in T THEN Count(s, T) - 1 ELSE Count(s, T)
<1> DEFINE all == Where(s, T)
           rest == Where(Tail(s), T)
<1>1. /\ Len(s) \in Nat \ {0} /\ DOMAIN s = 1 .. Len(s)
      /\ Tail(s) \in Seq(V) /\ Len(Tail(s)) = Len(s) - 1
      /\ DOMAIN Tail(s) = 1 .. Len(s) - 1
      /\ \A k \in 1 .. Len(s) - 1 : Tail(s)[k] = s[k + 1]
      /\ Head(s) = s[1]
  OBVIOUS
<1>2. IsFiniteSet(all) /\ all \in SUBSET Int
  <2>1. IsFiniteSet(all)
    BY CountType
  <2>2. all \in SUBSET Int
    BY <1>1 DEF Where
  <2>3. QED
    BY <2>1, <2>2
<1>3. 1 \in all <=> Head(s) \in T
  BY <1>1 DEF Where
<1>4. rest = MovedBy(all \ {1}, -1)
  <2>1. ASSUME NEW k \in rest
        PROVE  k + 1 \in all \ {1} /\ k = (k + 1) + (-1)
    BY <1>1 DEF Where
  <2>2. ASSUME NEW k \in all \ {1}
        PROVE  k + (-1) \in rest
    <3>1. k \in 2 .. Len(s) /\ s[k] \in T
      BY <1>1 DEF Where
    <3>2. k - 1 \in 1 .. Len(s) - 1 /\ (k - 1) + 1 = k /\ k + (-1) = k - 1
      BY <1>1, <3>1
    <3>3. Tail(s)[k - 1] = s[k]
      BY <1>1, <3>2
    <3>4. QED
      BY <1>1, <3>1, <3>2, <3>3 DEF Where
  <2> HIDE DEF all, rest
  <2>3. QED
    BY <2>1, <2>2 DEF MovedBy
<1> HIDE DEF all, rest
<1>5. /\ IsFiniteSet(all \ {1})
      /\ Cardinality(all \ {1}) = IF 1 \in all THEN Cardinality(all) - 1 ELSE Cardinality(all)
  BY <1>2, FS_RemoveElement
<1>6. Cardinality(rest) = Cardinality(all \ {1})
  <2>1. all \ {1} \in SUBSET Int /\ -1 \in Int
    BY <1>2
  <2>2. QED
    BY <1>4, <1>5, <2>1, MovedSize
<1>7. QED
  BY <1>3, <1>5, <1>6 DEF Count, all, rest

(* ... and appending another sequence to it.                               *)
LEMMA CountConcat ==
    ASSUME NEW V, NEW s \in Seq(V), NEW t \in Seq(V), NEW T
    PROVE  Count(s \o t, T) = Count(s, T) + Count(t, T)
<1> DEFINE in_s == Where(s, T)
           in_t == Where(t, T)
           moved == MovedBy(in_t, Len(s))
           both == Where(s \o t, T)
<1>1. /\ Len(s) \in Nat /\ DOMAIN s = 1 .. Len(s)
      /\ Len(t) \in Nat /\ DOMAIN t = 1 .. Len(t)
      /\ DOMAIN (s \o t) = 1 .. Len(s) + Len(t)
      /\ \A k \in 1 .. Len(s) + Len(t) :
            (s \o t)[k] = IF k <= Len(s) THEN s[k] ELSE t[k - Len(s)]
  OBVIOUS
<1>2. /\ IsFiniteSet(in_s) /\ IsFiniteSet(in_t) /\ in_t \in SUBSET Int
      /\ Cardinality(in_s) \in Nat /\ Cardinality(in_t) \in Nat
  <2>1. in_t \in SUBSET Int
    BY <1>1 DEF Where
  <2>2. IsFiniteSet(in_s) /\ IsFiniteSet(in_t)
    BY CountType
  <2>3. QED
    BY <2>1, <2>2, FS_CardinalityType
<1>3. both = in_s \cup moved
  <2>1. in_s \subseteq both
    BY <1>1 DEF Where
  <2>2. moved \subseteq both
    <3>1. ASSUME NEW k \in in_t
          PROVE  k + Len(s) \in both
      <4>1. k \in 1 .. Len(t) /\ t[k] \in T
        BY <1>1 DEF Where
      <4>2. k + Len(s) \in 1 .. Len(s) + Len(t) /\ ~(k + Len(s) <= Len(s)) /\ (k + Len(s)) - Len(s) = k
        BY <1>1, <4>1
      <4>3. (s \o t)[k + Len(s)] = t[k]
        BY <1>1, <4>2
      <4>4. QED
        BY <1>1, <4>1, <4>2, <4>3 DEF Where
    <3>2. QED
      BY <3>1 DEF MovedBy
  <2>3. ASSUME NEW k \in both, k \notin in_s
        PROVE  k \in moved
    <3>1. k \in 1 .. Len(s) + Len(t) /\ (s \o t)[k] \in T
      BY <1>1 DEF Where
    <3>2. ~(k <= Len(s))
      BY <1>1, <2>3, <3>1 DEF Where
    <3>3. k - Len(s) \in 1 .. Len(t) /\ (k - Len(s)) + Len(s) = k
      BY <1>1, <3>1, <3>2
    <3>4. k - Len(s) \in in_t
      BY <1>1, <3>1, <3>2, <3>3 DEF Where
    <3> HIDE DEF in_t
    <3>5. QED
      BY <3>3, <3>4 DEF MovedBy
  <2> HIDE DEF in_s, moved, both
  <2>4. QED
    BY <2>1, <2>2, <2>3
<1>4. in_s \cap moved = {}
  BY <1>1 DEF Where, MovedBy
<1>5. IsFiniteSet(moved) /\ Cardinality(moved) = Cardinality(in_t)
  <2> HIDE DEF in_t
  <2>1. QED
    BY <1>1, <1>2, MovedSize
<1> HIDE DEF in_s, in_t, moved, both
<1>6. Cardinality(both) = Cardinality(in_s) + Cardinality(moved) - Cardinality({})
  BY <1>2, <1>3, <1>4, <1>5, FS_Union
<1>7. Cardinality(both) = Cardinality(in_s) + Cardinality(in_t)
  BY <1>2, <1>5, <1>6, FS_EmptySet
<1>8. QED
  BY <1>7 DEF Count, in_s, in_t, both

-----------------------------------------------------------------------------
(* Sums and other folds over a finite set.                                 *)

(* The element that the folds of the community modules take out of a set.  *)
Pick(s) == CHOOSE x \in s : TRUE

(* The subsets of a finite set at which a construction fails that takes    *)
(* out one element after the other: none, if a failure always comes from   *)
(* an earlier one.                                                         *)
LEMMA NoSmallestFailure ==
    ASSUME NEW S, IsFiniteSet(S), NEW Bad \in SUBSET (SUBSET S),
           \A s \in Bad : s # {} /\ s \ {Pick(s)} \in Bad
    PROVE  Bad = {}
<1> DEFINE Sizes == {Cardinality(s) : s \in Bad}
<1>1. ASSUME NEW s \in SUBSET S
      PROVE  /\ IsFiniteSet(s) /\ Cardinality(s) \in Nat
             /\ s # {} => /\ Pick(s) \in s /\ Cardinality(s) # 0
                          /\ Cardinality(s \ {Pick(s)}) = Cardinality(s) - 1
  <2>1. IsFiniteSet(s) /\ Cardinality(s) \in Nat
    BY FS_Subset, FS_CardinalityType
  <2>2. ASSUME s # {}
        PROVE  /\ Pick(s) \in s /\ Cardinality(s) # 0
               /\ Cardinality(s \ {Pick(s)}) = Cardinality(s) - 1
    <3>1. Pick(s) \in s
      BY <2>2 DEF Pick
    <3> DEFINE x == Pick(s)
    <3> HIDE DEF x
    <3>2. x \in s
      BY <3>1 DEF x
    <3>3. Cardinality(s \ {x}) = Cardinality(s) - 1
      BY <2>1, <3>2, FS_RemoveElement
    <3>4. Cardinality(s) # 0
      BY <2>1, <2>2, FS_EmptySet
    <3>5. QED
      BY <3>2, <3>3, <3>4 DEF x
  <2>3. QED
    BY <2>1, <2>2
<1>2. Sizes \in SUBSET Nat
  BY <1>1
<1>3. ASSUME NEW n \in Sizes
      PROVE  n # 0 /\ n - 1 \in Sizes
  <2>1. PICK s \in Bad : n = Cardinality(s)
    OBVIOUS
  <2>2. s # {} /\ s \ {Pick(s)} \in Bad /\ s \in SUBSET S
    OBVIOUS
  <2>3. QED
    BY <1>1, <2>1, <2>2
<1>4. Sizes = {}
  <2> HIDE DEF Sizes
  <2>1. QED
    BY <1>2, <1>3, NoLeastFailure
<1>5. QED
  BY <1>4

(* What a fold over a finite set makes of the subsets of it.               *)
FoldsTo(iter, S, base, step) ==
    \A s \in SUBSET S : iter[s] = IF s = {} THEN base
                                  ELSE step[<<Pick(s), iter[s \ {Pick(s)}]>>]

(* It exists.                                                              *)
LEMMA FoldExists ==
    ASSUME NEW S, IsFiniteSet(S), NEW V, NEW base \in V, NEW step \in [S \X V -> V]
    PROVE  \E iter \in [SUBSET S -> V] : FoldsTo(iter, S, base, step)
<1> DEFINE Small(n) == {s \in SUBSET S : Cardinality(s) <= n}
           Good(n, iter) ==
               /\ iter \in [Small(n) -> V]
               /\ \A s \in Small(n) :
                     iter[s] = IF s = {} THEN base
                               ELSE step[<<Pick(s), iter[s \ {Pick(s)}]>>]
           Bad == {n \in Nat : ~\E iter : Good(n, iter)}
<1>1. ASSUME NEW s \in SUBSET S
      PROVE  /\ Cardinality(s) \in Nat /\ (Cardinality(s) = 0 <=> s = {})
             /\ s # {} => /\ Pick(s) \in s /\ Pick(s) \in S
                          /\ s \ {Pick(s)} \in SUBSET S
                          /\ Cardinality(s \ {Pick(s)}) = Cardinality(s) - 1
  <2>1. IsFiniteSet(s) /\ Cardinality(s) \in Nat
    BY FS_Subset, FS_CardinalityType
  <2>2. s # {} => Pick(s) \in s
    BY DEF Pick
  <2>3. QED
    BY <2>1, <2>2, FS_RemoveElement, FS_EmptySet
<1>2. 0 \notin Bad
  <2>1. ASSUME NEW s \in Small(0)
        PROVE  s = {}
    <3>1. s \in SUBSET S /\ Cardinality(s) <= 0
      OBVIOUS
    <3>2. Cardinality(s) \in Nat /\ (Cardinality(s) = 0 <=> s = {})
      BY <1>1, <3>1
    <3> HIDE DEF Small
    <3>3. QED
      BY <3>1, <3>2
  <2>3. {} \in Small(0)
    BY FS_EmptySet
  <2>4. Small(0) = {{}}
    <3> HIDE DEF Small
    <3>1. QED
      BY <2>1, <2>3
  <2>5. Good(0, [s \in Small(0) |-> base])
    <3> HIDE DEF Small
    <3>1. QED
      BY <2>4
  <2>6. QED
    BY <2>5
<1>3. ASSUME NEW n \in Bad
      PROVE  n - 1 \in Bad
  <2>1. n \in Nat /\ n # 0 /\ n - 1 \in Nat
    <3> HIDE DEF Good
    <3>1. QED
      BY <1>2
  <2>2. ASSUME NEW iter, Good(n - 1, iter)
        PROVE  FALSE
    <3> DEFINE value(s) == IF s = {} THEN base
                           ELSE step[<<Pick(s), iter[s \ {Pick(s)}]>>]
               more == [s \in Small(n) |-> value(s)]
    <3>1. \A s \in Small(n) : s # {} => s \ {Pick(s)} \in Small(n - 1) /\ Pick(s) \in S
      BY <1>1, <2>1
    <3>2. \A s \in Small(n - 1) : iter[s] = value(s) /\ s \in Small(n) /\ iter[s] \in V
      BY <1>1, <2>1, <2>2
    <3> HIDE DEF Small
    <3>3. \A s \in Small(n) : value(s) \in V
      BY <3>1, <3>2
    <3>4. more \in [Small(n) -> V]
      BY <3>3
    <3>5. \A s \in Small(n - 1) : more[s] = iter[s]
      BY <3>2
    <3>6. ASSUME NEW s \in Small(n)
          PROVE  more[s] = IF s = {} THEN base ELSE step[<<Pick(s), more[s \ {Pick(s)}]>>]
      BY <3>1, <3>5
    <3> HIDE DEF more
    <3>7. Good(n, more)
      BY <3>4, <3>6
    <3> HIDE DEF Good
    <3>8. QED
      BY <1>3, <3>7
  <2>3. QED
    BY <2>1, <2>2
<1>4. Bad = {}
  <2>1. Bad \subseteq Nat
    OBVIOUS
  <2> HIDE DEF Bad
  <2>2. QED
    BY <1>2, <1>3, <2>1, NoLeastFailure
<1>5. Cardinality(S) \in Nat
  BY FS_CardinalityType
<1>6. PICK iter : Good(Cardinality(S), iter)
  <2> HIDE DEF Good
  <2>1. QED
    BY <1>4, <1>5
<1>7. Small(Cardinality(S)) = SUBSET S
  BY FS_Subset
<1>8. QED
  BY <1>6, <1>7 DEF FoldsTo

(* The sum of the values of f over S.                                      *)
SumOf(f, S) == MapThenSumSet(LAMBDA k : f[k], S)

SumsTo(sum, f, S) ==
    \A s \in SUBSET S : sum[s] = IF s = {} THEN 0
                                 ELSE f[Pick(s)] + sum[s \ {Pick(s)}]

(* It is the last of a series of sums, of natural numbers like f's.        *)
LEMMA SumFold ==
    ASSUME NEW S, IsFiniteSet(S), NEW f \in [S -> Nat]
    PROVE  \E sum \in [SUBSET S -> Nat] : SumOf(f, S) = sum[S] /\ SumsTo(sum, f, S)
<1> DEFINE G(iter) == [s \in SUBSET S |-> IF s = {} THEN 0
                                          ELSE f[Pick(s)] + iter[s \ {Pick(s)}]]
           sum == CHOOSE iter : iter = G(iter)
           Bad == {s \in SUBSET S : sum[s] \notin Nat}
<1>1. \A s \in SUBSET S : s # {} => Pick(s) \in s
  BY DEF Pick
<1>2. \E iter : iter = G(iter)
  <2> DEFINE step == [p \in S \X Nat |-> f[p[1]] + p[2]]
  <2>1. step \in [S \X Nat -> Nat] /\ 0 \in Nat
    OBVIOUS
  <2>2. \A x \in S, n \in Nat : step[<<x, n>>] = f[x] + n
    OBVIOUS
  <2> HIDE DEF step
  <2>3. PICK iter \in [SUBSET S -> Nat] : FoldsTo(iter, S, 0, step)
    <3>1. \E iter \in [SUBSET S -> Nat] : FoldsTo(iter, S, 0, step)
      BY <2>1, FoldExists
    <3>2. QED
      BY <3>1
  <2>4. \A s \in SUBSET S : iter[s] = IF s = {} THEN 0
                                     ELSE f[Pick(s)] + iter[s \ {Pick(s)}]
    BY <1>1, <2>2, <2>3 DEF FoldsTo
  <2>5. QED
    BY <2>3, <2>4
<1>3. sum = G(sum)
  <2> HIDE DEF G
  <2>1. QED
    BY <1>2
<1>4. ASSUME NEW s \in Bad
      PROVE  s # {} /\ s \ {Pick(s)} \in Bad
  <2> HIDE DEF sum
  <2>1. s \in SUBSET S /\ sum[s] \notin Nat
    OBVIOUS
  <2>2. sum[s] = IF s = {} THEN 0 ELSE f[Pick(s)] + sum[s \ {Pick(s)}]
    BY <1>3, <2>1
  <2>3. s # {} /\ Pick(s) \in S /\ s \ {Pick(s)} \in SUBSET S
    BY <1>1, <2>1, <2>2
  <2>4. QED
    BY <2>1, <2>2, <2>3
<1>5. Bad = {}
  <2>1. Bad \in SUBSET (SUBSET S)
    OBVIOUS
  <2> HIDE DEF Bad
  <2>2. QED
    BY <1>4, <2>1, NoSmallestFailure
<1>6. SumOf(f, S) = sum[S]
  BY DEF SumOf, MapThenSumSet, MapThenFoldSet, Pick
<1> HIDE DEF sum
<1>7. sum \in [SUBSET S -> Nat]
  <2>1. sum = [s \in SUBSET S |-> sum[s]]
    BY <1>3
  <2>2. \A s \in SUBSET S : sum[s] \in Nat
    BY <1>5
  <2>3. QED
    BY <2>1, <2>2
<1>8. SumsTo(sum, f, S)
  BY <1>3 DEF SumsTo
<1>9. QED
  BY <1>6, <1>7, <1>8

LEMMA SumType ==
    ASSUME NEW S, IsFiniteSet(S), NEW f \in [S -> Nat]
    PROVE  SumOf(f, S) \in Nat
<1>1. PICK sum \in [SUBSET S -> Nat] : SumOf(f, S) = sum[S] /\ SumsTo(sum, f, S)
  BY SumFold
<1>2. S \in SUBSET S
  OBVIOUS
<1>3. QED
  BY <1>1, <1>2

(* No part of a sum of zeros is anything but zero.                         *)
LEMMA SumZero ==
    ASSUME NEW S, IsFiniteSet(S), NEW f \in [S -> Nat], \A x \in S : f[x] = 0
    PROVE  SumOf(f, S) = 0
<1>1. PICK sum \in [SUBSET S -> Nat] : SumOf(f, S) = sum[S] /\ SumsTo(sum, f, S)
  BY SumFold
<1> DEFINE Bad == {s \in SUBSET S : sum[s] # 0}
<1>2. ASSUME NEW s \in Bad
      PROVE  s # {} /\ s \ {Pick(s)} \in Bad
  <2>1. s # {} => Pick(s) \in s
    BY DEF Pick
  <2>2. QED
    BY <1>1, <2>1 DEF SumsTo
<1>3. Bad = {}
  <2>1. Bad \in SUBSET (SUBSET S)
    OBVIOUS
  <2> HIDE DEF Bad
  <2>2. QED
    BY <1>2, <2>1, NoSmallestFailure
<1>4. QED
  BY <1>1, <1>3

(* A sum grows by the number of the places where its values grow by one.   *)
LEMMA SumGrows ==
    ASSUME NEW S, IsFiniteSet(S), NEW f \in [S -> Nat], NEW g \in [S -> Nat],
           NEW A \in SUBSET S,
           \A x \in S : g[x] = IF x \in A THEN f[x] + 1 ELSE f[x]
    PROVE  SumOf(g, S) = SumOf(f, S) + Cardinality(A)
<1>1. PICK old \in [SUBSET S -> Nat] : SumOf(f, S) = old[S] /\ SumsTo(old, f, S)
  BY SumFold
<1>2. PICK new \in [SUBSET S -> Nat] : SumOf(g, S) = new[S] /\ SumsTo(new, g, S)
  BY SumFold
<1> DEFINE part(s) == Cardinality(A \cap s)
           Bad == {s \in SUBSET S : new[s] # old[s] + part(s)}
<1>3. ASSUME NEW s \in SUBSET S
      PROVE  /\ part(s) \in Nat
             /\ s = {} => part(s) = 0
             /\ s # {} => part(s) = IF Pick(s) \in A THEN part(s \ {Pick(s)}) + 1
                                    ELSE part(s \ {Pick(s)})
  <2>1. IsFiniteSet(A \cap s) /\ part(s) \in Nat
    BY FS_Subset, FS_CardinalityType
  <2>2. s = {} => part(s) = 0
    <3>1. s = {} => A \cap s = {}
      OBVIOUS
    <3>2. QED
      BY <3>1, FS_EmptySet
  <2>3. ASSUME s # {}, NEW x \in s
        PROVE  part(s) = IF x \in A THEN part(s \ {x}) + 1 ELSE part(s \ {x})
    <3>1. CASE x \in A
      <4>1. A \cap (s \ {x}) = (A \cap s) \ {x} /\ x \in A \cap s
        BY <3>1
      <4>2. Cardinality((A \cap s) \ {x}) = part(s) - 1
        BY <2>1, <4>1, FS_RemoveElement
      <4> DEFINE p == part(s)
                 q == part(s \ {x})
      <4>3. p \in Nat /\ q = p - 1
        BY <2>1, <4>1, <4>2
      <4> HIDE DEF p, q
      <4>4. p = q + 1
        BY <4>3
      <4>5. QED
        BY <3>1, <4>4 DEF p, q
    <3>2. CASE x \notin A
      <4>1. A \cap (s \ {x}) = A \cap s
        BY <3>2
      <4>2. QED
        BY <3>2, <4>1
    <3>3. QED
      BY <3>1, <3>2
  <2>4. s # {} => Pick(s) \in s
    BY DEF Pick
  <2> HIDE DEF part
  <2>5. QED
    BY <2>1, <2>2, <2>3, <2>4 DEF part
<1> HIDE DEF part
<1>4. ASSUME NEW s \in Bad
      PROVE  s # {} /\ s \ {Pick(s)} \in Bad
  <2>1. s \in SUBSET S /\ new[s] # old[s] + part(s)
    OBVIOUS
  <2>2. s # {}
    <3> SUFFICES ASSUME s = {} PROVE FALSE
      OBVIOUS
    <3>1. old[s] = 0 /\ new[s] = 0
      BY <1>1, <1>2, <2>1 DEF SumsTo
    <3>2. QED
      BY <1>3, <2>1, <3>1
  <2> DEFINE x == Pick(s)
             r == s \ {Pick(s)}
  <2>3. x \in S /\ r \in SUBSET S
    BY <2>2 DEF Pick
  <2>4. new[s] = g[x] + new[r] /\ old[s] = f[x] + old[r]
    BY <1>1, <1>2, <2>1, <2>2 DEF SumsTo
  <2>5. part(s) = IF x \in A THEN part(r) + 1 ELSE part(r)
    BY <1>3, <2>1, <2>2
  <2> HIDE DEF x, r
  <2>6. /\ new[r] \in Nat /\ old[r] \in Nat /\ part(r) \in Nat
        /\ f[x] \in Nat /\ g[x] = IF x \in A THEN f[x] + 1 ELSE f[x]
    BY <1>3, <2>3
  <2>7. new[r] # old[r] + part(r)
    BY <2>1, <2>4, <2>5, <2>6
  <2>8. QED
    BY <2>2, <2>3, <2>7 DEF r
<1>5. Bad = {}
  <2>1. Bad \in SUBSET (SUBSET S)
    OBVIOUS
  <2> HIDE DEF Bad
  <2>2. QED
    BY <1>4, <2>1, NoSmallestFailure
<1>6. A \cap S = A /\ S \in SUBSET S
  OBVIOUS
<1>7. new[S] = old[S] + part(S)
  BY <1>5, <1>6
<1>8. QED
  BY <1>1, <1>2, <1>6, <1>7 DEF part

(* A series in which each member is made of the one before exists.         *)
IsChain(chain, n, base, next) ==
    \A k \in 0 .. n : chain[k] = IF k = 0 THEN base ELSE next[<<k, chain[k - 1]>>]

LEMMA ChainExists ==
    ASSUME NEW n \in Nat, NEW V, NEW base \in V, NEW next \in [(1 .. n) \X V -> V]
    PROVE  \E chain \in [0 .. n -> V] : IsChain(chain, n, base, next)
<1> DEFINE Good(m, chain) ==
               /\ chain \in [0 .. m -> V]
               /\ \A k \in 0 .. m : chain[k] = IF k = 0 THEN base
                                               ELSE next[<<k, chain[k - 1]>>]
           Bad == {m \in 0 .. n : ~\E chain : Good(m, chain)}
<1>1. 0 \notin Bad
  <2>1. Good(0, [k \in 0 .. 0 |-> base])
    OBVIOUS
  <2> HIDE DEF Good
  <2>2. QED
    BY <2>1
<1>2. ASSUME NEW m \in Bad
      PROVE  m - 1 \in Bad
  <2>1. m \in 1 .. n /\ m - 1 \in 0 .. n
    <3> HIDE DEF Good
    <3>1. m \in 0 .. n /\ m # 0
      BY <1>1
    <3>2. QED
      BY <3>1
  <2>2. ASSUME NEW chain, Good(m - 1, chain)
        PROVE  FALSE
    <3> DEFINE last == next[<<m, chain[m - 1]>>]
               more == [k \in 0 .. m |-> IF k = m THEN last ELSE chain[k]]
    <3>1. /\ \A k \in 0 .. m : k = m \/ k \in 0 .. m - 1
          /\ \A k \in 0 .. m : k # 0 => k - 1 \in 0 .. m - 1 /\ k - 1 # m
          /\ \A k \in 0 .. m - 1 : k \in 0 .. m /\ k # m
          /\ m # 0 /\ m - 1 \in 0 .. m - 1
      BY <2>1
    <3>2. last \in V
      BY <2>1, <2>2, <3>1
    <3>3. more \in [0 .. m -> V]
      <4> HIDE DEF last
      <4>1. QED
        BY <2>2, <3>1, <3>2
    <3>4. more[m] = last /\ \A k \in 0 .. m - 1 : more[k] = chain[k]
      <4> HIDE DEF last
      <4>1. QED
        BY <2>1, <3>1
    <3> HIDE DEF more
    <3>5. ASSUME NEW k \in 0 .. m
          PROVE  more[k] = IF k = 0 THEN base ELSE next[<<k, more[k - 1]>>]
      BY <2>2, <3>1, <3>4
    <3>6. Good(m, more)
      BY <3>3, <3>5
    <3> HIDE DEF Good
    <3>7. QED
      BY <1>2, <3>6
  <2>3. QED
    BY <2>1, <2>2
<1>3. Bad = {}
  <2>1. Bad \in SUBSET Nat
    OBVIOUS
  <2>2. ASSUME NEW m \in Bad
        PROVE  m # 0 /\ m - 1 \in Bad
    BY <1>1, <1>2
  <2> HIDE DEF Bad
  <2>3. QED
    BY <2>1, <2>2, NoLeastFailure
<1>4. n \in 0 .. n
  OBVIOUS
<1> HIDE DEF Good
<1>5. PICK chain : Good(n, chain)
  BY <1>3, <1>4
<1>6. QED
  BY <1>5 DEF Good, IsChain
===============================================================================
