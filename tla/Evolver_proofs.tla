---------------------------- MODULE Evolver_proofs ----------------------------
(***************************************************************************)
(* Proofs about the evolver.  The invariant IInv is what the loops of      *)
(* main() and breed() rely on: who is in the population and whose child,   *)
(* what every warrior waits for and has earned, how much of the population *)
(* has been looked at, and how far breed() is.  It is kept by every        *)
(* action (<action>Keeps), and each invariant the runs check follows.      *)
(***************************************************************************)
EXTENDS Evolver, DataLemmas, FiniteSetTheorems, SequenceTheorems

-----------------------------------------------------------------------------
(* The order of the population, and the benchmarks that are entered.       *)

(* The number of rank n in an interval from 1 is n.                        *)
LEMMA NthOfInterval ==
    ASSUME NEW m \in Nat, NEW n \in 1 .. m
    PROVE  Nth(1 .. m, n) = n
<1>1. ASSUME NEW b \in 1 .. m
      PROVE  Rank(b, 1 .. m) = b
  <2>1. UpTo(b, 1 .. m) = 1 .. b
    BY DEF UpTo
  <2>2. b \in Int /\ 1 \in Int /\ b >= 1
    OBVIOUS
  <2>3. Cardinality(1 .. b) = b
    BY <2>2, FS_Interval
  <2>4. QED
    BY <2>1, <2>3 DEF Rank
<1>2. Nth(1 .. m, n) = CHOOSE b \in 1 .. m : Rank(b, 1 .. m) = n
  BY DEF Nth, Rank, UpTo
<1>3. QED
  BY <1>1, <1>2

(* The size of an interval.                                                *)
LEMMA IntervalSize ==
    ASSUME NEW a \in Int, NEW b \in Int, a <= b + 1
    PROVE  IsFiniteSet(a .. b) /\ Cardinality(a .. b) = b - a + 1
<1>1. IsFiniteSet(a .. b) /\ Cardinality(a .. b) = IF a > b THEN 0 ELSE b - a + 1
  BY FS_Interval
<1>2. QED
  BY <1>1

(* Sequences without repetitions.                                          *)
LEMMA SeqFacts ==
    ASSUME NEW V, NEW s \in Seq(V)
    PROVE  /\ Len(s) \in Nat /\ DOMAIN s = 1 .. Len(s)
           /\ \A k \in 1 .. Len(s) : s[k] \in V /\ s[k] \in ToSet(s)
           /\ \A x \in ToSet(s) : x \in V /\ \E k \in 1 .. Len(s) : x = s[k]
  BY DEF ToSet

(* What a sequence is without its last member ...                          *)
LEMMA FrontFacts ==
    ASSUME NEW V, NEW s \in Seq(V), s # <<>>
    PROVE  /\ Len(s) \in Nat \ {0} /\ Last(s) = s[Len(s)] /\ Last(s) \in V
           /\ Front(s) \in Seq(V) /\ Len(Front(s)) = Len(s) - 1
           /\ \A k \in 1 .. Len(s) - 1 : Front(s)[k] = s[k]
           /\ ToSet(s) = ToSet(Front(s)) \cup {Last(s)}
           /\ IsInjective(s) => IsInjective(Front(s)) /\ Last(s) \notin ToSet(Front(s))
<1>1. Len(s) \in Nat \ {0} /\ Last(s) = s[Len(s)] /\ Last(s) \in V
      /\ DOMAIN s = 1 .. Len(s)
  BY DEF Last
<1>2. /\ Front(s) \in Seq(V) /\ Len(Front(s)) = Len(s) - 1
      /\ DOMAIN Front(s) = 1 .. Len(s) - 1
      /\ \A k \in 1 .. Len(s) - 1 : Front(s)[k] = s[k]
  BY <1>1 DEF Front
<1>3. ToSet(s) = ToSet(Front(s)) \cup {Last(s)}
  <2> DEFINE n == Len(s)
  <2>1. n \in Nat \ {0}
    BY <1>1
  <2> HIDE DEF n
  <2>2. /\ \A k \in 1 .. n : k \in 1 .. n - 1 \/ k = n
        /\ \A k \in 1 .. n - 1 : k \in 1 .. n
        /\ n \in 1 .. n
    BY <2>1
  <2>3. QED
    BY <1>1, <1>2, <2>2 DEF ToSet, n
<1>4. ASSUME IsInjective(s)
      PROVE  IsInjective(Front(s)) /\ Last(s) \notin ToSet(Front(s))
  BY <1>1, <1>2, <1>4 DEF IsInjective, ToSet
<1>5. QED
  BY <1>1, <1>2, <1>3, <1>4

(* ... and with another member at its end.                                 *)
LEMMA AppendFacts ==
    ASSUME NEW V, NEW s \in Seq(V), NEW x \in V
    PROVE  /\ Append(s, x) \in Seq(V) /\ Len(Append(s, x)) = Len(s) + 1
           /\ \A k \in 1 .. Len(s) : Append(s, x)[k] = s[k]
           /\ Append(s, x)[Len(s) + 1] = x
           /\ ToSet(Append(s, x)) = ToSet(s) \cup {x}
           /\ IsInjective(s) /\ x \notin ToSet(s) => IsInjective(Append(s, x))
<1> DEFINE t == Append(s, x)
<1>1. /\ Len(s) \in Nat /\ DOMAIN s = 1 .. Len(s) /\ t \in Seq(V)
      /\ Len(t) = Len(s) + 1 /\ DOMAIN t = 1 .. Len(s) + 1
      /\ \A k \in 1 .. Len(s) : t[k] = s[k]
      /\ t[Len(s) + 1] = x
  OBVIOUS
<1> HIDE DEF t
<1>2. \A k \in 1 .. Len(s) + 1 : k \in 1 .. Len(s) \/ k = Len(s) + 1
  BY <1>1
<1>3. 1 .. Len(s) \subseteq 1 .. Len(s) + 1 /\ Len(s) + 1 \in 1 .. Len(s) + 1
  BY <1>1
<1>4. ToSet(t) = ToSet(s) \cup {x}
  BY <1>1, <1>2, <1>3 DEF ToSet
<1>5. ASSUME IsInjective(s), x \notin ToSet(s)
      PROVE  IsInjective(t)
  BY <1>1, <1>2, <1>5 DEF IsInjective, ToSet
<1>6. QED
  BY <1>1, <1>4, <1>5 DEF t

(* A sequence without repetitions that draws on such a sequence of the     *)
(* same length is a permutation of it.                                     *)
LEMMA Permutes ==
    ASSUME NEW V, NEW s \in Seq(V), NEW t \in Seq(ToSet(s)), Len(t) = Len(s),
           IsInjective(s), IsInjective(t)
    PROVE  ToSet(t) = ToSet(s)
<1> DEFINE n == Len(s)
<1>1. n \in Nat /\ DOMAIN s = 1 .. n /\ DOMAIN t = 1 .. n /\ IsFiniteSet(1 .. n)
      /\ t \in [1 .. n -> ToSet(s)] /\ s \in [1 .. n -> ToSet(s)]
  <2>1. n \in Nat /\ DOMAIN s = 1 .. n /\ DOMAIN t = 1 .. n
    OBVIOUS
  <2>2. t \in [1 .. n -> ToSet(s)]
    OBVIOUS
  <2>3. s \in [1 .. n -> ToSet(s)]
    BY DEF ToSet
  <2>4. IsFiniteSet(1 .. n)
    BY <2>1, PartOfInterval
  <2>5. QED
    BY <2>1, <2>2, <2>3, <2>4
<1> HIDE DEF n
<1>2. s \in Bijection(1 .. n, ToSet(s))
  BY <1>1 DEF Bijection, Injection, Surjection, IsInjective, ToSet
<1>3. ExistsBijection(1 .. n, ToSet(s))
  BY <1>2 DEF ExistsBijection
<1>4. IsFiniteSet(ToSet(s)) /\ Cardinality(ToSet(s)) = Cardinality(1 .. n)
  BY <1>1, <1>3, FS_Bijection
<1>5. t \in Injection(1 .. n, ToSet(s))
  BY <1>1 DEF Injection, IsInjective
<1>6. t \in Surjection(1 .. n, ToSet(s))
  BY <1>4, <1>5, FS_Injection
<1>7. \A x \in ToSet(s) : \E k \in 1 .. n : t[k] = x
  BY <1>6, Zenon DEF Surjection
<1>8. ToSet(t) \subseteq ToSet(s)
  <2>1. \A k \in DOMAIN t : t[k] \in ToSet(s)
    BY <1>1
  <2>2. QED
    BY <2>1, Zenon DEF ToSet
<1>9. ToSet(s) \subseteq ToSet(t)
  <2>1. \A x \in ToSet(s) : \E k \in DOMAIN t : t[k] = x
    BY <1>1, <1>7
  <2>2. QED
    BY <2>1, Zenon DEF ToSet
<1>10. QED
  BY <1>8, <1>9

(* The sequence that sort() makes: m of the places keep the first members  *)
(* of s in their order, the others take the other members in any order.    *)
Merged(s, places, others) ==
    [k \in DOMAIN s |-> IF k \in places THEN s[Rank(k, places)]
                        ELSE others[Rank(k, DOMAIN s \ places)]]

(* Whatever the places and the order of the others, nobody is lost.        *)
LEMMA MergedPermutes ==
    ASSUME NEW V, NEW s \in Seq(V), IsInjective(s), NEW m \in 0 .. Len(s),
           NEW places \in kSubset(m, DOMAIN s),
           NEW others \in SetToSeqs({s[k] : k \in m + 1 .. Len(s)})
    PROVE  /\ Merged(s, places, others) \in Seq(V)
           /\ Len(Merged(s, places, others)) = Len(s)
           /\ IsInjective(Merged(s, places, others))
           /\ ToSet(Merged(s, places, others)) = ToSet(s)
<1> DEFINE n == Len(s)
           free == (1 .. n) \ places
           rest == {s[k] : k \in m + 1 .. n}
           t == Merged(s, places, others)
<1>1. /\ n \in Nat /\ DOMAIN s = 1 .. n /\ m \in Nat /\ m <= n
      /\ places \in SUBSET (1 .. n) /\ Cardinality(places) = m
      /\ \A k \in 1 .. n : s[k] \in V
      /\ \A j, k \in 1 .. n : s[j] = s[k] => j = k
  BY DEF kSubset, IsInjective
<1>2. /\ others \in [1 .. Cardinality(rest) -> rest]
      /\ \A j, k \in 1 .. Cardinality(rest) : j # k => others[j] # others[k]
  BY DEF SetToSeqs
<1>3. Cardinality(free) = n - m
  <2> HIDE DEF n
  <2>1. IsFiniteSet(1 .. n) /\ Cardinality(1 .. n) = n - 1 + 1
    <3>1. n \in Int /\ 1 \in Int /\ 1 <= n + 1
      BY <1>1
    <3>2. QED
      BY <3>1, IntervalSize
  <2>2. (1 .. n) \cap places = places
    BY <1>1
  <2>3. Cardinality(free) = Cardinality(1 .. n) - Cardinality((1 .. n) \cap places)
    BY <2>1, FS_Difference
  <2>4. Cardinality(free) = Cardinality(1 .. n) - Cardinality(places)
    BY <2>2, <2>3
  <2>5. Cardinality(1 .. n) = n /\ Cardinality(places) = m
    BY <1>1, <2>1
  <2> HIDE DEF free
  <2>6. QED
    BY <2>4, <2>5
<1>4. Cardinality(rest) = n - m
  <2> DEFINE f == [k \in m + 1 .. n |-> s[k]]
  <2> HIDE DEF n
  <2>1. \A k \in m + 1 .. n : k \in 1 .. n
    BY <1>1
  <2>2. f \in Bijection(m + 1 .. n, rest)
    BY <1>1, <2>1 DEF Bijection, Injection, Surjection, IsInjective
  <2> HIDE DEF f, rest
  <2>3. ExistsBijection(m + 1 .. n, rest)
    BY <2>2 DEF ExistsBijection
  <2>4. IsFiniteSet(m + 1 .. n) /\ Cardinality(m + 1 .. n) = n - (m + 1) + 1
    <3>1. n \in Int /\ m + 1 \in Int /\ m + 1 <= n + 1
      BY <1>1
    <3>2. QED
      BY <3>1, IntervalSize
  <2>5. Cardinality(rest) = Cardinality(m + 1 .. n)
    BY <2>3, <2>4, FS_Bijection
  <2>6. QED
    BY <1>1, <2>4, <2>5
<1>5. /\ \A k \in places : Rank(k, places) \in 1 .. m
      /\ \A j, k \in places : j # k => Rank(j, places) # Rank(k, places)
  BY <1>1, RankType, RankInjective
<1>6. /\ \A k \in free : Rank(k, free) \in 1 .. n - m
      /\ \A j, k \in free : j # k => Rank(j, free) # Rank(k, free)
  <2>1. free \in SUBSET (1 .. n)
    OBVIOUS
  <2> HIDE DEF free
  <2>2. QED
    BY <1>1, <1>3, <2>1, RankType, RankInjective
<1>7. /\ DOMAIN t = 1 .. n
      /\ \A k \in places : t[k] = s[Rank(k, places)]
      /\ \A k \in free : t[k] = others[Rank(k, free)]
  BY <1>1 DEF Merged
<1>8. \A k \in places : t[k] \in {s[j] : j \in 1 .. m}
  BY <1>5, <1>7
<1>9. \A k \in free : t[k] \in rest
  <2> HIDE DEF rest, t, free
  <2>1. QED
    BY <1>2, <1>4, <1>6, <1>7
<1>10. {s[j] : j \in 1 .. m} \cap rest = {}
  <2>1. ASSUME NEW j \in 1 .. m, NEW k \in m + 1 .. n
        PROVE  s[j] # s[k]
    BY <1>1
  <2>2. QED
    BY <2>1
<1>11. {s[j] : j \in 1 .. m} \subseteq ToSet(s) /\ rest \subseteq ToSet(s)
  <2>1. /\ \A j \in 1 .. m : j \in 1 .. n
        /\ \A j \in m + 1 .. n : j \in 1 .. n
    BY <1>1
  <2>2. QED
    BY <1>1, <2>1 DEF ToSet
<1>12. \A k \in 1 .. n : k \in places \/ k \in free
  OBVIOUS
<1>13. ASSUME NEW j \in 1 .. n, NEW k \in 1 .. n, j # k
       PROVE  t[j] # t[k]
  <2> HIDE DEF free, rest, t
  <2>1. CASE j \in places /\ k \in places
    <3>1. Rank(j, places) \in 1 .. n /\ Rank(k, places) \in 1 .. n
      BY <1>1, <1>5, <2>1
    <3>2. QED
      BY <1>1, <1>5, <1>7, <1>13, <2>1, <3>1
  <2>2. CASE j \in free /\ k \in free
    BY <1>2, <1>4, <1>6, <1>7, <1>13, <2>2
  <2>3. CASE j \in places /\ k \in free
    BY <1>8, <1>9, <1>10, <2>3
  <2>4. CASE j \in free /\ k \in places
    BY <1>8, <1>9, <1>10, <2>4
  <2>5. QED
    BY <1>12, <2>1, <2>2, <2>3, <2>4
<1>14. \A k \in 1 .. n : t[k] \in ToSet(s)
  <2> HIDE DEF free, rest, t
  <2>1. QED
    BY <1>8, <1>9, <1>11, <1>12
<1>15. t = [k \in 1 .. n |-> t[k]]
  BY <1>1 DEF Merged
<1> HIDE DEF free, rest, t
<1>16. t \in Seq(ToSet(s)) /\ Len(t) = n
  BY <1>1, <1>14, <1>15
<1>17. IsInjective(t)
  BY <1>7, <1>13 DEF IsInjective
<1>18. ToSet(t) = ToSet(s)
  BY <1>16, <1>17, Permutes
<1>19. t \in Seq(V)
  <2>1. ToSet(s) \subseteq V
    BY <1>1 DEF ToSet
  <2>2. QED
    BY <1>16, <2>1, SeqMonotonic
<1>20. QED
  BY <1>16, <1>17, <1>18, <1>19 DEF t

-----------------------------------------------------------------------------
(* The scores and the battles.                                             *)

USE FoundersAssumption, ChildrenAssumption, MaxGenerationsAssumption,
    BenchmarksAssumption, RoundsAssumption

Entry  == [pending : 0 .. NEnemies, score : Nat, normalised : 0 .. Scale]
Scored == {<<>>} \cup [Benchmarks -> Entry]
Report == [warrior : Uid, benchmark : Benchmarks, result : Outcomes]

ScoreTypes ==
    /\ Len(heritage) \in Nat
    /\ score \in Seq(Scored) /\ Len(score) = Len(heritage)
    /\ battles \in Seq(Report)

(* The reports that warrior w waits for from benchmark b.                  *)
For(w, b) == [warrior : {w}, benchmark : {b}, result : Outcomes]

Scores ==
    /\ ScoreTypes
    /\ \A w \in Uid : \A b \in DOMAIN score[w] :
          /\ score[w][b].pending = Count(battles, For(w, b))
          /\ score[w][b].score <= 3 * Rounds * (NEnemies - score[w][b].pending)
    /\ \A k \in DOMAIN battles :
          battles[k].benchmark \in DOMAIN score[battles[k].warrior]

(* What a warrior that has no score yet is given, and the battles it is    *)
(* scheduled for.                                                          *)
Fresh == [b \in Benchmarks |-> [pending |-> NEnemies, score |-> 0, normalised |-> 0]]
Results == [Benchmarks \X (1 .. NEnemies) -> Outcomes]
Program(w, result) ==
    [k \in 1 .. NBenchmarks * NEnemies |->
        [warrior |-> w, benchmark |-> (k - 1) \div NEnemies + 1,
         result |-> result[<<(k - 1) \div NEnemies + 1, ((k - 1) % NEnemies) + 1>>]]]

LEMMA EmptyRange ==
    ASSUME NEW V, NEW s \in Seq(V), NEW f, f = [k \in 1 .. 0 |-> f[k]]
    PROVE  s \o f = s
<1>1. f \in Seq(V) /\ Len(f) = 0
  OBVIOUS
<1>2. f = <<>>
  BY <1>1
<1>3. QED
  BY <1>2, ConcatEmptySeq

(* A warrior has a score for every benchmark or for none.                  *)
LEMMA ScoredType ==
    ASSUME NEW x \in Scored
    PROVE  /\ DOMAIN x \in {{}, Benchmarks}
           /\ DOMAIN x = {} <=> x = <<>>
           /\ x # <<>> => x \in [Benchmarks -> Entry] /\ DOMAIN x = Benchmarks
<1>1. Benchmarks # {}
  BY DEF Benchmarks
<1>2. CASE x = <<>>
  BY <1>1, <1>2
<1>3. CASE x \in [Benchmarks -> Entry]
  BY <1>1, <1>3
<1>4. QED
  BY <1>2, <1>3 DEF Scored

LEMMA ProgramType ==
    ASSUME Len(heritage) \in Nat, NEW w \in Uid,
           NEW result \in Results
    PROVE  /\ Program(w, result) \in Seq(Report)
           /\ Len(Program(w, result)) = NBenchmarks * NEnemies
           /\ \A k \in 1 .. NBenchmarks * NEnemies :
                 /\ (k - 1) \div NEnemies + 1 \in Benchmarks
                 /\ Program(w, result)[k] \in For(w, (k - 1) \div NEnemies + 1)
<1>1. NBenchmarks * NEnemies \in Nat
  OBVIOUS
<1>2. ASSUME NEW k \in 1 .. NBenchmarks * NEnemies
      PROVE  /\ (k - 1) \div NEnemies + 1 \in Benchmarks
             /\ ((k - 1) % NEnemies) + 1 \in 1 .. NEnemies
  <2>1. k - 1 \in Nat /\ k - 1 < NBenchmarks * NEnemies
    BY <1>1
  <2>2. (k - 1) \div NEnemies \in 0 .. NBenchmarks - 1
    BY <2>1, BlockBound
  <2>3. (k - 1) % NEnemies \in 0 .. NEnemies - 1
    BY <2>1, DivModType
  <2>4. QED
    BY <2>2, <2>3 DEF Benchmarks
<1> DEFINE value(k) ==
              [warrior |-> w, benchmark |-> (k - 1) \div NEnemies + 1,
               result |-> result[<<(k - 1) \div NEnemies + 1, ((k - 1) % NEnemies) + 1>>]]
<1>3. ASSUME NEW k \in 1 .. NBenchmarks * NEnemies
      PROVE  value(k) \in Report /\ value(k) \in For(w, (k - 1) \div NEnemies + 1)
  <2> DEFINE b == (k - 1) \div NEnemies + 1
             e == ((k - 1) % NEnemies) + 1
  <2>1. b \in Benchmarks /\ e \in 1 .. NEnemies
    BY <1>2
  <2> HIDE DEF b, e
  <2>2. result[<<b, e>>] \in Outcomes
    BY <2>1 DEF Results
  <2>3. [warrior |-> w, benchmark |-> b, result |-> result[<<b, e>>]] \in Report
    BY <2>1, <2>2 DEF Report
  <2>4. [warrior |-> w, benchmark |-> b, result |-> result[<<b, e>>]] \in For(w, b)
    BY <2>1, <2>2 DEF For
  <2>5. QED
    BY <2>3, <2>4 DEF b, e
<1>4. Program(w, result) = [k \in 1 .. NBenchmarks * NEnemies |-> value(k)]
  BY DEF Program
<1> HIDE DEF value
<1>5. QED
  BY <1>1, <1>2, <1>3, <1>4

(* A program has NEnemies battles for each benchmark, and all are w's.     *)
LEMMA ProgramCount ==
    ASSUME Len(heritage) \in Nat, NEW w \in Uid,
           NEW result \in Results,
           NEW v \in Uid, NEW b \in Benchmarks
    PROVE  /\ v = w => Count(Program(w, result), For(v, b)) = NEnemies
           /\ v # w => Count(Program(w, result), For(v, b)) = 0
<1> DEFINE p == Program(w, result)
           n == NBenchmarks * NEnemies
<1>1. /\ n \in Nat /\ DOMAIN p = 1 .. n
      /\ \A k \in 1 .. n : /\ (k - 1) \div NEnemies + 1 \in Benchmarks
                           /\ p[k] \in For(w, (k - 1) \div NEnemies + 1)
  <2>1. /\ p \in Seq(Report) /\ Len(p) = n
        /\ \A k \in 1 .. n : /\ (k - 1) \div NEnemies + 1 \in Benchmarks
                             /\ p[k] \in For(w, (k - 1) \div NEnemies + 1)
    BY ProgramType, Zenon
  <2>2. n \in Nat
    OBVIOUS
  <2> HIDE DEF p, n
  <2>3. DOMAIN p = 1 .. n
    BY <2>1, <2>2
  <2>4. QED
    BY <2>1, <2>2, <2>3
<1> HIDE DEF p, n
<1>2. \A k \in 1 .. n : p[k] \in For(v, b) <=> v = w /\ (k - 1) \div NEnemies + 1 = b
  BY <1>1 DEF For
<1>3. CASE v # w
  <2>1. Where(p, For(v, b)) = {}
    BY <1>1, <1>2, <1>3 DEF Where
  <2>2. QED
    BY <1>3, <2>1, FS_EmptySet DEF Count, p
<1>4. CASE v = w
  <2> DEFINE low == (b - 1) * NEnemies + 1
             high == b * NEnemies
  <2>1. /\ low \in Int /\ high \in Int /\ low >= 1 /\ high <= n /\ high - low + 1 = NEnemies
    BY BlockInterval DEF Benchmarks, n
  <2>2. ASSUME NEW k \in 1 .. n
        PROVE  (k - 1) \div NEnemies + 1 = b <=> k \in low .. high
    <3>1. k - 1 \in Nat /\ b - 1 \in Int /\ k \in Int /\ b \in Int
      BY <1>1 DEF Benchmarks
    <3>2. (k - 1) \div NEnemies = b - 1 <=>
             NEnemies * (b - 1) <= k - 1 /\ k - 1 < NEnemies * (b - 1) + NEnemies
      BY <3>1, InBlock
    <3>3. NEnemies * (b - 1) = low - 1 /\ NEnemies * (b - 1) + NEnemies = high
      <4>1. NEnemies * (b - 1) = (b - 1) * NEnemies /\ NEnemies * (b - 1) \in Int
        BY <3>1
      <4>2. (b - 1) * NEnemies = b * NEnemies - NEnemies
        BY DEF Benchmarks
      <4>3. QED
        BY <4>1, <4>2, <2>1
    <3>4. (k - 1) \div NEnemies \in Int
      BY <3>1, DivModType
    <3> DEFINE d == (k - 1) \div NEnemies
    <3> HIDE DEF low, high, d
    <3>5. d = b - 1 <=> low - 1 <= k - 1 /\ k - 1 < high
      BY <3>2, <3>3 DEF d
    <3>6. d \in Int
      BY <3>4 DEF d
    <3>7. d + 1 = b <=> k \in low .. high
      BY <2>1, <3>1, <3>5, <3>6
    <3>8. QED
      BY <3>7 DEF d
  <2> HIDE DEF low, high
  <2>3. Where(p, For(v, b)) = low .. high
    BY <1>1, <1>2, <1>4, <2>1, <2>2 DEF Where
  <2>4. Cardinality(low .. high) = NEnemies
    BY <2>1, FS_Interval
  <2>5. QED
    BY <1>4, <2>3, <2>4 DEF Count, p
<1>5. QED
  BY <1>3, <1>4

(* What fight() does depends only on whether it was called before.         *)
LEMMA FightEnters ==
    ASSUME ScoreTypes, NEW w \in Uid, Fight(w)
    PROVE  \/ score[w] # <<>> /\ score' = score /\ battles' = battles
           \/ /\ score[w] = <<>> /\ score' = [score EXCEPT ![w] = Fresh]
              /\ \E result \in Results :
                    battles' = battles \o Program(w, result)
<1> DEFINE new == Benchmarks \ DOMAIN score[w]
<1>1. score[w] \in Scored /\ w \in DOMAIN score /\ battles \in Seq(Report)
  BY DEF ScoreTypes, Uid
<1>2. PICK result \in [new \X (1 .. NEnemies) -> Outcomes] :
        /\ score' = [score EXCEPT ![w] =
              [b \in new \cup DOMAIN score[w] |->
                  IF b \in new THEN [pending |-> NEnemies, score |-> 0,
                                     normalised |-> 0]
                  ELSE score[w][b]]]
        /\ battles' = battles \o
              [k \in 1 .. Cardinality(new) * NEnemies |->
                  LET b == Nth(new, (k - 1) \div NEnemies + 1)
                      e == ((k - 1) % NEnemies) + 1
                  IN  [warrior |-> w, benchmark |-> b, result |-> result[<<b, e>>]]]
  BY DEF Fight
<1>3. CASE score[w] # <<>>
  <2>1. DOMAIN score[w] = Benchmarks /\ score[w] \in [Benchmarks -> Entry]
    BY <1>1, <1>3, ScoredType
  <2>2. new = {}
    BY <2>1
  <2> HIDE DEF new
  <2>3. [b \in new \cup DOMAIN score[w] |->
                  IF b \in new THEN [pending |-> NEnemies, score |-> 0,
                                     normalised |-> 0]
                  ELSE score[w][b]] = score[w]
    BY <2>1, <2>2
  <2>4. score' = score
    BY <1>1, <1>2, <2>3 DEF ScoreTypes
  <2>5. Cardinality(new) * NEnemies = 0
    BY <2>2, FS_EmptySet
  <2> DEFINE f == [k \in 1 .. Cardinality(new) * NEnemies |->
                  LET b == Nth(new, (k - 1) \div NEnemies + 1)
                      e == ((k - 1) % NEnemies) + 1
                  IN  [warrior |-> w, benchmark |-> b, result |-> result[<<b, e>>]]]
  <2>6. f = [k \in 1 .. 0 |-> f[k]]
    BY <2>5
  <2>7. battles' = battles \o f
    BY <1>2
  <2> HIDE DEF f
  <2>8. battles' = battles
    BY <1>1, <2>6, <2>7, EmptyRange
  <2>9. QED
    BY <1>3, <2>4, <2>8
<1>4. CASE score[w] = <<>>
  <2>1. DOMAIN score[w] = {}
    BY <1>4
  <2>2. new = Benchmarks
    BY <2>1
  <2>3. Cardinality(Benchmarks) = NBenchmarks
    BY FS_Interval DEF Benchmarks
  <2> HIDE DEF new
  <2>4. score' = [score EXCEPT ![w] = Fresh]
    <3>1. [b \in new \cup DOMAIN score[w] |->
                  IF b \in new THEN [pending |-> NEnemies, score |-> 0,
                                     normalised |-> 0]
                  ELSE score[w][b]] = Fresh
      BY <2>1, <2>2 DEF Fresh
    <3>2. QED
      BY <1>2, <3>1
  <2>5. \A k \in 1 .. NBenchmarks * NEnemies :
           Nth(Benchmarks, (k - 1) \div NEnemies + 1) = (k - 1) \div NEnemies + 1
    <3>1. ASSUME NEW k \in 1 .. NBenchmarks * NEnemies
          PROVE  (k - 1) \div NEnemies + 1 \in 1 .. NBenchmarks
      <4>1. k - 1 \in Nat /\ k - 1 < NBenchmarks * NEnemies
        OBVIOUS
      <4>2. (k - 1) \div NEnemies \in 0 .. NBenchmarks - 1
        BY <4>1, BlockBound
      <4>3. QED
        BY <4>2
    <3>2. QED
      BY <3>1, NthOfInterval DEF Benchmarks
  <2>6. battles' = battles \o Program(w, result)
    <3>1. [k \in 1 .. Cardinality(new) * NEnemies |->
                  LET b == Nth(new, (k - 1) \div NEnemies + 1)
                      e == ((k - 1) % NEnemies) + 1
                  IN  [warrior |-> w, benchmark |-> b, result |-> result[<<b, e>>]]]
             = Program(w, result)
      BY <2>2, <2>3, <2>5 DEF Program
    <3>2. QED
      BY <1>2, <3>1
  <2>7. result \in Results
    BY <2>2 DEF Results
  <2>8. QED
    BY <1>4, <2>4, <2>6, <2>7
<1>5. QED
  BY <1>3, <1>4

LEMMA ScoresFrame ==
    ASSUME Scores, UNCHANGED <<heritage, score, battles>>
    PROVE  Scores'
  BY DEF Scores, ScoreTypes, Report, Uid

(* What is known of a warrior and a benchmark that entered it.             *)
LEMMA EntryKnown ==
    ASSUME Scores, NEW w \in Uid, NEW b \in DOMAIN score[w]
    PROVE  /\ DOMAIN score[w] = Benchmarks /\ score[w] \in [Benchmarks -> Entry]
           /\ b \in Benchmarks /\ score[w][b] \in Entry
           /\ score[w][b].pending \in 0 .. NEnemies /\ score[w][b].score \in Nat
           /\ score[w][b].normalised \in 0 .. Scale
<1>1. score[w] \in Scored
  BY DEF Scores, ScoreTypes, Uid
<1>2. score[w] # <<>>
  BY <1>1, ScoredType
<1>3. score[w] \in [Benchmarks -> Entry] /\ DOMAIN score[w] = Benchmarks
  BY <1>1, <1>2, ScoredType
<1>4. score[w][b] \in Entry
  BY <1>3
<1>5. QED
  BY <1>3, <1>4 DEF Entry

LEMMA ReportType ==
    ASSUME battles \in Seq(Report), NEW k \in DOMAIN battles
    PROVE  /\ battles[k] \in Report /\ battles[k].warrior \in Uid
           /\ battles[k].benchmark \in Benchmarks /\ battles[k].result \in Outcomes
<1>1. battles[k] \in Report
  OBVIOUS
<1>2. QED
  BY <1>1 DEF Report

(* Scheduling the battles of a warrior keeps the books.                    *)
LEMMA FightScores ==
    ASSUME Scores, NEW w \in Uid, Fight(w), UNCHANGED heritage
    PROVE  Scores'
<1>1. ScoreTypes
  BY DEF Scores
<1>2. CASE score' = score /\ battles' = battles
  BY <1>2, ScoresFrame
<1>3. CASE /\ score[w] = <<>> /\ score' = [score EXCEPT ![w] = Fresh]
           /\ \E result \in Results :
                    battles' = battles \o Program(w, result)
  <2>1. PICK result \in Results :
           battles' = battles \o Program(w, result)
    BY <1>3
  <2> DEFINE p == Program(w, result)
             n == NBenchmarks * NEnemies
  <2>2. p \in Seq(Report) /\ Len(p) = n
        /\ \A k \in 1 .. n :
              /\ (k - 1) \div NEnemies + 1 \in Benchmarks
              /\ p[k] \in For(w, (k - 1) \div NEnemies + 1)
    BY <1>1, ProgramType, Zenon DEF ScoreTypes
  <2>3. \A v \in Uid, b \in Benchmarks :
           Count(p, For(v, b)) = IF v = w THEN NEnemies ELSE 0
    <3>1. ASSUME NEW v \in Uid, NEW b \in Benchmarks
          PROVE  /\ v = w => Count(p, For(v, b)) = NEnemies
                 /\ v # w => Count(p, For(v, b)) = 0
      <4>1. Len(heritage) \in Nat
        BY <1>1 DEF ScoreTypes
      <4>2. QED
        BY <4>1, ProgramCount
    <3>2. QED
      BY <3>1
  <2>4. battles' = battles \o p
    BY <2>1
  <2> HIDE DEF p, n
  <2>5. battles \in Seq(Report) /\ battles' \in Seq(Report)
    BY <1>1, <2>2, <2>4 DEF ScoreTypes
  <2>6. Fresh \in [Benchmarks -> Entry] /\ DOMAIN Fresh = Benchmarks
    BY DEF Fresh, Entry
  <2>7. /\ score' \in Seq(Scored) /\ Len(score') = Len(score)
        /\ \A v \in Uid : score'[v] = IF v = w THEN Fresh ELSE score[v]
    BY <1>1, <1>3, <2>6, ExceptSeq DEF ScoreTypes, Scored, Uid
  <2>8. ScoreTypes'
    BY <1>1, <2>5, <2>7 DEF ScoreTypes, Report, Uid
  <2>9. ASSUME NEW v \in Uid, NEW b \in DOMAIN score'[v]
        PROVE  /\ score'[v][b].pending = Count(battles', For(v, b))
               /\ score'[v][b].score <= 3 * Rounds * (NEnemies - score'[v][b].pending)
    <3>1. CASE v = w
      <4>1. b \in Benchmarks
        BY <2>6, <2>7, <3>1
      <4>2. \A k \in DOMAIN battles : battles[k] \notin For(w, b)
        <5>1. ASSUME NEW k \in DOMAIN battles, battles[k] \in For(w, b)
              PROVE  FALSE
          <6>1. battles[k].warrior = w
            BY <5>1 DEF For
          <6>2. battles[k].benchmark \in DOMAIN score[w]
            BY <6>1 DEF Scores
          <6>3. QED
            BY <1>3, <6>2
        <5>2. QED
          BY <5>1
      <4>3. Count(battles, For(w, b)) = 0
        BY <4>2, FS_EmptySet DEF Count, Where
      <4>4. Count(battles', For(w, b)) = NEnemies
        BY <2>2, <2>3, <2>4, <2>5, <4>1, <4>3, CountConcat
      <4>5. score'[v][b] = [pending |-> NEnemies, score |-> 0, normalised |-> 0]
        BY <2>7, <3>1, <4>1 DEF Fresh
      <4>6. 3 * Rounds * (NEnemies - NEnemies) = 0
        OBVIOUS
      <4>7. QED
        BY <3>1, <4>4, <4>5, <4>6
    <3>2. CASE v # w
      <4>1. score'[v] = score[v] /\ b \in DOMAIN score[v]
        BY <2>7, <3>2
      <4>2. b \in Benchmarks
        BY <4>1, EntryKnown
      <4>3. Count(battles, For(v, b)) \in Nat
        BY <2>5, CountType
      <4>4. Count(battles', For(v, b)) = Count(battles, For(v, b))
        BY <2>2, <2>3, <2>4, <2>5, <3>2, <4>2, <4>3, CountConcat
      <4>5. QED
        BY <4>1, <4>4 DEF Scores
    <3>3. QED
      BY <3>1, <3>2
  <2>10. ASSUME NEW k \in DOMAIN battles'
         PROVE  battles'[k].benchmark \in DOMAIN score'[battles'[k].warrior]
    <3>1. /\ Len(battles) \in Nat /\ DOMAIN battles = 1 .. Len(battles) /\ n \in Nat
          /\ k \in 1 .. Len(battles) + n
          /\ battles'[k] = IF k <= Len(battles) THEN battles[k] ELSE p[k - Len(battles)]
      BY <2>2, <2>4, <2>5 DEF n
    <3>2. CASE k <= Len(battles)
      <4>1. k \in DOMAIN battles /\ battles'[k] = battles[k]
        BY <3>1, <3>2
      <4>2. battles[k].benchmark \in DOMAIN score[battles[k].warrior]
        BY <4>1 DEF Scores
      <4>3. battles[k].warrior \in Uid /\ battles[k].benchmark \in Benchmarks
        BY <2>5, <4>1, ReportType
      <4>4. QED
        BY <2>6, <2>7, <4>1, <4>2, <4>3
    <3>3. CASE k > Len(battles)
      <4> DEFINE j == k - Len(battles)
      <4>1. j \in 1 .. n /\ battles'[k] = p[j]
        BY <3>1, <3>3
      <4> HIDE DEF j
      <4>2. p[j].warrior = w /\ p[j].benchmark \in Benchmarks
        BY <2>2, <4>1 DEF For
      <4>3. QED
        BY <2>6, <2>7, <4>1, <4>2
    <3>4. QED
      BY <3>1, <3>2, <3>3
  <2>11. Uid' = Uid
    BY DEF Uid
  <2>12. QED
    BY <2>8, <2>9, <2>10, <2>11 DEF Scores
<1>4. QED
  BY <1>1, <1>2, <1>3, FightEnters

(* A new warrior has no score.                                             *)
LEMMA BirthScores ==
    ASSUME Scores, score' = Append(score, <<>>), UNCHANGED battles,
           Len(heritage') = Len(heritage) + 1
    PROVE  Scores'
<1>1. ScoreTypes
  BY DEF Scores
<1>2. Uid' = Uid \cup {Len(heritage) + 1} /\ Len(heritage) + 1 \notin Uid
  BY <1>1 DEF Uid, ScoreTypes
<1>3. battles \in Seq(Report')
  <2>1. Report \subseteq Report'
    BY <1>2 DEF Report
  <2>2. QED
    BY <1>1, <2>1, SeqMonotonic DEF ScoreTypes
<1>4. /\ score' \in Seq(Scored) /\ Len(score') = Len(score) + 1
      /\ \A w \in Uid : score'[w] = score[w]
      /\ score'[Len(heritage) + 1] = <<>>
  BY <1>1 DEF ScoreTypes, Uid, Scored
<1>5. ScoreTypes'
  BY <1>1, <1>3, <1>4 DEF ScoreTypes, Report
<1>6. ASSUME NEW w \in Uid', NEW b \in DOMAIN score'[w]
      PROVE  /\ score'[w][b].pending = Count(battles', For(w, b))
             /\ score'[w][b].score <= 3 * Rounds * (NEnemies - score'[w][b].pending)
  <2>1. CASE w \in Uid
    <3>1. score'[w] = score[w] /\ b \in DOMAIN score[w]
      BY <1>4, <2>1
    <3>2. QED
      BY <2>1, <3>1 DEF Scores
  <2>2. CASE w = Len(heritage) + 1
    <3> DEFINE new == score'[w]
    <3>1. new = <<>>
      BY <1>4, <2>2
    <3> HIDE DEF new
    <3>2. DOMAIN new = {}
      BY <3>1
    <3>3. QED
      BY <3>2 DEF new
  <2>3. QED
    BY <1>2, <2>1, <2>2
<1>7. ASSUME NEW k \in DOMAIN battles'
      PROVE  battles'[k].benchmark \in DOMAIN score'[battles'[k].warrior]
  <2>1. k \in DOMAIN battles /\ battles'[k] = battles[k] /\ battles[k].warrior \in Uid
    BY <1>1, ReportType DEF ScoreTypes
  <2>2. QED
    BY <1>4, <2>1 DEF Scores
<1>8. QED
  BY <1>5, <1>6, <1>7 DEF Scores

(* What a battle earns: no more than three points a round.                 *)
LEMMA PointsOfResult ==
    ASSUME NEW r \in Outcomes
    PROVE  /\ 3 * r.win + r.tie \in Nat /\ 3 * r.win + r.tie <= 3 * Rounds
<1>1. r.win \in Nat /\ r.tie \in Nat /\ r.win + r.tie <= Rounds
  BY OutcomesAssumption
<1>2. QED
  BY <1>1

(* The share of the best score that sum is of m points.                    *)
LEMMA Normalised ==
    ASSUME NEW m \in Nat \ {0}, NEW sum \in 0 .. m
    PROVE  (sum * Scale) \div m \in 0 .. Scale
<1> DEFINE x == sum * Scale
           e == x \div m
<1>1. x \in Nat /\ x <= m * Scale
  <2>1. m * Scale - sum * Scale = (m - sum) * Scale /\ m * Scale \in Int /\ sum * Scale \in Nat
    OBVIOUS
  <2>2. (m - sum) * Scale >= 0
    OBVIOUS
  <2>3. QED
    BY <2>1, <2>2
<1> HIDE DEF x
<1>2. e \in Int /\ m * e <= x /\ x < m * e + m
  BY <1>1, DivModType, InBlock
<1> HIDE DEF e
<1>3. e <= Scale
  <2>1. ASSUME e >= Scale + 1 PROVE m * e >= m * (Scale + 1)
    BY <1>2, <2>1
  <2>2. m * (Scale + 1) = m * Scale + m /\ m * Scale \in Int /\ m * e \in Int
    BY <1>2
  <2>3. QED
    BY <1>1, <1>2, <2>1, <2>2
<1>4. e >= 0
  <2>1. ASSUME e <= -1 PROVE m * e <= -m
    BY <1>2, <2>1
  <2>2. m * e \in Int
    BY <1>2
  <2>3. QED
    BY <1>1, <1>2, <2>1, <2>2
<1>5. QED
  BY <1>2, <1>3, <1>4 DEF e, x

(* A report leaves the entry in its range and one battle less pending.     *)
LEMMA GradedType ==
    ASSUME NEW entry \in Entry, NEW r \in Outcomes, entry.pending # 0,
           entry.score <= 3 * Rounds * (NEnemies - entry.pending)
    PROVE  /\ Graded(entry, r) \in Entry
           /\ Graded(entry, r).pending = entry.pending - 1
           /\ Graded(entry, r).score <= 3 * Rounds * (NEnemies - (entry.pending - 1))
<1> DEFINE p == entry.pending
           s == entry.score
           q == 3 * r.win + r.tie
           sum == s + q
           m == Rounds * NEnemies * 3
<1>1. p \in 1 .. NEnemies /\ s \in Nat /\ entry.normalised \in 0 .. Scale
      /\ s <= 3 * Rounds * (NEnemies - p)
  BY DEF Entry
<1>2. q \in Nat /\ q <= 3 * Rounds
  BY PointsOfResult
<1>3. 3 * Rounds * (NEnemies - (p - 1)) = 3 * Rounds * (NEnemies - p) + 3 * Rounds
      /\ 3 * Rounds * (NEnemies - p) \in Int
  BY <1>1
<1>4. m \in Nat \ {0} /\ m = 3 * Rounds * NEnemies
  OBVIOUS
<1> HIDE DEF p, s, q
<1>5. sum \in Nat /\ sum <= 3 * Rounds * (NEnemies - (p - 1))
  BY <1>1, <1>2, <1>3
<1>6. 3 * Rounds * (NEnemies - (p - 1)) <= m
  <2>1. NEnemies - (p - 1) <= NEnemies /\ NEnemies - (p - 1) \in Int
    BY <1>1
  <2> DEFINE d == NEnemies - (p - 1)
  <2> HIDE DEF d
  <2>2. d \in Int /\ d <= NEnemies
    BY <2>1 DEF d
  <2>3. 3 * Rounds * NEnemies - 3 * Rounds * d = 3 * Rounds * (NEnemies - d)
    BY <2>2
  <2>4. 3 * Rounds * (NEnemies - d) >= 0
    BY <2>2
  <2>5. 3 * Rounds * d \in Int /\ 3 * Rounds * NEnemies \in Int
    BY <2>2
  <2>6. QED
    BY <1>4, <2>3, <2>4, <2>5 DEF d
<1> HIDE DEF m, sum
<1>7. sum \in 0 .. m
  <2>1. 3 * Rounds * (NEnemies - (p - 1)) \in Int
    BY <1>1
  <2>2. QED
    BY <1>4, <1>5, <1>6, <2>1
<1>8. (sum * Scale) \div m \in 0 .. Scale
  BY <1>4, <1>7, Normalised
<1>9. Graded(entry, r) = [pending |-> p - 1, score |-> sum,
                          normalised |-> IF p = 1 THEN (sum * Scale) \div m
                                         ELSE entry.normalised]
  <2>1. entry.score + 3 * r.win + r.tie = sum
    <3>1. r.win \in Nat /\ r.tie \in Nat
      BY OutcomesAssumption
    <3>2. s \in Nat
      BY <1>1
    <3>3. s + 3 * r.win + r.tie = s + (3 * r.win + r.tie)
      BY <3>1, <3>2
    <3>4. QED
      BY <3>3 DEF sum, q, s
  <2>2. QED
    BY <2>1 DEF Graded, m, p
<1>10. QED
  <2>1. p - 1 \in 0 .. NEnemies
    BY <1>1
  <2>2. QED
    BY <1>1, <1>5, <1>8, <1>9, <2>1 DEF Entry, p

(* The report is taken from the list and from the entry that waits for it. *)
LEMMA BattleDoneScores ==
    ASSUME Scores, BattleDone
    PROVE  /\ Scores'
           /\ \E v \in Uid : \E b \in DOMAIN score[v] :
                 /\ score[v][b].pending # 0
                 /\ \A w \in Uid : w # v => score'[w] = score[w]
<1> DEFINE x == battles[1]
           v == x.warrior
           b == x.benchmark
           entry == score[v][b]
           new == Graded(entry, x.result)
<1>1. /\ ScoreTypes /\ battles # <<>> /\ battles \in Seq(Report)
      /\ Head(battles) = x /\ 1 \in DOMAIN battles
      /\ battles' = Tail(battles) /\ UNCHANGED heritage
      /\ score' = [score EXCEPT ![v][b] = new]
  <2>1. ScoreTypes /\ battles # <<>> /\ battles \in Seq(Report)
    BY DEF Scores, ScoreTypes, BattleDone
  <2>2. Head(battles) = x /\ 1 \in DOMAIN battles
    BY <2>1
  <2>3. battles' = Tail(battles) /\ UNCHANGED heritage
    BY DEF BattleDone, people
  <2>4. score' = [score EXCEPT ![Head(battles).warrior][Head(battles).benchmark] =
                     Graded(@, Head(battles).result)]
    BY DEF BattleDone
  <2> HIDE DEF x
  <2>5. score' = [score EXCEPT ![v][b] = new]
    BY <2>2, <2>4
  <2>6. QED
    BY <2>1, <2>2, <2>3, <2>5
<1>2. x \in Report /\ v \in Uid /\ b \in Benchmarks /\ x.result \in Outcomes
  BY <1>1, ReportType
<1>3. b \in DOMAIN score[v]
  BY <1>1 DEF Scores
<1>4. /\ entry \in Entry /\ score[v] \in [Benchmarks -> Entry]
      /\ entry.pending = Count(battles, For(v, b))
      /\ entry.score <= 3 * Rounds * (NEnemies - entry.pending)
  BY <1>2, <1>3, EntryKnown DEF Scores
<1>5. x \in For(v, b)
  BY <1>2 DEF For, Report
<1>6. entry.pending # 0
  <2>1. 1 \in Where(battles, For(v, b))
    BY <1>1, <1>5 DEF Where
  <2>2. QED
    BY <1>1, <1>4, <2>1, CountType
<1>7. /\ new \in Entry /\ new.pending = entry.pending - 1
      /\ new.score <= 3 * Rounds * (NEnemies - new.pending)
  <2> HIDE DEF entry, x
  <2>1. /\ new \in Entry /\ new.pending = entry.pending - 1
        /\ new.score <= 3 * Rounds * (NEnemies - (entry.pending - 1))
    BY <1>2, <1>4, <1>6, GradedType
  <2> HIDE DEF new
  <2>2. QED
    BY <2>1
<1> DEFINE row == [score[v] EXCEPT ![b] = new]
<1>8. score' = [score EXCEPT ![v] = row]
  BY <1>1
<1> HIDE DEF new, entry
<1>9. /\ row \in [Benchmarks -> Entry]
      /\ \A c \in Benchmarks : row[c] = IF c = b THEN new ELSE score[v][c]
  <2> HIDE DEF b, v
  <2>1. QED
    BY <1>2, <1>4, <1>7
<1> HIDE DEF row, b, v
<1>10. /\ score' \in Seq(Scored) /\ Len(score') = Len(score)
       /\ \A w \in Uid : score'[w] = IF w = v THEN row ELSE score[w]
  <2>1. row \in Scored
    BY <1>9 DEF Scored
  <2>2. v \in 1 .. Len(score) /\ Uid = 1 .. Len(score)
    BY <1>1, <1>2 DEF ScoreTypes, Uid
  <2>3. score \in Seq(Scored)
    BY <1>1 DEF ScoreTypes
  <2>4. /\ [score EXCEPT ![v] = row] \in Seq(Scored)
        /\ Len([score EXCEPT ![v] = row]) = Len(score)
        /\ \A w \in 1 .. Len(score) :
              [score EXCEPT ![v] = row][w] = IF w = v THEN row ELSE score[w]
    BY <2>1, <2>2, <2>3, ExceptSeq
  <2>5. QED
    BY <1>8, <2>2, <2>4
<1>11. battles' \in Seq(Report)
  BY <1>1
<1>12. ScoreTypes'
  BY <1>1, <1>10, <1>11 DEF ScoreTypes, Report, Uid
<1>13. ASSUME NEW w \in Uid, NEW c \in DOMAIN score'[w]
       PROVE  /\ score'[w][c].pending = Count(battles', For(w, c))
              /\ score'[w][c].score <= 3 * Rounds * (NEnemies - score'[w][c].pending)
  <2>1. Count(battles', For(w, c)) =
           IF x \in For(w, c) THEN Count(battles, For(w, c)) - 1
           ELSE Count(battles, For(w, c))
    BY <1>1, CountTail
  <2>2. x \in For(w, c) <=> w = v /\ c = b
    BY <1>2, <1>5 DEF For, v, b
  <2>3. CASE w = v /\ c = b
    <3>1. score'[w][c] = new
      BY <1>2, <1>9, <1>10, <2>3
    <3>2. QED
      BY <1>4, <1>7, <2>1, <2>2, <2>3, <3>1
  <2>4. CASE ~(w = v /\ c = b)
    <3>1. c \in DOMAIN score[w] /\ score'[w][c] = score[w][c]
      <4>1. CASE w = v
        BY <1>2, <1>4, <1>9, <1>10, <2>4, <4>1
      <4>2. CASE w # v
        BY <1>10, <4>2
      <4>3. QED
        BY <4>1, <4>2
    <3>2. QED
      BY <2>1, <2>2, <2>4, <3>1 DEF Scores
  <2>5. QED
    BY <2>3, <2>4
<1>14. ASSUME NEW k \in DOMAIN battles'
       PROVE  battles'[k].benchmark \in DOMAIN score'[battles'[k].warrior]
  <2>1. k + 1 \in DOMAIN battles /\ battles'[k] = battles[k + 1]
    BY <1>1
  <2> DEFINE y == battles[k + 1]
  <2>2. /\ y.warrior \in Uid /\ y.benchmark \in Benchmarks
        /\ y.benchmark \in DOMAIN score[y.warrior] /\ battles'[k] = y
    BY <1>1, <2>1, ReportType DEF Scores
  <2> HIDE DEF y
  <2>3. QED
    BY <1>9, <1>10, <2>2
<1>15. Uid' = Uid
  BY <1>1 DEF Uid
<1>16. Scores'
  BY <1>12, <1>13, <1>14, <1>15 DEF Scores
<1>17. QED
  <2>1. v \in Uid /\ b \in DOMAIN score[v] /\ score[v][b].pending # 0
    BY <1>2, <1>3, <1>6 DEF entry
  <2>2. \A w \in Uid : w # v => score'[w] = score[w]
    BY <1>10
  <2>3. QED
    BY <1>16, <2>1, <2>2

-----------------------------------------------------------------------------
(* The population and its families.                                        *)

Kids(w) == {c \in ToSet(warriors) : w \in ToSet(heritage[c])}

PeopleTypes ==
    /\ Len(heritage) \in Nat /\ heritage \in Seq({<<>>} \cup (Uid \X Uid))
    /\ warriors \in Seq(Uid) /\ old_warriors \in Seq(Uid)
    /\ child_count \in Seq(Nat) /\ Len(child_count) = Len(heritage)

Families ==
    /\ IsInjective(warriors) /\ IsInjective(old_warriors)
    /\ ToSet(warriors) \cap ToSet(old_warriors) = {}
    /\ ToSet(warriors) \cup ToSet(old_warriors) = Uid
    /\ \A w \in Uid : child_count[w] = Cardinality(Kids(w))

People == PeopleTypes /\ (at # "crashed" => Families)

(* Only breed() touches the population and its families.                   *)
LEMMA PeopleFrame ==
    ASSUME People, UNCHANGED people, at # "crashed"
    PROVE  People'
  BY DEF People, PeopleTypes, Families, Kids, Uid, people

(* The heritage of a warrior is nothing or two warriors.                   *)
LEMMA PairFacts ==
    ASSUME NEW V, NEW x \in {<<>>} \cup (V \X V)
    PROVE  /\ ToSet(x) \subseteq V
           /\ x # <<>> => x[1] \in V /\ x[2] \in V /\ ToSet(x) = {x[1], x[2]}
<1>1. CASE x = <<>>
  <2>1. DOMAIN x = {}
    BY <1>1
  <2>2. QED
    BY <1>1, <2>1 DEF ToSet
<1>2. CASE x \in V \X V
  <2>1. PICK a \in V, b \in V : x = <<a, b>>
    BY <1>2
  <2>2. DOMAIN x = {1, 2} /\ x[1] = a /\ x[2] = b
    BY <2>1
  <2>3. ToSet(x) = {a, b}
    BY <2>2 DEF ToSet
  <2>4. QED
    BY <2>2, <2>3
<1>3. QED
  BY <1>1, <1>2

LEMMA KidsFacts ==
    ASSUME PeopleTypes
    PROVE  /\ \A w : IsFiniteSet(Kids(w)) /\ Cardinality(Kids(w)) \in Nat
           /\ ToSet(warriors) \subseteq Uid
           /\ \A c \in Uid : ToSet(heritage[c]) \subseteq Uid
<1>1. ToSet(warriors) \subseteq Uid
  BY DEF PeopleTypes, ToSet
<1>2. ASSUME NEW w
      PROVE  IsFiniteSet(Kids(w)) /\ Cardinality(Kids(w)) \in Nat
  <2>1. Kids(w) \in SUBSET (1 .. Len(heritage))
    BY <1>1 DEF Kids, Uid
  <2>2. QED
    BY <2>1, PartOfInterval DEF PeopleTypes
<1>3. ASSUME NEW c \in Uid
      PROVE  ToSet(heritage[c]) \subseteq Uid
  <2>1. heritage[c] \in {<<>>} \cup (Uid \X Uid)
    BY DEF PeopleTypes, Uid
  <2>2. QED
    BY <2>1, PairFacts
<1>4. QED
  BY <1>1, <1>2, <1>3

(* Sorting changes the order of the population and nothing else.           *)
LEMMA SortPeople ==
    ASSUME People, Sort, sorted \in 0 .. Len(warriors)
    PROVE  /\ People' /\ warriors' \in Seq(Uid) /\ Len(warriors') = Len(warriors)
           /\ ToSet(warriors') = ToSet(warriors)
<1>1. PeopleTypes /\ Families /\ at # "crashed"
  BY DEF People, Sort
<1>2. warriors \in Seq(Uid) /\ IsInjective(warriors)
  BY <1>1 DEF PeopleTypes, Families
<1>3. PICK places \in kSubset(sorted, DOMAIN warriors),
           others \in SetToSeqs({warriors[k] : k \in sorted + 1 .. Len(warriors)}) :
         warriors' = Merged(warriors, places, others)
  BY DEF Sort, Merged, Rank, UpTo
<1>4. /\ warriors' \in Seq(Uid) /\ Len(warriors') = Len(warriors)
      /\ IsInjective(warriors') /\ ToSet(warriors') = ToSet(warriors)
  BY <1>2, <1>3, MergedPermutes
<1>5. UNCHANGED <<old_warriors, heritage, child_count>>
  BY DEF Sort
<1>6. Uid' = Uid /\ \A w : Kids(w)' = {c \in ToSet(warriors) : w \in ToSet(heritage[c])}
  BY <1>4, <1>5 DEF Kids, Uid
<1>7. PeopleTypes'
  BY <1>1, <1>4, <1>5, <1>6 DEF PeopleTypes
<1>8. Families'
  BY <1>1, <1>4, <1>5, <1>6 DEF Families, Kids
<1>9. QED
  BY <1>4, <1>7, <1>8 DEF People

(* Retiring moves the last warrior to the retired and takes a child from   *)
(* its parents.                                                            *)
LEMMA RetirePeople ==
    ASSUME People, Retire
    PROVE  People'
<1>1. PeopleTypes /\ Families /\ at # "crashed" /\ warriors # <<>>
  BY DEF People, Retire
<1> DEFINE l == Last(warriors)
           parents == heritage[l]
<1>2. /\ warriors \in Seq(Uid) /\ warriors' = Front(warriors)
      /\ l \in Uid /\ warriors' \in Seq(Uid)
      /\ ToSet(warriors) = ToSet(warriors') \cup {l}
      /\ IsInjective(warriors') /\ l \notin ToSet(warriors')
  <2>1. warriors \in Seq(Uid) /\ warriors' = Front(warriors) /\ IsInjective(warriors)
    BY <1>1 DEF PeopleTypes, Retire, Families
  <2>2. QED
    BY <1>1, <2>1, FrontFacts
<1>3. parents \in {<<>>} \cup (Uid \X Uid)
  BY <1>1, <1>2 DEF PeopleTypes, Uid
<1>4. UNCHANGED heritage /\ Uid' = Uid
  BY DEF Retire, Uid
<1>5. CASE parents = <<>>
  <2>1. at' = "crashed" /\ UNCHANGED <<old_warriors, child_count>>
    BY <1>5 DEF Retire
  <2>2. PeopleTypes'
    BY <1>1, <1>2, <1>4, <2>1 DEF PeopleTypes
  <2>3. QED
    BY <2>1, <2>2 DEF People
<1>6. CASE parents # <<>>
  <2>1. /\ child_count' = [w \in DOMAIN child_count |->
                      IF w \in ToSet(parents) THEN child_count[w] - 1
                                              ELSE child_count[w]]
        /\ old_warriors' = Append(old_warriors, l)
    BY <1>6 DEF Retire
  <2> HIDE DEF l, parents
  <2>2. /\ old_warriors' \in Seq(Uid) /\ ToSet(old_warriors') = ToSet(old_warriors) \cup {l}
        /\ IsInjective(old_warriors')
    <3>1. l \in ToSet(warriors) /\ l \notin ToSet(old_warriors)
      BY <1>1, <1>2 DEF Families
    <3>2. QED
      BY <1>1, <1>2, <2>1, <3>1, AppendFacts DEF PeopleTypes, Families
  <2>3. ASSUME NEW w \in Uid
        PROVE  /\ child_count'[w] = Cardinality(Kids(w)')
               /\ child_count'[w] \in Nat
    <3>1. Kids(w)' = Kids(w) \ {l}
      BY <1>2, <1>4 DEF Kids
    <3>2. l \in Kids(w) <=> w \in ToSet(parents)
      BY <1>2 DEF Kids, parents
    <3>3. IsFiniteSet(Kids(w)) /\ Cardinality(Kids(w)) \in Nat
      BY <1>1, KidsFacts
    <3>4. /\ IsFiniteSet(Kids(w) \ {l})
          /\ Cardinality(Kids(w) \ {l}) =
                IF l \in Kids(w) THEN Cardinality(Kids(w)) - 1 ELSE Cardinality(Kids(w))
      BY <3>3, FS_RemoveElement
    <3>5. w \in DOMAIN child_count /\ child_count[w] = Cardinality(Kids(w))
      BY <1>1 DEF PeopleTypes, Families, Uid
    <3>6. child_count'[w] = Cardinality(Kids(w) \ {l})
      BY <2>1, <3>2, <3>4, <3>5
    <3>7. Cardinality(Kids(w) \ {l}) \in Nat
      BY <3>4, FS_CardinalityType
    <3>8. QED
      BY <3>1, <3>6, <3>7
  <2>4. child_count' \in Seq(Nat) /\ Len(child_count') = Len(heritage)
    <3>1. DOMAIN child_count = 1 .. Len(heritage) /\ Len(heritage) \in Nat
      BY <1>1 DEF PeopleTypes
    <3>2. child_count' = [w \in 1 .. Len(heritage) |-> child_count'[w]]
      BY <2>1, <3>1
    <3>3. \A w \in 1 .. Len(heritage) : child_count'[w] \in Nat
      BY <2>3 DEF Uid
    <3>4. QED
      BY <3>1, <3>2, <3>3
  <2>5. PeopleTypes'
    BY <1>1, <1>2, <1>4, <2>2, <2>4 DEF PeopleTypes
  <2>6. Families'
    <3>1. ToSet(warriors') \cap ToSet(old_warriors') = {}
      BY <1>1, <1>2, <2>2 DEF Families
    <3>2. ToSet(warriors') \cup ToSet(old_warriors') = Uid
      BY <1>1, <1>2, <2>2 DEF Families
    <3>3. QED
      BY <1>2, <1>4, <2>2, <2>3, <3>1, <3>2 DEF Families
  <2>7. QED
    BY <2>5, <2>6 DEF People
<1>7. QED
  BY <1>5, <1>6

(* A child is new in the population, and its parents count it.             *)
LEMMA BirthPeople ==
    ASSUME People, at # "crashed", NEW a \in Uid, NEW b \in Uid,
           heritage' = Append(heritage, <<a, b>>),
           child_count' = Append([w \in DOMAIN child_count |->
                  IF w \in ToSet(<<a, b>>) THEN child_count[w] + 1
                                           ELSE child_count[w]], 0),
           warriors' = Append(warriors, Len(heritage) + 1),
           UNCHANGED old_warriors
    PROVE  People'
<1> DEFINE n == Len(heritage)
           parents == <<a, b>>
           Grown == 1 .. n + 1
<1>1. /\ PeopleTypes /\ Families /\ n \in Nat /\ Uid = 1 .. n
      /\ warriors \in Seq(Uid) /\ old_warriors \in Seq(Uid)
  BY DEF People, PeopleTypes, Uid
<1>2. parents \in Uid \X Uid /\ ToSet(parents) \subseteq Uid
  <2>1. parents \in {<<>>} \cup (Uid \X Uid)
    OBVIOUS
  <2> HIDE DEF parents
  <2>2. ToSet(parents) \subseteq Uid
    BY <2>1, PairFacts
  <2> USE DEF parents
  <2>3. QED
    BY <2>2
<1> HIDE DEF parents
<1>3. Uid \subseteq Grown /\ n + 1 \in Grown /\ n + 1 \notin Uid
      /\ \A w \in Grown : w \in Uid \/ w = n + 1
  <2> HIDE DEF n
  <2>1. QED
    BY <1>1
<1>4. /\ heritage' \in Seq({<<>>} \cup (Grown \X Grown)) /\ Len(heritage') = n + 1
      /\ \A c \in Uid : heritage'[c] = heritage[c]
      /\ heritage'[n + 1] = parents
  <2> DEFINE V == {<<>>} \cup (Uid \X Uid)
             W == {<<>>} \cup (Grown \X Grown)
  <2>1. heritage \in Seq(V) /\ parents \in V /\ V \subseteq W
    BY <1>1, <1>2, <1>3 DEF PeopleTypes
  <2> HIDE DEF V, W
  <2>2. heritage' = Append(heritage, parents)
    BY DEF parents
  <2> HIDE DEF n
  <2>3. /\ heritage' \in Seq(V) /\ Len(heritage') = n + 1
        /\ \A c \in 1 .. n : heritage'[c] = heritage[c]
        /\ heritage'[n + 1] = parents
    <3>1. /\ Append(heritage, parents) \in Seq(V)
          /\ Len(Append(heritage, parents)) = Len(heritage) + 1
          /\ \A c \in 1 .. Len(heritage) : Append(heritage, parents)[c] = heritage[c]
          /\ Append(heritage, parents)[Len(heritage) + 1] = parents
      BY <2>1, AppendFacts
    <3>2. QED
      BY <2>2, <3>1 DEF n
  <2>4. heritage' \in Seq(W)
    BY <2>1, <2>3, SeqMonotonic
  <2>5. QED
    BY <1>1, <2>3, <2>4 DEF W
<1>5. Uid' = Grown
  BY <1>4 DEF Uid
<1> HIDE DEF Grown
<1>6. /\ warriors \in Seq(Grown) /\ old_warriors \in Seq(Grown)
      /\ ToSet(warriors) \subseteq Uid /\ ToSet(old_warriors) \subseteq Uid
  <2>1. warriors \in Seq(Grown) /\ old_warriors \in Seq(Grown)
    BY <1>1, <1>3, SeqMonotonic
  <2>2. QED
    BY <1>1, <2>1, SeqFacts
<1> HIDE DEF n
<1>7. /\ warriors' \in Seq(Grown) /\ ToSet(warriors') = ToSet(warriors) \cup {n + 1}
      /\ IsInjective(warriors')
  <2>1. n + 1 \notin ToSet(warriors) /\ IsInjective(warriors)
    BY <1>1, <1>3, <1>6 DEF Families
  <2>2. warriors' = Append(warriors, n + 1)
    BY DEF n
  <2>3. QED
    BY <1>3, <1>6, <2>1, <2>2, AppendFacts
<1>8. /\ child_count' \in Seq(Nat) /\ Len(child_count') = n + 1
      /\ \A w \in Uid : child_count'[w] =
            IF w \in ToSet(parents) THEN child_count[w] + 1 ELSE child_count[w]
      /\ child_count'[n + 1] = 0
  <2> DEFINE t == [w \in DOMAIN child_count |->
                  IF w \in ToSet(parents) THEN child_count[w] + 1
                                           ELSE child_count[w]]
  <2>1. child_count' = Append(t, 0)
    BY DEF parents
  <2>2. /\ DOMAIN child_count = 1 .. n /\ n \in Nat
        /\ \A w \in 1 .. n : child_count[w] \in Nat
    BY <1>1 DEF PeopleTypes, n
  <2>3. t \in Seq(Nat) /\ Len(t) = n
        /\ \A w \in 1 .. n : t[w] = IF w \in ToSet(parents) THEN child_count[w] + 1
                                                          ELSE child_count[w]
    BY <2>2
  <2> HIDE DEF t
  <2>4. /\ child_count' \in Seq(Nat) /\ Len(child_count') = n + 1
        /\ \A w \in 1 .. n : child_count'[w] = t[w]
        /\ child_count'[n + 1] = 0
    <3>1. /\ Append(t, 0) \in Seq(Nat) /\ Len(Append(t, 0)) = Len(t) + 1
          /\ \A w \in 1 .. Len(t) : Append(t, 0)[w] = t[w]
          /\ Append(t, 0)[Len(t) + 1] = 0
      <4>1. 0 \in Nat /\ t \in Seq(Nat)
        BY <2>3
      <4>2. QED
        BY <4>1, AppendFacts
    <3>2. QED
      BY <2>1, <2>3, <3>1
  <2>5. QED
    BY <1>1, <2>3, <2>4
<1>9. ASSUME NEW w \in Uid
      PROVE  child_count'[w] = Cardinality({c \in ToSet(warriors') : w \in ToSet(heritage'[c])})
  <2> DEFINE kids == {c \in ToSet(warriors') : w \in ToSet(heritage'[c])}
  <2>1. kids = IF w \in ToSet(parents) THEN Kids(w) \cup {n + 1} ELSE Kids(w)
    BY <1>4, <1>6, <1>7 DEF Kids
  <2>2. IsFiniteSet(Kids(w)) /\ Cardinality(Kids(w)) \in Nat
    BY <1>1, KidsFacts
  <2>3. n + 1 \notin Kids(w)
    BY <1>3, <1>6 DEF Kids
  <2>4. Cardinality(Kids(w) \cup {n + 1}) = Cardinality(Kids(w)) + 1
    BY <2>2, <2>3, FS_AddElement
  <2>5. child_count[w] = Cardinality(Kids(w))
    BY <1>1 DEF Families
  <2> HIDE DEF kids
  <2>6. child_count'[w] = Cardinality(kids)
    BY <1>8, <2>1, <2>4, <2>5
  <2>7. QED
    BY <2>6 DEF kids
<1>10. child_count'[n + 1] = Cardinality({c \in ToSet(warriors') : n + 1 \in ToSet(heritage'[c])})
  <2>1. \A c \in ToSet(warriors') : n + 1 \notin ToSet(heritage'[c])
    <3>1. \A c \in Uid : n + 1 \notin ToSet(heritage[c])
      BY <1>1, <1>3, KidsFacts
    <3>2. n + 1 \notin ToSet(parents)
      BY <1>2, <1>3
    <3>3. QED
      BY <1>4, <1>6, <1>7, <3>1, <3>2
  <2>2. {c \in ToSet(warriors') : n + 1 \in ToSet(heritage'[c])} = {}
    BY <2>1
  <2>3. Cardinality({}) = 0
    BY FS_EmptySet
  <2>4. QED
    BY <1>8, <2>2, <2>3
<1>11. PeopleTypes'
  BY <1>1, <1>4, <1>5, <1>6, <1>7, <1>8 DEF PeopleTypes
<1>12. Families'
  <2>1. \A w \in Grown : child_count'[w] = Cardinality({c \in ToSet(warriors') : w \in ToSet(heritage'[c])})
    BY <1>3, <1>9, <1>10
  <2>2. /\ IsInjective(old_warriors') /\ ToSet(warriors') \cap ToSet(old_warriors') = {}
        /\ ToSet(warriors') \cup ToSet(old_warriors') = Grown
    BY <1>1, <1>3, <1>6, <1>7 DEF Families
  <2>3. QED
    BY <1>5, <1>7, <2>1, <2>2 DEF Families, Kids
<1>13. QED
  BY <1>11, <1>12 DEF People

-----------------------------------------------------------------------------
(* The wheel.                                                              *)

(* fought() and the overall score as functions of the scores by benchmark. *)
Done(row) == DOMAIN row # {} /\ \A b \in DOMAIN row : row[b].pending = 0
OverallOf(row) ==
    IF Done(row)
    THEN SumOf([b \in DOMAIN row |-> row[b].normalised], DOMAIN row)
            \div Cardinality(DOMAIN row)
    ELSE NoScore

(* The overall score of a warrior is that of its row of scores.            *)
LEMMA OverallIs ==
    ASSUME NEW w
    PROVE  Overall(w) = OverallOf(score[w])
<1> DEFINE S == DOMAIN score[w]
           f == [b \in S |-> score[w][b].normalised]
           F(iter) == [s \in SUBSET S |-> IF s = {} THEN 0
                        ELSE score[w][Pick(s)].normalised + iter[s \ {Pick(s)}]]
           G(iter) == [s \in SUBSET S |-> IF s = {} THEN 0
                        ELSE f[Pick(s)] + iter[s \ {Pick(s)}]]
<1>1. \A s \in SUBSET S : s # {} => Pick(s) \in S
  BY DEF Pick
<1>2. \A iter : F(iter) = G(iter)
  <2>1. \A s \in SUBSET S : s # {} => f[Pick(s)] = score[w][Pick(s)].normalised
    BY <1>1
  <2> HIDE DEF f
  <2>2. QED
    BY <2>1
<1>3. MapThenSumSet(LAMBDA b : score[w][b].normalised, S) = (CHOOSE iter : iter = F(iter))[S]
  BY DEF MapThenSumSet, MapThenFoldSet, Pick
<1>4. SumOf(f, S) = (CHOOSE iter : iter = G(iter))[S]
  BY DEF SumOf, MapThenSumSet, MapThenFoldSet, Pick
<1>5. MapThenSumSet(LAMBDA b : score[w][b].normalised, S) = SumOf(f, S)
  <2> HIDE DEF F, G
  <2>1. (CHOOSE iter : iter = F(iter)) = (CHOOSE iter : iter = G(iter))
    BY <1>2
  <2>2. QED
    BY <1>3, <1>4, <2>1
<1>6. QED
  BY <1>5 DEF Overall, OverallOf, Done, Fought

(* It is a number: an average, or what stands for ~0.                      *)
LEMMA OverallType ==
    ASSUME NEW row \in Scored
    PROVE  OverallOf(row) \in Nat
<1>1. CASE row = <<>>
  <2>1. DOMAIN row = {}
    BY <1>1
  <2>2. NoScore \in Nat
    BY DEF NoScore
  <2>3. QED
    BY <2>1, <2>2 DEF OverallOf, Done
<1>2. CASE row # <<>>
  <2> DEFINE f == [b \in DOMAIN row |-> row[b].normalised]
  <2>1. DOMAIN row = Benchmarks /\ row \in [Benchmarks -> Entry]
    BY <1>2, ScoredType
  <2>2. f \in [Benchmarks -> Nat]
    BY <2>1 DEF Entry
  <2>3. IsFiniteSet(Benchmarks) /\ Cardinality(Benchmarks) = NBenchmarks
    BY FS_Interval DEF Benchmarks
  <2> HIDE DEF f
  <2>4. SumOf(f, Benchmarks) \in Nat
    BY <2>2, <2>3, SumType
  <2> DEFINE total == SumOf(f, Benchmarks)
  <2> HIDE DEF total
  <2>5. total \in Nat
    BY <2>4 DEF total
  <2>6. total \div NBenchmarks \in Nat
    <3>1. NBenchmarks * total >= total
      <4>1. NBenchmarks * total = total + (NBenchmarks - 1) * total /\ (NBenchmarks - 1) * total >= 0
        BY <2>5
      <4>2. NBenchmarks * total \in Int
        BY <2>5
      <4>3. (NBenchmarks - 1) * total \in Int
        BY <2>5
      <4>4. QED
        BY <2>5, <4>1, <4>2, <4>3
    <3>2. total < (total + 1) * NBenchmarks
      <4>1. (total + 1) * NBenchmarks = NBenchmarks * total + NBenchmarks
        BY <2>5
      <4>2. NBenchmarks * total \in Int
        BY <2>5
      <4>3. QED
        BY <2>5, <3>1, <4>1, <4>2
    <3>3. total + 1 \in Nat
      BY <2>5
    <3>4. total \div NBenchmarks \in 0 .. (total + 1) - 1
      BY <2>5, <3>2, <3>3, BlockBound
    <3>5. QED
      BY <2>5, <3>4
  <2>7. NoScore \in Nat
    BY DEF NoScore
  <2>8. SumOf([b \in DOMAIN row |-> row[b].normalised], DOMAIN row)
            \div Cardinality(DOMAIN row) = total \div NBenchmarks
    BY <2>1, <2>3 DEF total, f
  <2>9. QED
    BY <2>6, <2>7, <2>8 DEF OverallOf
<1>3. QED
  BY <1>1, <1>2

(* The arcs of the first j warriors.                                       *)
Arcs(j) == [k \in 1 .. j |-> OverallOf(score[warriors[k]])]

(* The wheel is the sum of the overall scores.                             *)
LEMMA ArcIs ==
    ASSUME NEW j
    PROVE  Arc(j) = SumOf(Arcs(j), 1 .. j)
<1> DEFINE S == 1 .. j
           f == Arcs(j)
           F(iter) == [s \in SUBSET S |-> IF s = {} THEN 0
                        ELSE Overall(warriors[Pick(s)]) + iter[s \ {Pick(s)}]]
           G(iter) == [s \in SUBSET S |-> IF s = {} THEN 0
                        ELSE f[Pick(s)] + iter[s \ {Pick(s)}]]
<1>1. \A s \in SUBSET S : s # {} => Pick(s) \in S
  BY DEF Pick
<1>2. \A iter : F(iter) = G(iter)
  <2>1. \A k \in S : f[k] = Overall(warriors[k])
    BY OverallIs DEF Arcs
  <2> HIDE DEF f, S
  <2>2. QED
    BY <1>1, <2>1
<1>3. Arc(j) = (CHOOSE iter : iter = F(iter))[S]
  BY DEF Arc, MapThenSumSet, MapThenFoldSet, Pick
<1>4. SumOf(f, S) = (CHOOSE iter : iter = G(iter))[S]
  BY DEF SumOf, MapThenSumSet, MapThenFoldSet, Pick
<1>5. QED
  <2> HIDE DEF F, G
  <2>1. (CHOOSE iter : iter = F(iter)) = (CHOOSE iter : iter = G(iter))
    BY <1>2
  <2>2. QED
    BY <1>3, <1>4, <2>1

LEMMA ArcType ==
    ASSUME ScoreTypes, warriors \in Seq(Uid), NEW j \in 0 .. Len(warriors)
    PROVE  Arc(j) \in Nat
<1>1. /\ \A k \in 1 .. j : warriors[k] \in Uid
      /\ j \in Nat
  OBVIOUS
<1>2. \A k \in 1 .. j : score[warriors[k]] \in Scored
  BY <1>1 DEF ScoreTypes, Uid
<1>3. Arcs(j) \in [1 .. j -> Nat]
  BY <1>2, OverallType DEF Arcs
<1>4. IsFiniteSet(1 .. j)
  BY <1>1, PartOfInterval
<1>5. SumOf(Arcs(j), 1 .. j) \in Nat
  BY <1>3, <1>4, SumType
<1>6. QED
  BY <1>5, ArcIs

LEMMA ArcIsNext == (\A j : Arc(j) = SumOf(Arcs(j), 1 .. j))'
<1>1. \A j : Arc(j) = SumOf(Arcs(j), 1 .. j)
  BY ArcIs
<1>2. QED
  BY <1>1, PTL

(* An arc depends on the scores of the warriors on it, not on the others.  *)
LEMMA ArcSame ==
    ASSUME NEW CONSTANT j,
           \A k \in 1 .. j : score'[warriors'[k]] = score[warriors[k]]
    PROVE  Arc(j)' = Arc(j)
<1>1. Arcs(j)' = Arcs(j)
  BY DEF Arcs
<1>2. QED
  BY <1>1, ArcIs, ArcIsNext

-----------------------------------------------------------------------------
(* The loops.                                                              *)

(* The least member of a set of numbers.                                   *)
LEMMA MinIs ==
    ASSUME NEW S \in SUBSET Nat, S # {}
    PROVE  Min(S) \in S /\ \A y \in S : Min(S) <= y
<1>1. \E x \in S : \A y \in S : x <= y
  <2> SUFFICES ASSUME \A x \in S : \E y \in S : ~(x <= y) PROVE FALSE
    OBVIOUS
  <2> DEFINE Over == {k \in Nat : \E x \in S : x <= k}
  <2>1. ASSUME NEW k \in Over
        PROVE  k # 0 /\ k - 1 \in Over
    <3>1. PICK x \in S : x <= k
      OBVIOUS
    <3>2. PICK y \in S : ~(x <= y)
      OBVIOUS
    <3>3. k \in Nat /\ x \in Nat /\ y \in Nat
      OBVIOUS
    <3>4. y <= k - 1 /\ k - 1 \in Nat /\ k # 0
      BY <3>1, <3>2, <3>3
    <3>5. QED
      BY <3>4
  <2>2. Over \in SUBSET Nat
    OBVIOUS
  <2>3. Over # {}
    <3>1. PICK x \in S : TRUE
      OBVIOUS
    <3>2. x \in Nat /\ x <= x
      OBVIOUS
    <3>3. x \in Over
      BY <3>2
    <3>4. QED
      BY <3>3
  <2> HIDE DEF Over
  <2>4. QED
    BY <2>1, <2>2, <2>3, NoLeastFailure
<1>2. QED
  BY <1>1 DEF Min

AllGraded == \A k \in DOMAIN warriors : Done(score[warriors[k]])

Loops ==
    /\ at \in {"population", "scheduler", "breed", "retire", "lucky", "wheel",
               "crashed"}
    /\ i \in Nat \ {0} /\ all_fought \in BOOLEAN
    /\ num \in Nat /\ total_score \in Nat /\ roll \in Int /\ sorted \in Nat
    /\ generation \in 0 .. MaxGenerations

(* What the round over the population has seen so far.                     *)
LookedAt ==
    /\ at = "population" =>
          /\ i <= Len(warriors) + 1
          /\ all_fought => \A k \in 1 .. i - 1 : Done(score[warriors[k]])
    /\ at = "scheduler" /\ all_fought => AllGraded
    /\ at \in {"breed", "retire"} => AllGraded

(* How far breed() is.                                                     *)
Breeding ==
    /\ at \in {"population", "scheduler", "breed"} => sorted <= Len(warriors)
    /\ at \in {"retire", "lucky", "wheel"} => generation < MaxGenerations
    /\ at = "retire" => i <= num + 1 /\ 3 * num <= Len(warriors) + (i - 1)
    /\ at \in {"lucky", "wheel"} =>
          /\ i <= num + 1 /\ num <= Len(warriors) - (i - 1)
          /\ \A j \in Nat : j = num => total_score = Arc(j)
    /\ at = "wheel" => i <= num /\ roll <= total_score

IInv == People /\ Scores /\ Loops /\ LookedAt /\ Breeding /\ TopMates

(* In the grading loops TopMates says nothing.                             *)
LEMMA PopulationLoopKeeps ==
    ASSUME IInv, PopulationLoop
    PROVE  IInv'
<1> USE DEF IInv
<1>1. /\ at = "population" /\ i <= Len(warriors) /\ i' = i + 1 /\ at' = at
      /\ UNCHANGED people /\ UNCHANGED <<warriors, heritage>>
      /\ UNCHANGED <<num, total_score, roll, sorted, generation>>
  BY DEF PopulationLoop, people, breeding
<1>2. /\ warriors \in Seq(Uid) /\ i \in 1 .. Len(warriors) /\ warriors[i] \in Uid
  <2>1. warriors \in Seq(Uid) /\ i \in Nat \ {0}
    BY DEF People, PeopleTypes, Loops
  <2>2. QED
    BY <1>1, <2>1
<1>3. People'
  BY <1>1, PeopleFrame
<1>4. Fought(warriors[i]) <=> Done(score[warriors[i]])
  BY DEF Fought, Done
<1>5. CASE Fought(warriors[i])
  <2>1. UNCHANGED <<score, battles, all_fought>>
    BY <1>5 DEF PopulationLoop
  <2>2. Scores'
    BY <1>1, <2>1, ScoresFrame
  <2>3. Loops'
    BY <1>1, <2>1 DEF Loops
  <2>4. LookedAt'
    <3>1. i + 1 <= Len(warriors) + 1
      BY <1>1, <1>2
    <3>2. ASSUME all_fought, NEW k \in 1 .. (i + 1) - 1
          PROVE  Done(score[warriors[k]])
      <4>1. k \in 1 .. i - 1 \/ k = i
        BY <1>2
      <4>2. QED
        BY <1>1, <1>4, <1>5, <3>2, <4>1 DEF LookedAt
    <3>3. QED
      BY <1>1, <2>1, <3>1, <3>2 DEF LookedAt
  <2>5. QED
    BY <1>1, <1>3, <2>2, <2>3, <2>4 DEF Breeding, TopMates
<1>6. CASE ~Fought(warriors[i])
  <2>1. Fight(warriors[i]) /\ all_fought' = FALSE
    BY <1>6 DEF PopulationLoop
  <2>2. Scores'
    BY <1>1, <1>2, <2>1, FightScores
  <2>3. Loops'
    <3>1. i' \in Nat \ {0}
      BY <1>1 DEF Loops
    <3>2. all_fought' \in BOOLEAN
      BY <2>1
    <3>3. QED
      BY <1>1, <3>1, <3>2 DEF Loops
  <2>4. LookedAt'
    <3>1. i + 1 <= Len(warriors) + 1
      BY <1>1, <1>2
    <3>2. QED
      BY <1>1, <2>1, <3>1 DEF LookedAt
  <2>5. QED
    BY <1>1, <1>3, <2>2, <2>3, <2>4 DEF Breeding, TopMates
<1>7. QED
  BY <1>5, <1>6

LEMMA PopulationLoopedKeeps ==
    ASSUME IInv, PopulationLooped
    PROVE  IInv'
<1> USE DEF IInv
<1>1. /\ at = "population" /\ i > Len(warriors) /\ at' = "scheduler"
      /\ UNCHANGED people /\ UNCHANGED <<warriors, heritage, score, battles, i, all_fought>>
      /\ UNCHANGED <<num, total_score, roll, sorted, generation>>
  BY DEF PopulationLooped, people, breeding
<1>2. People' /\ Scores'
  BY <1>1, PeopleFrame, ScoresFrame
<1>3. Loops'
  BY <1>1 DEF Loops
<1>4. LookedAt'
  <2>1. warriors \in Seq(Uid) /\ i \in Nat
    BY DEF People, PeopleTypes, Loops
  <2>2. \A k \in DOMAIN warriors : k \in 1 .. i - 1
    BY <1>1, <2>1
  <2>3. all_fought => AllGraded
    BY <1>1, <2>2 DEF LookedAt, AllGraded
  <2>4. AllGraded' <=> AllGraded
    BY <1>1 DEF AllGraded
  <2>5. QED
    BY <1>1, <2>3, <2>4 DEF LookedAt
<1>5. QED
  BY <1>1, <1>2, <1>3, <1>4 DEF Breeding, TopMates

LEMMA BattleDoneKeeps ==
    ASSUME IInv, BattleDone
    PROVE  IInv'
<1> USE DEF IInv
<1>1. /\ at = "scheduler" /\ at' = at
      /\ UNCHANGED people /\ UNCHANGED <<warriors, heritage, i, all_fought>>
      /\ UNCHANGED <<num, total_score, roll, sorted, generation>>
  BY DEF BattleDone, people, breeding
<1>2. People'
  BY <1>1, PeopleFrame
<1>3. PICK v \in Uid : \E b \in DOMAIN score[v] :
         /\ score[v][b].pending # 0
         /\ \A w \in Uid : w # v => score'[w] = score[w]
  BY BattleDoneScores
<1>4. Scores'
  BY BattleDoneScores
<1>5. Loops'
  BY <1>1 DEF Loops
<1>6. LookedAt'
  <2>1. ASSUME AllGraded, NEW k \in DOMAIN warriors
        PROVE  Done(score'[warriors[k]])
    <3>1. warriors[k] \in Uid
      BY DEF People, PeopleTypes
    <3>2. Done(score[warriors[k]])
      BY <2>1 DEF AllGraded
    <3>3. warriors[k] # v
      BY <1>3, <3>2 DEF Done
    <3>4. QED
      BY <1>3, <3>1, <3>2, <3>3
  <2>2. AllGraded => AllGraded'
    BY <1>1, <2>1 DEF AllGraded
  <2>3. QED
    BY <1>1, <2>2 DEF LookedAt
<1>7. QED
  BY <1>1, <1>2, <1>4, <1>5, <1>6 DEF Breeding, TopMates

LEMMA SchedulerLoopedKeeps ==
    ASSUME IInv, SchedulerLooped
    PROVE  IInv'
<1> USE DEF IInv
<1>1. /\ at = "scheduler" /\ at' = IF all_fought THEN "breed" ELSE "population"
      /\ i' = 1 /\ all_fought' = TRUE
      /\ UNCHANGED people /\ UNCHANGED <<warriors, heritage, score, battles>>
      /\ UNCHANGED <<num, total_score, roll, sorted, generation>>
  BY DEF SchedulerLooped, people, breeding
<1>2. People' /\ Scores'
  BY <1>1, PeopleFrame, ScoresFrame
<1>3. Loops'
  BY <1>1 DEF Loops
<1>4. LookedAt'
  <2>1. AllGraded' <=> AllGraded
    BY <1>1 DEF AllGraded
  <2>2. Len(warriors) \in Nat /\ 1 <= Len(warriors) + 1 /\ 1 .. 1 - 1 = {}
    BY DEF People, PeopleTypes
  <2>3. QED
    BY <1>1, <2>1, <2>2 DEF LookedAt, Loops
<1>5. QED
  BY <1>1, <1>2, <1>3, <1>4 DEF Breeding, TopMates, Loops

(* Nobody new in the population, and no score touched.                     *)
LEMMA AllGradedFrame ==
    ASSUME AllGraded, UNCHANGED score, ToSet(warriors') \subseteq ToSet(warriors)
    PROVE  AllGraded'
<1>1. \A w \in ToSet(warriors) : Done(score[w])
  BY DEF AllGraded, ToSet
<1>2. \A k \in DOMAIN warriors' : warriors'[k] \in ToSet(warriors')
  BY DEF ToSet
<1>3. QED
  BY <1>1, <1>2 DEF AllGraded

(* breed() sorts, retires, sums up, rolls and mates.                       *)
LEMMA SortKeeps ==
    ASSUME IInv, Sort
    PROVE  IInv'
<1> USE DEF IInv
<1>1. /\ at = "breed" /\ at' = "retire" /\ i' = 1 /\ generation < MaxGenerations
      /\ num' = Len(warriors) \div 3
      /\ UNCHANGED <<old_warriors, heritage, child_count, score, battles,
                     all_fought, total_score, roll, sorted, generation>>
  BY DEF Sort
<1>2. Len(warriors) \in Nat
  BY DEF People, PeopleTypes
<1>3. sorted \in 0 .. Len(warriors)
  BY <1>1, <1>2 DEF Breeding, Loops
<1>4. /\ People' /\ Len(warriors') = Len(warriors)
      /\ ToSet(warriors') = ToSet(warriors)
  BY <1>3, SortPeople
<1>5. Scores'
  BY <1>1, ScoresFrame
<1>6. num' \in Nat /\ 3 * num' <= Len(warriors)
  BY <1>1, <1>2
<1>7. Loops'
  BY <1>1, <1>6 DEF Loops
<1>8. LookedAt'
  BY <1>1, <1>4, AllGradedFrame DEF LookedAt
<1>9. Breeding'
  BY <1>1, <1>2, <1>4, <1>6 DEF Breeding
<1>10. TopMates'
  BY <1>1 DEF TopMates
<1>11. QED
  BY <1>4, <1>5, <1>7, <1>8, <1>9, <1>10

LEMMA RetireKeeps ==
    ASSUME IInv, Retire
    PROVE  IInv'
<1> USE DEF IInv
<1>1. /\ at = "retire" /\ i <= num /\ warriors # <<>> /\ warriors' = Front(warriors)
      /\ \/ at' = "crashed" /\ UNCHANGED i
         \/ at' = at /\ i' = i + 1
      /\ UNCHANGED <<heritage, score, battles, all_fought>>
      /\ UNCHANGED <<num, total_score, roll, sorted, generation>>
  BY DEF Retire, breeding
<1>2. /\ People' /\ Scores'
  BY <1>1, RetirePeople, ScoresFrame
<1>3. /\ Len(warriors) \in Nat \ {0} /\ Len(warriors') = Len(warriors) - 1
      /\ ToSet(warriors') \subseteq ToSet(warriors)
  <2>1. warriors \in Seq(Uid)
    BY DEF People, PeopleTypes
  <2>2. QED
    BY <1>1, <2>1, FrontFacts
<1>4. i \in Nat \ {0} /\ i' \in Nat \ {0} /\ num \in Nat
  BY <1>1 DEF Loops
<1>5. Loops'
  BY <1>1, <1>4 DEF Loops
<1>6. LookedAt'
  BY <1>1, <1>3, AllGradedFrame DEF LookedAt
<1>7. Breeding'
  <2>1. CASE at' = "crashed"
    BY <2>1 DEF Breeding
  <2>2. CASE at' = at /\ i' = i + 1
    <3>1. /\ i + 1 <= num + 1
          /\ 3 * num <= Len(warriors) + (i - 1)
      BY <1>1, <1>4 DEF Breeding
    <3>2. 3 * num <= (Len(warriors) - 1) + ((i + 1) - 1)
      BY <1>3, <1>4, <3>1
    <3>3. QED
      BY <1>1, <1>3, <2>2, <3>1, <3>2 DEF Breeding
  <2>3. QED
    BY <1>1, <2>1, <2>2
<1>8. TopMates'
  BY <1>1 DEF TopMates
<1>9. QED
  BY <1>2, <1>5, <1>6, <1>7, <1>8

LEMMA MinOfTwo ==
    ASSUME NEW a \in Nat, NEW b \in Nat, a <= b
    PROVE  Min({a, b}) = a
<1>1. Min({a, b}) \in {a, b} /\ Min({a, b}) <= a
  BY MinIs
<1>2. QED
  BY <1>1

LEMMA RetiredKeeps ==
    ASSUME IInv, Retired
    PROVE  IInv'
<1> USE DEF IInv
<1>1. /\ at = "retire" /\ (i > num \/ warriors = <<>>)
      /\ total_score' = Arc(Min({num, Len(warriors)}))
      /\ at' = "lucky" /\ i' = 1
      /\ UNCHANGED people /\ UNCHANGED <<warriors, heritage, score, battles, all_fought>>
      /\ UNCHANGED <<num, roll, sorted, generation>>
  BY DEF Retired, people
<1>2. People' /\ Scores'
  BY <1>1, PeopleFrame, ScoresFrame
<1>3. /\ warriors \in Seq(Uid) /\ Len(warriors) \in Nat /\ num \in Nat /\ i \in Nat \ {0}
      /\ (warriors = <<>> => Len(warriors) = 0)
  BY DEF People, PeopleTypes, Loops
<1>4. num <= Len(warriors)
  BY <1>1, <1>3 DEF Breeding
<1>5. total_score' = Arc(num)
  BY <1>1, <1>3, <1>4, MinOfTwo
<1>6. total_score' \in Nat
  <2>1. num \in 0 .. Len(warriors)
    BY <1>3, <1>4
  <2>2. Arc(num) \in Nat
    BY <1>3, <2>1, ArcType DEF Scores
  <2>3. QED
    BY <1>5, <2>2
<1>7. Loops'
  BY <1>1, <1>6 DEF Loops
<1>8. LookedAt'
  BY <1>1 DEF LookedAt
<1>9. Breeding'
  <2>1. ASSUME NEW j \in Nat, j = num'
        PROVE  total_score' = Arc(j)'
    <3>1. Arc(j)' = Arc(j)
      BY <1>1, ArcSame
    <3>2. QED
      BY <1>1, <1>5, <2>1, <3>1
  <2>2. 1 <= num + 1 /\ num <= Len(warriors) - (1 - 1)
    BY <1>3, <1>4
  <2>3. QED
    BY <1>1, <2>1, <2>2 DEF Breeding
<1>10. TopMates'
  BY <1>1 DEF TopMates
<1>11. QED
  BY <1>2, <1>7, <1>8, <1>9, <1>10

LEMMA RollKeeps ==
    ASSUME IInv, Roll
    PROVE  IInv'
<1> USE DEF IInv
<1>1. /\ at = "lucky" /\ i <= num /\ at' = "wheel" /\ roll' \in Irand(total_score)
      /\ UNCHANGED people /\ UNCHANGED <<warriors, heritage, score, battles, i, all_fought>>
      /\ UNCHANGED <<num, total_score, sorted, generation>>
  BY DEF Roll, people
<1>2. People' /\ Scores'
  BY <1>1, PeopleFrame, ScoresFrame
<1>3. roll' \in Int /\ roll' <= total_score
  BY <1>1 DEF Irand, Loops
<1>4. Loops'
  BY <1>1, <1>3 DEF Loops
<1>5. LookedAt'
  BY <1>1 DEF LookedAt
<1>6. Breeding'
  <2>1. ASSUME NEW j \in Nat, j = num'
        PROVE  total_score' = Arc(j)'
    <3>1. Arc(j)' = Arc(j)
      BY <1>1, ArcSame
    <3>2. QED
      BY <1>1, <2>1, <3>1 DEF Breeding
  <2>2. QED
    BY <1>1, <1>3, <2>1 DEF Breeding
<1>7. TopMates'
  BY <1>1 DEF TopMates
<1>8. QED
  BY <1>2, <1>4, <1>5, <1>6, <1>7

(* The ball stops within the arc that total_score measures.                *)
LEMMA StopIsTop ==
    ASSUME IInv, at = "wheel"
    PROVE  /\ Stops # {} /\ Stop \in 1 .. num /\ i \in 1 .. num
           /\ num \in Nat /\ Len(warriors) \in Nat /\ num <= Len(warriors) - (i - 1)
<1> USE DEF IInv
<1>1. /\ warriors \in Seq(Uid) /\ Len(warriors) \in Nat /\ num \in Nat /\ i \in Nat \ {0}
      /\ roll \in Int /\ total_score \in Nat
  BY DEF People, PeopleTypes, Loops
<1>2. /\ i <= num /\ roll <= total_score /\ num <= Len(warriors) - (i - 1)
      /\ total_score = Arc(num)
  BY <1>1 DEF Breeding
<1>3. num \in Stops /\ Stops \in SUBSET Nat
  BY <1>1, <1>2 DEF Stops
<1>4. Stop \in Stops /\ Stop <= num
  BY <1>3, MinIs DEF Stop
<1>5. Stop \in 1 .. Len(warriors)
  BY <1>4 DEF Stops
<1>6. QED
  BY <1>1, <1>2, <1>3, <1>4, <1>5

LEMMA TurnWheelKeeps ==
    ASSUME IInv, TurnWheel
    PROVE  IInv'
<1> USE DEF IInv
<1>1. /\ at = "wheel" /\ at' = at
      /\ roll' = IF Stops = {} THEN roll - Arc(Len(warriors)) ELSE 0
      /\ UNCHANGED people /\ UNCHANGED <<warriors, heritage, score, battles, i, all_fought>>
      /\ UNCHANGED <<num, total_score, sorted, generation>>
  BY DEF TurnWheel, people
<1>2. People' /\ Scores'
  BY <1>1, PeopleFrame, ScoresFrame
<1>3. roll' = 0
  BY <1>1, StopIsTop
<1>4. Loops'
  BY <1>1, <1>3 DEF Loops
<1>5. LookedAt'
  BY <1>1 DEF LookedAt
<1>6. Breeding'
  <2>1. ASSUME NEW j \in Nat, j = num'
        PROVE  total_score' = Arc(j)'
    <3>1. Arc(j)' = Arc(j)
      BY <1>1, ArcSame
    <3>2. QED
      BY <1>1, <2>1, <3>1 DEF Breeding
  <2>2. 0 <= total_score
    BY DEF Loops
  <2>3. QED
    BY <1>1, <1>3, <2>1, <2>2 DEF Breeding
<1>7. TopMates'
  BY <1>1 DEF TopMates
<1>8. QED
  BY <1>2, <1>4, <1>5, <1>6, <1>7

LEMMA BredKeeps ==
    ASSUME IInv, Bred
    PROVE  IInv'
<1> USE DEF IInv
<1>1. /\ at = "lucky" /\ generation' = generation + 1
      /\ sorted' = Len(warriors) - (i - 1)
      /\ at' = "population" /\ i' = 1
      /\ num' = 0 /\ total_score' = 0 /\ roll' = 0
      /\ UNCHANGED people /\ UNCHANGED <<warriors, heritage, score, battles, all_fought>>
  BY DEF Bred, people
<1>2. People' /\ Scores'
  BY <1>1, PeopleFrame, ScoresFrame
<1>3. /\ Len(warriors) \in Nat /\ num \in Nat /\ i \in Nat \ {0}
      /\ num <= Len(warriors) - (i - 1)
      /\ generation \in 0 .. MaxGenerations /\ generation < MaxGenerations
  BY <1>1 DEF People, PeopleTypes, Loops, Breeding
<1>4. sorted' \in Nat /\ sorted' <= Len(warriors) /\ generation' \in 0 .. MaxGenerations
  BY <1>1, <1>3
<1>5. Loops'
  BY <1>1, <1>4 DEF Loops
<1>6. LookedAt'
  <2>1. 1 <= Len(warriors) + 1 /\ 1 .. 1 - 1 = {}
    BY <1>3
  <2>2. QED
    BY <1>1, <2>1 DEF LookedAt
<1>7. Breeding'
  BY <1>1, <1>4 DEF Breeding
<1>8. TopMates'
  BY <1>1 DEF TopMates
<1>9. QED
  BY <1>2, <1>5, <1>6, <1>7, <1>8

LEMMA MateKeeps ==
    ASSUME IInv, Mate
    PROVE  IInv'
<1> USE DEF IInv
<1> DEFINE n == Len(heritage)
           m == Len(warriors)
           a == warriors[i]
           b == warriors[Stop]
<1>1. /\ at = "wheel" /\ at' = "lucky" /\ Stop # i /\ i' = i + 1 /\ roll' = 0
      /\ heritage' = Append(heritage, <<a, b>>)
      /\ child_count' = Append([w \in DOMAIN child_count |->
                  IF w \in ToSet(<<a, b>>) THEN child_count[w] + 1
                                          ELSE child_count[w]], 0)
      /\ score' = Append(score, <<>>)
      /\ warriors' = Append(warriors, n + 1)
      /\ UNCHANGED <<old_warriors, battles, all_fought, num, total_score, sorted,
                     generation>>
  BY DEF Mate
<1>2. /\ Stop \in 1 .. num /\ i \in 1 .. num /\ num \in Nat /\ m \in Nat
      /\ num <= m - (i - 1)
  BY <1>1, StopIsTop
<1> DEFINE s == Stop
<1> HIDE DEF s
<1>3. /\ warriors \in Seq(Uid) /\ n \in Nat /\ Uid = 1 .. n
      /\ \A k \in 1 .. m : warriors[k] \in Uid
      /\ heritage \in Seq({<<>>} \cup (Uid \X Uid))
  BY DEF People, PeopleTypes, Uid
<1>4. /\ i \in 1 .. m /\ s \in 1 .. num /\ s \in 1 .. m /\ s # i /\ b = warriors[s]
      /\ \A k \in 1 .. num : k \in 1 .. m
  BY <1>1, <1>2 DEF s
<1>5. a \in Uid /\ b \in Uid
  BY <1>3, <1>4
<1>6. People'
  <2> HIDE DEF a, b
  <2>1. UNCHANGED old_warriors /\ at # "crashed"
    BY <1>1
  <2>2. QED
    BY <1>1, <1>5, <2>1, BirthPeople DEF n
<1>7. /\ Len(heritage') = n + 1 /\ heritage'[n + 1] = <<a, b>>
      /\ \A c \in Uid : heritage'[c] = heritage[c]
  <2> DEFINE V == {<<>>} \cup (Uid \X Uid)
             x == <<a, b>>
  <2>1. heritage \in Seq(V) /\ x \in V
    BY <1>3, <1>5
  <2> HIDE DEF V, x, a, b
  <2>2. /\ Len(Append(heritage, x)) = Len(heritage) + 1
        /\ \A c \in 1 .. Len(heritage) : Append(heritage, x)[c] = heritage[c]
        /\ Append(heritage, x)[Len(heritage) + 1] = x
    BY <2>1, AppendFacts
  <2>3. heritage' = Append(heritage, x)
    BY <1>1 DEF x
  <2>4. QED
    BY <1>3, <2>2, <2>3 DEF x
<1>8. Scores'
  BY <1>1, <1>7, BirthScores
<1>9. /\ Len(warriors') = m + 1 /\ warriors'[m + 1] = n + 1
      /\ \A k \in 1 .. m : warriors'[k] = warriors[k]
  BY <1>1, <1>3
<1>10. \A w \in Uid : score'[w] = score[w]
  BY <1>1, <1>3 DEF Scores, ScoreTypes
<1> HIDE DEF n, m, a, b
<1>11. Loops'
  BY <1>1, <1>2 DEF Loops
<1>12. LookedAt'
  BY <1>1 DEF LookedAt
<1>13. Breeding'
  <2>1. ASSUME NEW j \in Nat, j = num'
        PROVE  total_score' = Arc(j)'
    <3>1. j = num
      BY <1>1, <2>1
    <3>2. \A k \in 1 .. j : score'[warriors'[k]] = score[warriors[k]]
      BY <1>3, <1>4, <1>9, <1>10, <3>1
    <3>3. Arc(j)' = Arc(j)
      BY <3>2, ArcSame
    <3>4. QED
      BY <1>1, <2>1, <3>1, <3>3 DEF Breeding
  <2>2. i + 1 <= num + 1 /\ num <= (m + 1) - ((i + 1) - 1)
    BY <1>2
  <2>3. generation < MaxGenerations
    BY <1>1 DEF Breeding
  <2>4. QED
    BY <1>1, <1>9, <2>1, <2>2, <2>3 DEF Breeding
<1>14. ASSUME NEW k \in 1 .. i
       PROVE  LET child == warriors'[(m + 1) - i + k]
              IN  /\ heritage'[child][1] = warriors'[k]
                  /\ heritage'[child][2] \in {warriors'[j] : j \in (1 .. num) \ {k}}
  <2>1. k \in 1 .. num
    BY <1>2
  <2>2. CASE k = i
    <3>1. (m + 1) - i + k = m + 1
      BY <1>2, <2>2
    <3>2. heritage'[warriors'[m + 1]] = <<a, b>>
      BY <1>7, <1>9
    <3>3. a = warriors'[k] /\ b = warriors'[s] /\ s \in (1 .. num) \ {k}
      BY <1>4, <1>9, <2>2 DEF a
    <3>4. <<a, b>>[1] = a /\ <<a, b>>[2] = b
      OBVIOUS
    <3>5. QED
      BY <3>1, <3>2, <3>3, <3>4
  <2>3. CASE k # i
    <3> DEFINE c == m - (i - 1) + k
    <3>1. /\ k \in 1 .. i - 1 /\ (m + 1) - i + k = c /\ c \in 1 .. m
      BY <1>2, <2>3
    <3>2. /\ heritage[warriors[c]][1] = warriors[k]
          /\ heritage[warriors[c]][2] \in {warriors[j] : j \in (1 .. num) \ {k}}
      BY <1>1, <3>1 DEF TopMates, m
    <3> HIDE DEF c
    <3>3. warriors'[c] = warriors[c] /\ heritage'[warriors[c]] = heritage[warriors[c]]
      BY <1>3, <1>7, <1>9, <3>1 DEF m
    <3>4. \A j \in 1 .. num : warriors'[j] = warriors[j]
      BY <1>4, <1>9
    <3>5. {warriors'[j] : j \in (1 .. num) \ {k}} = {warriors[j] : j \in (1 .. num) \ {k}}
      BY <3>4
    <3>6. QED
      BY <2>1, <3>1, <3>2, <3>3, <3>4, <3>5
  <2>4. QED
    BY <2>2, <2>3
<1>15. TopMates'
  <2>1. num' = num /\ i' - 1 = i /\ Len(warriors') - (i' - 1) = (m + 1) - i
    BY <1>1, <1>2, <1>9
  <2>2. QED
    BY <1>14, <2>1 DEF TopMates
<1>16. QED
  BY <1>6, <1>8, <1>11, <1>12, <1>13, <1>15

-----------------------------------------------------------------------------
(* The initial state, and the invariant in all of them.                    *)

LEMMA InitPeople ==
    ASSUME Init
    PROVE  People
<1> DEFINE n == Founders + Children
<1>1. n \in Nat /\ 1 \in 1 .. n /\ 2 \in 1 .. n
  OBVIOUS
<1>2. /\ warriors = [k \in 1 .. n |-> k] /\ old_warriors = <<>>
      /\ heritage = [k \in 1 .. n |-> IF k <= Founders THEN <<>> ELSE <<1, 2>>]
      /\ child_count = [k \in 1 .. n |-> IF k <= 2 THEN Children ELSE 0]
  BY DEF Init
<1> HIDE DEF n
<1>3. Len(heritage) = n /\ Uid = 1 .. n
  BY <1>1, <1>2 DEF Uid
<1>4. PeopleTypes
  <2>1. \A k \in 1 .. n : heritage[k] \in {<<>>} \cup (Uid \X Uid)
    BY <1>1, <1>2, <1>3
  <2>2. heritage \in Seq({<<>>} \cup (Uid \X Uid))
    <3> DEFINE V == {<<>>} \cup (Uid \X Uid)
    <3>1. heritage = [k \in 1 .. n |-> heritage[k]]
      BY <1>2
    <3>2. \A k \in 1 .. n : heritage[k] \in V
      BY <2>1
    <3> HIDE DEF V
    <3>3. heritage \in Seq(V)
      BY <1>1, <3>1, <3>2
    <3>4. QED
      BY <3>3 DEF V
  <2>3. warriors \in Seq(Uid) /\ old_warriors \in Seq(Uid)
    BY <1>1, <1>2, <1>3
  <2>4. child_count \in Seq(Nat) /\ Len(child_count) = n
    BY <1>1, <1>2
  <2>5. QED
    BY <1>1, <1>3, <2>2, <2>3, <2>4 DEF PeopleTypes
<1>5. ToSet(warriors) = Uid /\ IsInjective(warriors)
  BY <1>2, <1>3 DEF ToSet, IsInjective
<1>6. ToSet(old_warriors) = {} /\ IsInjective(old_warriors)
  <2>1. DOMAIN old_warriors = {}
    BY <1>2
  <2>2. QED
    BY <2>1 DEF ToSet, IsInjective
<1>7. ASSUME NEW w \in Uid
      PROVE  child_count[w] = Cardinality(Kids(w))
  <2>1. DOMAIN <<>> = {} /\ ToSet(<<>>) = {}
    BY DEF ToSet
  <2>2. \A c \in 1 .. n : ToSet(heritage[c]) = IF c <= Founders THEN {} ELSE {1, 2}
    <3>1. ToSet(<<1, 2>>) = {1, 2}
      BY DEF ToSet
    <3>2. QED
      BY <1>2, <2>1, <3>1
  <2>3. Kids(w) = IF w <= 2 THEN Founders + 1 .. n ELSE {}
    <3>1. w \in {1, 2} <=> w <= 2
      BY <1>1, <1>3
    <3>2. \A c \in 1 .. n : ~(c <= Founders) <=> c \in Founders + 1 .. n
      BY <1>1
    <3>3. \A c \in Founders + 1 .. n : c \in 1 .. n
      BY <1>1
    <3>4. QED
      BY <1>3, <1>5, <2>2, <3>1, <3>2, <3>3 DEF Kids
  <2>4. Cardinality(Founders + 1 .. n) = Children
    <3>1. Founders + 1 \in Int /\ n \in Int /\ Founders + 1 <= n + 1
          /\ n - (Founders + 1) + 1 = Children
      BY <1>1 DEF n
    <3>2. Cardinality(Founders + 1 .. n) = n - (Founders + 1) + 1
      BY <3>1, IntervalSize
    <3>3. QED
      BY <3>1, <3>2
  <2>5. Cardinality({}) = 0
    BY FS_EmptySet
  <2>6. QED
    BY <1>2, <1>3, <2>3, <2>4, <2>5
<1>8. Families
  BY <1>5, <1>6, <1>7 DEF Families
<1>9. QED
  BY <1>4, <1>8 DEF People

LEMMA InitIInv ==
    ASSUME Init
    PROVE  IInv
<1> DEFINE n == Founders + Children
<1>1. People
  BY InitPeople
<1>2. Scores
  <2>1. /\ n \in Nat /\ score = [k \in 1 .. n |-> <<>>] /\ battles = <<>>
        /\ Len(heritage) = n
    BY DEF Init
  <2> HIDE DEF n
  <2>2. score \in Seq(Scored) /\ Len(score) = n
    BY <2>1 DEF Scored
  <2>3. battles \in Seq(Report) /\ DOMAIN battles = {}
    BY <2>1
  <2>4. ScoreTypes
    BY <2>1, <2>2, <2>3 DEF ScoreTypes
  <2>5. \A w \in Uid : DOMAIN score[w] = {}
    <3>1. DOMAIN <<>> = {}
      OBVIOUS
    <3>2. \A w \in Uid : score[w] = <<>>
      BY <2>1 DEF Uid
    <3>3. QED
      BY <3>1, <3>2
  <2>6. QED
    BY <2>3, <2>4, <2>5 DEF Scores
<1>3. Loops
  BY DEF Init, Loops
<1>4. at = "population" /\ i = 1 /\ sorted = 0
  BY DEF Init
<1>5. Len(warriors) \in Nat /\ 1 .. 1 - 1 = {}
  BY <1>1 DEF People, PeopleTypes
<1>6. LookedAt /\ Breeding /\ TopMates
  BY <1>4, <1>5 DEF LookedAt, Breeding, TopMates
<1>7. QED
  BY <1>1, <1>2, <1>3, <1>6 DEF IInv

LEMMA StutterKeeps ==
    ASSUME IInv, UNCHANGED vars
    PROVE  IInv'
<1>1. UNCHANGED <<warriors, old_warriors, heritage, child_count, score, battles, at,
          i, all_fought, num, total_score, roll, sorted, generation>>
  BY DEF vars
<1>2. People'
  BY <1>1 DEF IInv, People, PeopleTypes, Families, Kids, Uid
<1>3. Scores'
  BY <1>1, ScoresFrame DEF IInv
<1>4. Loops' /\ LookedAt' /\ TopMates'
  BY <1>1 DEF IInv, Loops, LookedAt, AllGraded, TopMates
<1>5. Breeding'
  <2>1. ASSUME at \in {"lucky", "wheel"}, NEW j \in Nat, j = num'
        PROVE  total_score' = Arc(j)'
    <3>1. Arc(j)' = Arc(j)
      BY <1>1, ArcSame
    <3>2. QED
      BY <1>1, <2>1, <3>1 DEF IInv, Breeding
  <2>2. QED
    BY <1>1, <2>1 DEF IInv, Breeding
<1>6. QED
  BY <1>2, <1>3, <1>4, <1>5 DEF IInv

(* The invariant is inductive.                                             *)
LEMMA Invariance == Spec => []IInv
<1>1. Init => IInv
  BY InitIInv
<1>2. IInv /\ [Next]_vars => IInv'
  BY PopulationLoopKeeps, PopulationLoopedKeeps, BattleDoneKeeps,
     SchedulerLoopedKeeps, SortKeeps, RetireKeeps, RetiredKeeps, RollKeeps,
     MateKeeps, TurnWheelKeeps, BredKeeps, StutterKeeps DEF Next, Grading
<1>3. QED
  BY <1>1, <1>2, PTL DEF Spec

-----------------------------------------------------------------------------
(* What the invariant implies.                                             *)

(* Points within what the battles fought could earn are within range.      *)
LEMMA ScoreBounded ==
    ASSUME NEW s \in Nat, NEW p \in 0 .. NEnemies,
           s <= 3 * Rounds * (NEnemies - p)
    PROVE  s \in 0 .. 3 * Rounds * NEnemies
<1> DEFINE c == 3 * Rounds
           x == c * p
           y == c * (NEnemies - p)
           z == c * NEnemies
<1>1. c \in Nat /\ p \in Nat /\ NEnemies \in Nat /\ NEnemies - p \in Nat
  OBVIOUS
<1> HIDE DEF c
<1>2. x \in Nat /\ y \in Nat /\ z \in Nat /\ y + x = z
  BY <1>1
<1>3. s <= y
  BY DEF c
<1> HIDE DEF x, y, z
<1>4. s \in 0 .. z
  BY <1>2, <1>3
<1>5. QED
  BY <1>4 DEF z, c

LEMMA EntryBounded ==
    ASSUME Scores, NEW w \in Uid, NEW b \in DOMAIN score[w]
    PROVE  /\ b \in Benchmarks
           /\ score[w][b] \in [pending : 0 .. NEnemies, normalised : 0 .. Scale,
                               score : 0 .. 3 * Rounds * NEnemies]
<1>1. score[w] \in Scored
  BY DEF Scores, ScoreTypes, Uid
<1>2. b \in Benchmarks /\ score[w][b] \in Entry
  BY <1>1, ScoredType
<1>3. PICK p \in 0 .. NEnemies, s \in Nat, n \in 0 .. Scale :
         score[w][b] = [pending |-> p, score |-> s, normalised |-> n]
  BY <1>2 DEF Entry
<1>4. score[w][b].pending = p /\ score[w][b].score = s
  BY <1>3
<1>5. s <= 3 * Rounds * (NEnemies - p)
  BY <1>4 DEF Scores
<1>6. s \in 0 .. 3 * Rounds * NEnemies
  BY <1>5, ScoreBounded
<1>7. score[w][b] = [pending |-> p, normalised |-> n, score |-> s]
  BY <1>3
<1>8. QED
  BY <1>2, <1>6, <1>7

LEMMA PeopleTyped ==
    ASSUME PeopleTypes
    PROVE  /\ warriors \in Seq(Uid) /\ old_warriors \in Seq(Uid)
           /\ \A w \in Uid : heritage[w] \in {<<>>} \cup (Uid \X Uid)
           /\ child_count \in [Uid -> Nat]
<1>1. \A w \in Uid : heritage[w] \in {<<>>} \cup (Uid \X Uid)
  BY DEF PeopleTypes, Uid
<1>2. child_count \in [Uid -> Nat]
  BY DEF PeopleTypes, Uid
<1>3. QED
  BY <1>1, <1>2 DEF PeopleTypes

(* Two sequences without repetitions or common members make a third one.   *)
LEMMA TwoParts ==
    ASSUME NEW V, NEW s \in Seq(V), NEW t \in Seq(V),
           IsInjective(s), IsInjective(t), ToSet(s) \cap ToSet(t) = {}
    PROVE  IsInjective(s \o t) /\ ToSet(s \o t) = ToSet(s) \cup ToSet(t)
<1> DEFINE m == Len(s)
           l == Len(t)
           both == s \o t
<1>1. /\ m \in Nat /\ l \in Nat /\ DOMAIN both = 1 .. m + l
      /\ DOMAIN s = 1 .. m /\ DOMAIN t = 1 .. l
      /\ \A k \in 1 .. m + l : both[k] = IF k <= m THEN s[k] ELSE t[k - m]
  OBVIOUS
<1> HIDE DEF m, l, both
<1>2. \A k \in 1 .. m : k \in 1 .. m + l /\ both[k] = s[k]
  BY <1>1
<1>3. \A k \in 1 .. l : m + k \in 1 .. m + l /\ both[m + k] = t[k]
  BY <1>1
<1>4. \A k \in 1 .. m + l : k \in 1 .. m \/ \E j \in 1 .. l : k = m + j
  <2>1. ASSUME NEW k \in 1 .. m + l, k \notin 1 .. m
        PROVE  k - m \in 1 .. l /\ k = m + (k - m)
    BY <1>1, <2>1
  <2>2. QED
    BY <2>1
<1>5. /\ \A x : x \in ToSet(s) <=> \E k \in 1 .. m : x = s[k]
      /\ \A x : x \in ToSet(t) <=> \E k \in 1 .. l : x = t[k]
      /\ \A x : x \in ToSet(both) <=> \E k \in 1 .. m + l : x = both[k]
  BY <1>1, Zenon DEF ToSet
<1>6. ToSet(both) = ToSet(s) \cup ToSet(t)
  <2>1. ASSUME NEW x
        PROVE  x \in ToSet(both) <=> x \in ToSet(s) \/ x \in ToSet(t)
    BY <1>2, <1>3, <1>4, <1>5
  <2>2. QED
    BY <2>1
<1>7. \A k \in 1 .. m, j \in 1 .. l : s[k] # t[j]
  BY <1>5
<1>8. /\ \A k1 \in 1 .. m, k2 \in 1 .. m : s[k1] = s[k2] => k1 = k2
      /\ \A k1 \in 1 .. l, k2 \in 1 .. l : t[k1] = t[k2] => k1 = k2
  BY <1>1 DEF IsInjective
<1>9. ASSUME NEW k1 \in 1 .. m + l, NEW k2 \in 1 .. m + l, both[k1] = both[k2]
      PROVE  k1 = k2
  BY <1>2, <1>3, <1>4, <1>7, <1>8, <1>9
<1>10. IsInjective(both)
  BY <1>1, <1>9 DEF IsInjective
<1>11. QED
  BY <1>6, <1>10 DEF both

(* Every variable of the evolver keeps its type, and a score stays within  *)
(* what the results of the battles can add up to.                          *)
THEOREM TypeTheorem == Spec => []TypeOK
<1>1. IInv => TypeOK
  <2> SUFFICES ASSUME IInv PROVE TypeOK
    OBVIOUS
  <2>1. PeopleTypes /\ Scores /\ ScoreTypes /\ Loops /\ Breeding
    BY DEF IInv, People, Scores
  <2>2. /\ warriors \in Seq(Uid) /\ old_warriors \in Seq(Uid)
        /\ \A w \in Uid : heritage[w] \in {<<>>} \cup (Uid \X Uid)
        /\ child_count \in [Uid -> Nat]
    BY <2>1, PeopleTyped
  <2>3. DOMAIN score = Uid
    BY <2>1 DEF ScoreTypes, Uid
  <2>4. \A w \in Uid : \A b \in DOMAIN score[w] :
          /\ b \in Benchmarks
          /\ score[w][b] \in [pending : 0 .. NEnemies, normalised : 0 .. Scale,
                              score : 0 .. 3 * Rounds * NEnemies]
    BY <2>1, EntryBounded
  <2>5. \A k \in DOMAIN battles :
          battles[k] \in [warrior : Uid, benchmark : Benchmarks,
                         result : Outcomes]
    <3>1. \A k \in DOMAIN battles : battles[k] \in Report
      BY <2>1 DEF ScoreTypes
    <3>2. QED
      BY <3>1 DEF Report
  <2>6. sorted \in 0 .. Len(warriors) \/ at \in {"retire", "crashed", "lucky", "wheel"}
    <3>1. Len(warriors) \in Nat
      BY <2>2
    <3>2. QED
      BY <2>1, <3>1 DEF Loops, Breeding
  <2>7. QED
    BY <2>1, <2>2, <2>3, <2>4, <2>5, <2>6 DEF TypeOK, Loops
<1>2. QED
  BY <1>1, Invariance, PTL

(* battle_done() is called once for every battle that a warrior waits for, *)
(* whatever order the population and the scheduler loop in, and no result  *)
(* is added twice.                                                         *)
THEOREM PendingTheorem == Spec => []PendingIsScheduled
<1>1. IInv => PendingIsScheduled
  <2> SUFFICES ASSUME Scores, NEW w \in Uid, NEW b \in DOMAIN score[w]
               PROVE  /\ score[w][b].pending =
                           Cardinality({k \in DOMAIN battles :
                              /\ battles[k].warrior = w /\ battles[k].benchmark = b})
                      /\ score[w][b].score <= 3 * Rounds * (NEnemies - score[w][b].pending)
    BY DEF IInv, PendingIsScheduled
  <2>1. \A k \in DOMAIN battles : battles[k] \in Report
    BY DEF Scores, ScoreTypes
  <2>2. \A k \in DOMAIN battles :
           battles[k] \in For(w, b) <=>
              battles[k].warrior = w /\ battles[k].benchmark = b
    BY <2>1 DEF Report, For
  <2>3. Where(battles, For(w, b)) =
          {k \in DOMAIN battles : battles[k].warrior = w /\ battles[k].benchmark = b}
    BY <2>2 DEF Where
  <2>4. score[w][b].pending = Cardinality(Where(battles, For(w, b)))
    BY DEF Scores, Count
  <2>5. score[w][b].score <= 3 * Rounds * (NEnemies - score[w][b].pending)
    BY DEF Scores
  <2>6. QED
    BY <2>3, <2>4, <2>5
<1>2. QED
  BY <1>1, Invariance, PTL

(* breed() finds the whole population graded by every benchmark.           *)
THEOREM GradesTheorem == Spec => []BreedOnGrades
<1>1. IInv => BreedOnGrades
  <2> SUFFICES ASSUME IInv, at \in {"breed", "retire"}, NEW k \in DOMAIN warriors
               PROVE  LET graded == score[warriors[k]]
                      IN  /\ DOMAIN graded = Benchmarks
                          /\ \A b \in Benchmarks : graded[b].pending = 0
    BY DEF BreedOnGrades
  <2>1. Done(score[warriors[k]])
    BY DEF IInv, LookedAt, AllGraded
  <2>2. warriors[k] \in Uid
    BY DEF IInv, People, PeopleTypes
  <2>3. score[warriors[k]] \in Scored
    BY <2>2 DEF IInv, Scores, ScoreTypes, Uid
  <2>4. DOMAIN score[warriors[k]] = Benchmarks
    BY <2>1, <2>3, ScoredType DEF Done
  <2>5. QED
    BY <2>1, <2>4 DEF Done
<1>2. QED
  BY <1>1, Invariance, PTL

(* Sorting, retiring and mating keep every warrior in one place, once, so  *)
(* that ~CPopulation() deletes each exactly once.                          *)
THEOREM OwnedTheorem == Spec => []OwnedOnce
<1>1. IInv => OwnedOnce
  <2>1. IInv /\ at # "crashed" => PeopleTypes /\ Families
    BY DEF IInv, People
  <2>2. PeopleTypes /\ Families =>
          /\ IsInjective(warriors \o old_warriors)
          /\ ToSet(warriors \o old_warriors) =
                ToSet(warriors) \cup ToSet(old_warriors)
    BY TwoParts DEF PeopleTypes, Families
  <2>3. QED
    BY <2>1, <2>2 DEF Families, OwnedOnce
<1>2. QED
  BY <1>1, Invariance, PTL

(* A warrior's _child_count is the number of its children in the           *)
(* population: DecChildCount() never meets a zero.                         *)
THEOREM ChildrenTheorem == Spec => []ChildrenCounted
<1>1. IInv => ChildrenCounted
  BY DEF IInv, People, Families, Kids, ChildrenCounted
<1>2. QED
  BY <1>1, Invariance, PTL

(* Each of the first num warriors fathers one child, with another of them. *)
THEOREM MatesTheorem == Spec => []TopMates
<1>1. IInv => TopMates
  BY DEF IInv
<1>2. QED
  BY <1>1, Invariance, PTL
===============================================================================
