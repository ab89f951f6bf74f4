------------------------------- MODULE Evolver -------------------------------
(***************************************************************************)
(* The evolver: main()'s loop over the generations of a population         *)
(* (blossom.cpp), the scoring of its warriors against the benchmarks       *)
(* (world.cpp, population.cpp, warrior.cpp, battle.cpp) and breed(), the   *)
(* step from one generation to the next (population.cpp).                  *)
(*                                                                         *)
(* Warriors are numbered in the order of their creation.  Code is not      *)
(* modelled: a battle has one of the possible results, and Create() is     *)
(* taken to find a child that might execute.  What new returns is not      *)
(* specified, so the order of the warriors' addresses is any order, chosen *)
(* when sorting first needs to know it.                                    *)
(***************************************************************************)
EXTENDS Integers, Sequences, FiniteSets, SequencesExt

CONSTANTS
    Founders,         \* warriors loaded by populate_evolved()
    Children,         \* children created before the loop; one in main()
    NBenchmarks,      \* benchmarks of the world ...
    NEnemies,         \* ... and the warriors in each
    Rounds,           \* rounds of a battle
    Outcomes,         \* the results a battle may have, [win, tie], ...
    Possible(_, _),   \* ... and those that battle k of warrior w may have
    Scale,            \* the best score; 1000 in battle_done()
    MaxGenerations    \* bound of the model: breed() is called so many times

ASSUME FoundersAssumption == Founders \in Nat \ {0, 1}
ASSUME ChildrenAssumption == Children \in Nat
ASSUME MaxGenerationsAssumption == MaxGenerations \in Nat
ASSUME BenchmarksAssumption ==
    NBenchmarks \in Nat \ {0} /\ NEnemies \in Nat \ {0}
(* --rounds 0 would make battle_done() divide by zero (warrior.cpp:212).   *)
ASSUME RoundsAssumption == Rounds \in Nat \ {0} /\ Scale \in Nat \ {0}
ASSUME OutcomesAssumption ==
    \A r \in Outcomes : /\ r.win \in Nat /\ r.tie \in Nat
                        /\ r.win + r.tie <= Rounds
ASSUME PossibleAssumption ==
    \A w \in 1 .. (Founders + Children) * (MaxGenerations + 1),
      k \in 1 .. NBenchmarks * NEnemies :
        Possible(w, k) # {} /\ Possible(w, k) \subseteq Outcomes

Benchmarks == 1 .. NBenchmarks

VARIABLES
    warriors,       \* the population, _warriors
    old_warriors,   \* the retired ones, _old_warriors
    heritage,       \* for each warrior <<father, mother>>; <<>> of a founder
    child_count,    \* for each warrior its _child_count
    score,          \* for each warrior its scores by benchmark, _score
    battles,        \* the battles the scheduler has fought, _fought
    at,             \* the loop that is being executed
    i,              \* its index
    all_fought,     \* has every warrior had its score, CPopulation::loop()
    num,            \* the number of warriors breed() replaces
    total_score,    \* the circumference of breed()'s roulette wheel
    roll,           \* where its ball is
    sorted,         \* warriors at the front whose address order is known
    generation      \* the calls of breed() completed

vars == <<warriors, old_warriors, heritage, child_count, score, battles, at,
          i, all_fought, num, total_score, roll, sorted, generation>>

breeding == <<num, total_score, roll, sorted, generation>>
people   == <<warriors, old_warriors, heritage, child_count>>

Init ==
    /\ warriors = [k \in 1 .. Founders + Children |-> k]
    /\ old_warriors = <<>>
    /\ heritage = [k \in 1 .. Founders + Children |->
                     IF k <= Founders THEN <<>> ELSE <<1, 2>>]
    /\ child_count = [k \in 1 .. Founders + Children |->
                        IF k <= 2 THEN Children ELSE 0]
    /\ score = [k \in 1 .. Founders + Children |-> <<>>]
    /\ battles = <<>>
    /\ at = "population" /\ i = 1 /\ all_fought = TRUE
    /\ num = 0 /\ total_score = 0 /\ roll = 0 /\ sorted = 0 /\ generation = 0

-----------------------------------------------------------------------------
(* The scores of a warrior.                                                *)

(* fought(): it has been scheduled and nothing of that is pending.         *)
Fought(w) ==
    /\ DOMAIN score[w] # {}
    /\ \A b \in DOMAIN score[w] : score[w][b].pending = 0

(* What stands for ~0, the score of a warrior that has none yet.           *)
NoScore == 1000 * Scale

Overall(w) ==
    IF Fought(w)
    THEN MapThenSumSet(LAMBDA b : score[w][b].normalised, DOMAIN score[w])
            \div Cardinality(DOMAIN score[w])
    ELSE NoScore

(* Mutants of Graded: the score is taken from too small a maximum, it is   *)
(* added to itself, and a battle stays pending.                            *)
GradedBySmallerMax(entry, result) ==
    LET sum == entry.score + 3 * result.win + result.tie
    IN  [pending |-> entry.pending - 1, score |-> sum,
         normalised |-> IF entry.pending = 1
                        THEN (sum * Scale) \div (Rounds * NEnemies)
                        ELSE entry.normalised]
GradedDouble(entry, result) ==
    [entry EXCEPT !.pending = @ - 1,
                  !.score = @ + @ + 3 * result.win + result.tie]
GradedForever(entry, result) ==
    [entry EXCEPT !.score = @ + 3 * result.win + result.tie]

(* What is left after a battle of the entry it belongs to.                 *)
Graded(entry, result) ==
    LET sum == entry.score + 3 * result.win + result.tie
    IN  [pending |-> entry.pending - 1,
         score |-> sum,
         normalised |-> IF entry.pending = 1
                        THEN (sum * Scale) \div (Rounds * NEnemies * 3)
                        ELSE entry.normalised]

-----------------------------------------------------------------------------
(* CWorld::loop(): the population schedules, the scheduler reports.        *)

(* The member of S that n members of S do not exceed.                      *)
Nth(S, n) == CHOOSE b \in S : Cardinality({c \in S : c <= b}) = n

(* CEvolvedWarrior::fight(): w is entered for every benchmark that has not *)
(* graded it, and the scheduler fights each battle as it is scheduled.     *)
Fight(w) ==
    LET new == Benchmarks \ DOMAIN score[w]
    IN  \E result \in [new \X (1 .. NEnemies) -> Outcomes] :
          /\ \A b \in new, e \in 1 .. NEnemies :
                result[<<b, e>>] \in Possible(w, (b - 1) * NEnemies + e)
          /\ score' = [score EXCEPT ![w] =
                [b \in new \cup DOMAIN score[w] |->
                    IF b \in new THEN [pending |-> NEnemies, score |-> 0,
                                       normalised |-> 0]
                    ELSE score[w][b]]]
          /\ battles' = battles \o
                [k \in 1 .. Cardinality(new) * NEnemies |->
                    LET b == Nth(new, (k - 1) \div NEnemies + 1)
                        e == ((k - 1) % NEnemies) + 1
                    IN  [warrior |-> w, benchmark |-> b, result |-> result[<<b, e>>]]]

(* CPopulation::loop() looks at the next warrior ...                       *)
PopulationLoop ==
    /\ at = "population" /\ i <= Len(warriors)
    /\ i' = i + 1
    /\ IF Fought(warriors[i])
       THEN UNCHANGED <<score, battles, all_fought>>
       ELSE Fight(warriors[i]) /\ all_fought' = FALSE
    /\ UNCHANGED <<people, at, breeding>>

(* ... and leaves the floor to CBattleSchedulerExhaust::loop(), ...        *)
PopulationLooped ==
    /\ at = "population" /\ i > Len(warriors)
    /\ at' = "scheduler"
    /\ UNCHANGED <<people, score, battles, i, all_fought, breeding>>

(* Mutant of BattleDone: the list is cleared after the first report.       *)
BattleDoneClears ==
    /\ at = "scheduler" /\ battles # <<>>
    /\ LET x == Head(battles)
       IN  score' = [score EXCEPT ![x.warrior][x.benchmark] =
                        Graded(@, x.result)]
    /\ battles' = <<>>
    /\ UNCHANGED <<people, at, i, all_fought, breeding>>

(* ... which hands the results of a battle to its owner, battle_done().    *)
BattleDone ==
    /\ at = "scheduler" /\ battles # <<>>
    /\ LET x == Head(battles)
       IN  score' = [score EXCEPT ![x.warrior][x.benchmark] =
                        Graded(@, x.result)]
    /\ battles' = Tail(battles)
    /\ UNCHANGED <<people, at, i, all_fought, breeding>>

(* Mutant of SchedulerLooped: neither the results nor a second look at the *)
(* population are waited for.                                              *)
SchedulerSkipped ==
    /\ at = "scheduler"
    /\ at' = "breed"
    /\ i' = 1 /\ all_fought' = TRUE
    /\ UNCHANGED <<people, score, battles, breeding>>

(* main() loops the world until every warrior had its score beforehand.    *)
SchedulerLooped ==
    /\ at = "scheduler" /\ battles = <<>>
    /\ at' = IF all_fought THEN "breed" ELSE "population"
    /\ i' = 1 /\ all_fought' = TRUE
    /\ UNCHANGED <<people, score, battles, breeding>>

-----------------------------------------------------------------------------
(* CPopulation::breed(size() / 3).                                         *)

(* std::sort by address: those sorted before keep their order.             *)
Sort ==
    /\ at = "breed" /\ generation < MaxGenerations
    /\ num' = Len(warriors) \div 3
    /\ \E places \in kSubset(sorted, DOMAIN warriors),
          others \in SetToSeqs({warriors[k] : k \in sorted + 1 .. Len(warriors)}) :
          LET rank(k, S) == Cardinality({j \in S : j <= k})
          IN  warriors' = [k \in DOMAIN warriors |->
                  IF k \in places THEN warriors[rank(k, places)]
                  ELSE others[rank(k, DOMAIN warriors \ places)]]
    /\ at' = "retire" /\ i' = 1
    /\ UNCHANGED <<old_warriors, heritage, child_count, score, battles,
                   all_fought, total_score, roll, sorted, generation>>

(* Mutants of Retire: the mother is forgotten, the retired is forgotten.   *)
RetireFatherOnly ==
    /\ at = "retire" /\ i <= num /\ warriors # <<>>
    /\ warriors' = Front(warriors)
    /\ heritage[Last(warriors)] # <<>>
    /\ child_count' = [child_count EXCEPT ![heritage[Last(warriors)][1]] = @ - 1]
    /\ old_warriors' = Append(old_warriors, Last(warriors))
    /\ i' = i + 1
    /\ UNCHANGED <<at, heritage, score, battles, all_fought, breeding>>
RetireForgotten ==
    /\ at = "retire" /\ i <= num /\ warriors # <<>>
    /\ warriors' = Front(warriors)
    /\ i' = i + 1
    /\ UNCHANGED <<at, old_warriors, heritage, child_count, score, battles,
                   all_fought, breeding>>

(* The last warrior leaves its parents one child fewer and is kept aside.  *)
(* A founder has no heritage to ask for its parents: null is dereferenced. *)
Retire ==
    /\ at = "retire" /\ i <= num /\ warriors # <<>>
    /\ warriors' = Front(warriors)
    /\ LET parents == heritage[Last(warriors)]
       IN  IF parents = <<>>
           THEN /\ at' = "crashed"
                /\ UNCHANGED <<old_warriors, child_count, i>>
           ELSE /\ child_count' = [w \in DOMAIN child_count |->
                      IF w \in ToSet(parents) THEN child_count[w] - 1
                                              ELSE child_count[w]]
                /\ old_warriors' = Append(old_warriors, Last(warriors))
                /\ i' = i + 1
                /\ UNCHANGED at
    /\ UNCHANGED <<heritage, score, battles, all_fought, breeding>>

(* The wheel up to and including the warrior of rank j.                    *)
Arc(j) == MapThenSumSet(LAMBDA k : Overall(warriors[k]), 1 .. j)

Retired ==
    /\ at = "retire" /\ (i > num \/ warriors = <<>>)
    /\ total_score' = Arc(Min({num, Len(warriors)}))
    /\ at' = "lucky" /\ i' = 1
    /\ UNCHANGED <<people, score, battles, all_fought, num, roll, sorted,
                   generation>>

(* irand(max): one of 0 .. max-1, and a negative number when max is 0.     *)
Irand(max) == IF max = 0 THEN {-1} ELSE 0 .. max - 1

(* The warrior of rank i gets its chance, and the ball is rolled, once.    *)
Roll ==
    /\ at = "lucky" /\ i <= num /\ i <= Len(warriors)
    /\ roll' \in Irand(total_score)
    /\ at' = "wheel"
    /\ UNCHANGED <<people, score, battles, i, all_fought, num, total_score,
                   sorted, generation>>

(* The ranks at which the ball may stop in this turn of the wheel.         *)
Stops == {j \in 1 .. Len(warriors) : Arc(j) >= roll}
Stop  == Min(Stops)

(* Mutant of Mate: the ball may stop at the lucky warrior itself.          *)
MateSelf ==
    /\ at = "wheel" /\ Stops # {}
    /\ heritage' = Append(heritage, <<warriors[i], warriors[Stop]>>)
    /\ child_count' = Append([child_count EXCEPT ![warriors[i]] = @ + 1], 0)
    /\ score' = Append(score, <<>>)
    /\ warriors' = Append(warriors, Len(heritage) + 1)
    /\ at' = "lucky" /\ i' = i + 1
    /\ roll' = 0
    /\ UNCHANGED <<old_warriors, battles, all_fought, num, total_score, sorted,
                   generation>>

(* It stops at another warrior: that one is the mother.                    *)
Mate ==
    /\ at = "wheel" /\ Stops # {} /\ Stop # i
    /\ LET parents == <<warriors[i], warriors[Stop]>>
       IN  /\ heritage' = Append(heritage, parents)
           /\ child_count' = Append([w \in DOMAIN child_count |->
                  IF w \in ToSet(parents) THEN child_count[w] + 1
                                          ELSE child_count[w]], 0)
    /\ score' = Append(score, <<>>)
    /\ warriors' = Append(warriors, Len(heritage) + 1)
    /\ at' = "lucky" /\ i' = i + 1
    /\ roll' = 0
    /\ UNCHANGED <<old_warriors, battles, all_fought, num, total_score, sorted,
                   generation>>

(* It stops at the lucky warrior itself or nowhere: another turn of the    *)
(* wheel, from where the ball is.  When roll is not positive nothing       *)
(* depends on how far below zero it is.                                    *)
TurnWheel ==
    /\ at = "wheel" /\ (Stops = {} \/ Stop = i)
    /\ roll' = IF Stops = {} THEN roll - Arc(Len(warriors)) ELSE 0
    /\ UNCHANGED <<people, score, battles, at, i, all_fought, num,
                   total_score, sorted, generation>>

(* breed() is over and main() goes on with the new generation.             *)
Bred ==
    /\ at = "lucky" /\ (i > num \/ i > Len(warriors))
    /\ generation' = generation + 1
    /\ sorted' = Len(warriors) - (i - 1)
    /\ at' = "population" /\ i' = 1
    /\ num' = 0 /\ total_score' = 0 /\ roll' = 0
    /\ UNCHANGED <<people, score, battles, all_fought>>

Grading ==
    PopulationLoop \/ PopulationLooped \/ BattleDone \/ SchedulerLooped

Next ==
    \/ Grading
    \/ Sort \/ Retire \/ Retired \/ Roll \/ Mate \/ TurnWheel \/ Bred

(* One thread executes the loops and nothing in them waits.                *)
Spec == Init /\ [][Next]_vars /\ WF_vars(Next)

(* The part of this that grading needs.                                    *)
GradingSpec == Init /\ [][Next]_vars /\ WF_vars(Grading)

-----------------------------------------------------------------------------
(* Properties.                                                             *)

Uid == 1 .. Len(heritage)

(* Every variable keeps its type; a score is a number from 0 to Scale.     *)
TypeOK ==
    /\ warriors \in Seq(Uid) /\ old_warriors \in Seq(Uid)
    /\ \A w \in Uid : heritage[w] \in {<<>>} \cup (Uid \X Uid)
    /\ child_count \in [Uid -> Nat]
    /\ DOMAIN score = Uid
    /\ \A w \in Uid : \A b \in DOMAIN score[w] :
          /\ b \in Benchmarks
          /\ score[w][b] \in [pending : 0 .. NEnemies, normalised : 0 .. Scale,
                              score : 0 .. 3 * Rounds * NEnemies]
    /\ \A k \in DOMAIN battles :
          battles[k] \in [warrior : Uid, benchmark : Benchmarks,
                         result : Outcomes]
    /\ at \in {"population", "scheduler", "breed", "retire", "lucky", "wheel",
               "crashed"}
    /\ i \in Nat \ {0} /\ all_fought \in BOOLEAN
    /\ num \in Nat /\ total_score \in Nat /\ roll \in Int
    /\ sorted \in 0 .. Len(warriors) \/ at \in {"retire", "crashed", "lucky", "wheel"}
    /\ generation \in 0 .. MaxGenerations

(* What a warrior waits for is what the scheduler has in store for it, no  *)
(* matter how scheduling and reporting alternate: no result is lost, none  *)
(* comes twice (warrior.cpp:203 asserts it, 209 counts on it), and the     *)
(* points are no more than the battles reported so far could earn.         *)
PendingIsScheduled ==
    \A w \in Uid : \A b \in DOMAIN score[w] :
        /\ score[w][b].pending =
              Cardinality({k \in DOMAIN battles : /\ battles[k].warrior = w
                                                  /\ battles[k].benchmark = b})
        /\ score[w][b].score <= 3 * Rounds * (NEnemies - score[w][b].pending)

(* Nobody is sorted, retired or mated before all of the population has     *)
(* been graded by all benchmarks, so that no ~0 stands in for a score.     *)
BreedOnGrades ==
    at \in {"breed", "retire"} =>
        \A k \in DOMAIN warriors :
            LET graded == score[warriors[k]]
            IN  /\ DOMAIN graded = Benchmarks
                /\ \A b \in Benchmarks : graded[b].pending = 0

(* A warrior counts its children in the population, the retired ones no    *)
(* longer: DecChildCount() never finds zero (warrior.cpp:257).             *)
ChildrenCounted ==
    at # "crashed" =>
        \A w \in Uid : child_count[w] =
            Cardinality({c \in ToSet(warriors) : w \in ToSet(heritage[c])})

(* A warrior is in the population or retired, once: ~CPopulation() deletes *)
(* each of them exactly once (population.cpp:33-38).                       *)
OwnedOnce ==
    at # "crashed" =>
        LET owned == warriors \o old_warriors
        IN  IsInjective(owned) /\ ToSet(owned) = Uid

(* breed() "selects & mates the top third" (ARCHITECTURE.md:29) of its     *)
(* order: each of the first num becomes the father of one child, and the   *)
(* mother is another of them.                                              *)
TopMates ==
    at \in {"lucky", "wheel"} =>
        \A k \in 1 .. i - 1 :
            LET child == warriors[Len(warriors) - (i - 1) + k]
            IN  /\ heritage[child][1] = warriors[k]
                /\ heritage[child][2] \in
                      {warriors[j] : j \in (1 .. num) \ {k}}

(* However the loops alternate, a generation that has to be graded is.     *)
GradingEnds == at = "population" ~> at = "breed"

(* The warriors that make way score no better than those that stay         *)
(* ("sort warriors by score", "remove the bottom num", population.cpp:67). *)
WorstRetire ==
    [][\A o \in ToSet(warriors) \ ToSet(warriors'), v \in ToSet(warriors') :
          Overall(o) <= Overall(v)]_vars

(* "after every generation the population is re-bred and re-scored"        *)
(* (ARCHITECTURE.md:20): breed() comes to an end ...                       *)
BreedingEnds == at = "breed" ~> at \in {"population", "crashed"}

(* ... and does so without falling over a warrior that has no parents.     *)
NeverCrashes == at # "crashed"
=============================================================================
