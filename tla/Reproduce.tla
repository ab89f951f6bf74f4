----------------------------- MODULE Reproduce -----------------------------
(***************************************************************************)
(* CReproductionRandomCrossover (reproduction.cpp): a child gets each of   *)
(* its instructions from one of two parents, and is thrown away unless it  *)
(* might execute.  Warriors are records with a code and a start.           *)
(***************************************************************************)
EXTENDS Redcode

CONSTANT maxlength    \* CWorld::maxlength()

ASSUME MaxlengthAssumption == maxlength \in Nat /\ maxlength > 1

VARIABLES
    parents,      \* <<father, mother>>, or <<>> when Create() is not running
    child         \* the one that Create() has returned, or NoChild

reproduceVars == <<parents, child>>

NoChild == [code |-> <<>>, start |-> 0]

(* A process that starts at the start gets to a branching instruction.     *)
might_execute(x) ==
    \E k \in x.start + 1 .. Len(x.code) :
        /\ Branches(x.code[k].opcode)
        /\ \A j \in x.start + 1 .. k - 1 : Continues(x.code[j].opcode)

(* The roulette wheel of component().                                      *)
Wheel == <<[component |-> "RND_NONE", weight |-> 700],
           [component |-> "RND_CROSSOVER", weight |-> 100],
           [component |-> "RND_INSERT", weight |-> 50],
           [component |-> "RND_REPLACE", weight |-> 100],
           [component |-> "RND_DELETE", weight |-> 50]>>

(* The sum of the weights of the first k.                                  *)
Ball(k) == LET sum[j \in 0 .. Len(Wheel)] ==
                   IF j = 0 THEN 0 ELSE sum[j - 1] + Wheel[j].weight
           IN  sum[k]

component(stop) ==
    LET k == CHOOSE k \in DOMAIN Wheel : stop < Ball(k) /\ stop >= Ball(k - 1)
    IN  Wheel[k].component

Components == {component(stop) : stop \in 0 .. Ball(Len(Wheel)) - 1}

(* Mutant of Sources: the first parent is never left.                      *)
SourcesOfFather == {1}

(* The parent that the next instruction comes from: a crossover changes    *)
(* it, any other component copies.                                         *)
Sources == IF "RND_CROSSOVER" \in Components THEN {1, 2} ELSE {1}

(* Mutant of Lengths: all that there is room for.                          *)
LengthsAll == 1 .. maxlength

(* CRand::irand(maxlength-1)+1                                             *)
Lengths == 1 .. maxlength - 1

(* The instruction of a parent, or a clear one after its end.              *)
Copied(p, k) == IF k <= Len(parents[p].code) THEN parents[p].code[k] ELSE Zeroed

(* What one try may yield.                                                 *)
Tries ==
    UNION {{[code |-> [k \in 1 .. len |-> Copied(from[k], k)], start |-> s] :
               from \in [1 .. len -> Sources], s \in 0 .. len - 1} :
           len \in Lengths}

Create(father, mother) ==
    /\ parents = <<>>
    /\ parents' = <<father, mother>> /\ child' = NoChild

(* A try that fails: reset() and try again.                                *)
Fail ==
    /\ parents # <<>>
    /\ \E x \in Tries : ~might_execute(x)
    /\ UNCHANGED reproduceVars

(* The child is frozen and returned.                                       *)
Succeed ==
    /\ parents # <<>>
    /\ \E x \in Tries : might_execute(x) /\ child' = x
    /\ parents' = <<>>

-----------------------------------------------------------------------------
(* Properties.                                                             *)

(* Is there an instruction that a child can have from this parent, and     *)
(* with which it might execute?                                            *)
Fertile(x) ==
    \E k \in 1 .. Len(x.code) : k < maxlength /\ Branches(x.code[k].opcode)

(* Whatever gets born can have children itself, with anybody: lengths and  *)
(* starts are drawn anew for every generation, and the code never becomes  *)
(* one that Create() tries to cross for ever (reproduction.cpp:125).       *)
StaysFertile == child # NoChild => Fertile(child)

(* Create() returns if one of the parents is fertile: the draws of its     *)
(* tries are independent, so that one of them succeeds.                    *)
CreateEnds ==
    [](parents # <<>> /\ (Fertile(parents[1]) \/ Fertile(parents[2]))
          => <>(parents = <<>>))
=============================================================================
