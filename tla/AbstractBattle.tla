--------------------------- MODULE AbstractBattle ---------------------------
(***************************************************************************)
(* What a battle in core promises, with none of sim_proper()'s machinery:  *)
(* the survivors take turns in a fixed cyclic order, each has a queue of   *)
(* processes of its own that is served first in first out, and the battle  *)
(* stops when at most one warrior is left or when the survivors have used  *)
(* up their turns.  MarsSched.tla is shown to implement it.                *)
(***************************************************************************)
EXTENDS Integers, Sequences

CONSTANTS
    NWarriors,    \* number of warriors in the battle
    Processes,    \* maximum number of processes of one warrior
    Cycles,       \* turns each warrior gets before the battle is a tie
    Coresize      \* number of instructions in core

Warriors == 0 .. NWarriors - 1
Addr     == 0 .. Coresize - 1

VARIABLES
    procs,        \* the processes of each warrior, the next one to run first
    alive,        \* the surviving warriors
    who,          \* the warrior whose turn it is
    deaths,       \* the dead warriors in the order of their deaths
    turns,        \* how many instructions each warrior has executed
    over          \* has the battle stopped?

vars == <<procs, alive, who, deaths, turns, over>>

(* j is met after i and before k when the warriors are passed in cyclic    *)
(* order; the way from i to i leads past everybody else.                   *)
Between(i, j, k) ==
    IF i < k THEN i < j /\ j < k ELSE i < j \/ j < k

(* The first member of S that comes after i in cyclic order.               *)
NextAfter(i, S) ==
    IF S = {} THEN i ELSE CHOOSE k \in S : \A j \in S : ~Between(i, j, k)

Init ==
    /\ procs \in [Warriors -> {<<a>> : a \in Addr}]
    /\ alive = Warriors
    /\ who = 0
    /\ deaths = <<>>
    /\ turns = [i \in Warriors |-> 0]
    /\ over = FALSE

(* Somebody has died and at most one warrior is left.                      *)
Decided == deaths # <<>> /\ \A i, j \in alive : i = j

(* Every survivor has used up its turns.                                   *)
Spent == \A i \in alive : turns[i] = Cycles

(* The clock may stop one turn early once somebody has died: the survivor  *)
(* whose turn it is, the last of its cycle, then goes without.             *)
LastTurnMissing ==
    /\ deaths # <<>>
    /\ \A i \in alive : turns[i] = IF i = who THEN Cycles - 1 ELSE Cycles

(* The warrior whose turn it is runs its first process, which leaves next  *)
(* behind: nothing when the process dies, the following address, or two    *)
(* addresses when it splits and there is room.                             *)
Turn(next) ==
    LET left == Tail(procs[who]) \o next
    IN  /\ ~over
        /\ Len(left) <= Processes
        /\ procs' = [procs EXCEPT ![who] = left]
        /\ turns' = [turns EXCEPT ![who] = @ + 1]
        /\ IF left = <<>>
           THEN alive' = alive \ {who} /\ deaths' = Append(deaths, who)
           ELSE UNCHANGED <<alive, deaths>>
        /\ who' = NextAfter(who, alive')
        /\ over' \in BOOLEAN
        /\ over' => Decided' \/ Spent' \/ LastTurnMissing'
        /\ Decided' \/ Spent' => over'

Next == \E next \in UNION {[1 .. n -> Addr] : n \in 0 .. 2} : Turn(next)

Spec == Init /\ [][Next]_vars
=============================================================================
