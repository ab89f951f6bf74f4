------------------------------ MODULE MCEvolver ------------------------------
(* Sets of results for the configurations of Evolver.                      *)
EXTENDS Evolver

Win  == [win |-> Rounds, tie |-> 0]
Tie  == [win |-> 0, tie |-> Rounds]
Lose == [win |-> 0, tie |-> 0]

WinOrLose == {Win, Lose}
WinOrTie  == {Win, Tie}

(* Any warrior may have any result.                                        *)
AnyOutcome(w, k) == Outcomes

(* The first battle of the first warrior may end either way, the others    *)
(* depend on the warrior.                                                  *)
Mixed(w, k) ==
    IF w = 1 /\ k = 1 THEN Outcomes ELSE IF (w + k) % 3 = 0 THEN {Tie} ELSE {Win}
=============================================================================
