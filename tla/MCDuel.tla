------------------------------- MODULE MCDuel -------------------------------
(* Warriors for the configurations of Duel.                                *)
EXTENDS Duel

(* One as long as a warrior may be, which starts at its end, and the       *)
(* shortest.                                                               *)
TwoCodes ==
    {[code |-> [k \in 1 .. maxlength |-> [Zeroed EXCEPT !.a = k]],
      start |-> maxlength - 1],
     [code |-> <<[Zeroed EXCEPT !.b = 1]>>, start |-> 0]}

Trash == [Zeroed EXCEPT !.opcode = "SPL"]
=============================================================================
