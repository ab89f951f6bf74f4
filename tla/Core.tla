-------------------------------- MODULE Core --------------------------------
(***************************************************************************)
(* The addresses of core and the arithmetic of exhaust-1.9.2/sim.c on      *)
(* them.  The macros save the division: they are right only for operands   *)
(* that are in range already, which Mars.tla has to show.                  *)
(***************************************************************************)
EXTENDS Integers

CONSTANT Coresize    \* size of core

ASSUME CoresizeAssumption == Coresize \in Nat \ {0}

(* Addresses and the values of a-fields and b-fields.                      *)
Addr == 0 .. Coresize - 1

IncMod(x) == IF x + 1 = Coresize THEN 0 ELSE x + 1
DecMod(x) == IF x = 0 THEN Coresize - 1 ELSE x - 1
AddMod(x, y) == IF x + y >= Coresize THEN x + y - Coresize ELSE x + y

(* Mutant of SubMod: the sign is not looked at.                            *)
SubModUnchecked(x, y) == x - y

SubMod(x, y) == IF x - y < 0 THEN x - y + Coresize ELSE x - y
=============================================================================
