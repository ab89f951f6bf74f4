------------------------------- MODULE PSpace -------------------------------
(***************************************************************************)
(* The p-spaces of the warriors (exhaust-1.9.2/pspace.c).  Location 0 is   *)
(* kept apart from the others as lastresult; the others are in a block of  *)
(* memory, the warrior's own or one it shares.  ps is a record of          *)
(*    last, for each warrior its lastresult,                               *)
(*    mem,  for each warrior whose block it uses (the pointer mem),        *)
(*    own,  for each warrior the content of its own block (ownmem).        *)
(***************************************************************************)
EXTENDS Integers

CONSTANT PSpace_size    \* p-space locations of a warrior

ASSUME PSpaceSizeAssumption == PSpace_size \in Nat \ {0}

PAddr == 0 .. PSpace_size - 1

PGet(ps, i, paddr) ==
    IF paddr % PSpace_size = 0 THEN ps.last[i]
    ELSE ps.own[ps.mem[i]][paddr % PSpace_size]

(* Mutant of PSet: location 0 is shared like the others.                   *)
PSetShared(ps, i, paddr, val) ==
    IF paddr % PSpace_size = 0
    THEN [ps EXCEPT !.last = [j \in DOMAIN @ |->
                                IF ps.mem[j] = ps.mem[i] THEN val ELSE @[j]]]
    ELSE [ps EXCEPT !.own[ps.mem[i]][paddr % PSpace_size] = val]

PSet(ps, i, paddr, val) ==
    IF paddr % PSpace_size = 0 THEN [ps EXCEPT !.last[i] = val]
    ELSE [ps EXCEPT !.own[ps.mem[i]][paddr % PSpace_size] = val]

(* The sharer gives up its block for the one that shared uses.             *)
PShare(ps, shared, sharer) == [ps EXCEPT !.mem[sharer] = ps.mem[shared]]

(* The block that is the warrior's again after pspace_privatise().         *)
PPrivate(ps, i) == i

(* sim_clear_pspaces(): location 0 becomes val, all others zero, in every  *)
(* block that is in use.                                                   *)
PCleared(ps, val) ==
    [ps EXCEPT !.last = [i \in DOMAIN ps.last |-> val],
               !.own = [i \in DOMAIN ps.own |->
                          IF \E j \in DOMAIN ps.mem : ps.mem[j] = i
                          THEN [a \in PAddr |-> 0]
                          ELSE ps.own[i]]]
=============================================================================
