-------------------------------- MODULE Mars --------------------------------
(***************************************************************************)
(* A battle in core: the scheduler of MarsSched.tla executing the          *)
(* instructions of Redcode.tla, with the p-spaces of PSpace.tla, and what  *)
(* sim_mw() does around it (exhaust-1.9.2/sim.c).                          *)
(***************************************************************************)
EXTENDS MarsSched, Redcode, SequencesExt

CONSTANTS
    Programs,     \* the codes a warrior may have, sequences of Insn
    Positions     \* where the warriors are loaded, [Warriors -> Addr]

(* The fields of a program are field_t's like those in core.               *)
ASSUME ProgramsAssumption == Programs \subseteq Seq(Insn)

VARIABLES
    core,         \* Core_Mem
    pspaces,      \* PSpaces and what they point to
    reported      \* sim_mw() has returned

marsVars == <<vars, core, pspaces, reported>>

(* Core after the warriors were loaded in order, each at its position.     *)
LoadedAll(code) ==
    LET load[k \in 0 .. NWarriors] ==
            IF k = 0 THEN [a \in Addr |-> Zeroed]
            ELSE Loaded(load[k - 1], Positions[k - 1], code[k - 1])
    IN  load[NWarriors]

(* Location 0 of the p-spaces before a battle: Coresize-1 before the first *)
(* one, then what the last one has left, the number of the survivors or 0. *)
(* Only a single warrior can have left none.                               *)
LastResults ==
    {[i \in Warriors |-> Coresize - 1]} \cup
    {[i \in Warriors |-> IF i \in S THEN Cardinality(S) ELSE 0] :
        S \in {T \in SUBSET Warriors : T # {} \/ NWarriors = 1}}

MarsInit ==
    /\ Init
    /\ \A i \in Warriors : queue[Base(i)] = Positions[i]
    /\ \E code \in [Warriors -> Programs] : core = LoadedAll(code)
    /\ \E last \in LastResults, shared \in {TRUE, FALSE} :
          pspaces = [last |-> last,
                     mem |-> [i \in Warriors |->
                                IF shared THEN NWarriors - 1 ELSE i],
                     own |-> [i \in Warriors |-> [a \in PAddr |-> 0]]]
    /\ reported = FALSE

(* One turn of the main loop: w executes the instruction at ip.            *)
Turn ==
    /\ ~over
    /\ LET view == [a \in PAddr |-> PGet(pspaces, w, a)]
           done == Execute(core, ip, view)
       IN
        /\ \/ done.next = <<>> /\ (ProcessDies \/ WarriorDies)
           \/ Len(done.next) = 1 /\ Continue(done.next[1])
           \/ Len(done.next) = 2 /\ (Split(done.next[2]) \/ SplitFull)
        /\ core' = done.core
        /\ pspaces' = IF done.store = <<>> THEN pspaces
                      ELSE PSet(pspaces, w, done.store[1], done.store[2])
        /\ UNCHANGED reported

(* Mutant of Dead: the last entry is missed.                               *)
DeadButLast == {deaths[k] : k \in 1 .. NWarriors - alive_cnt - 1}

(* The warriors that sim_mw() finds in death_tab.                          *)
Dead == {deaths[k] : k \in 1 .. NWarriors - alive_cnt}

(* sim_mw() tells the survivors how many they are, and the dead nothing.   *)
Report ==
    /\ over /\ ~reported
    /\ pspaces' = [pspaces EXCEPT !.last =
          [i \in Warriors |-> IF i \in Dead THEN 0 ELSE alive_cnt]]
    /\ reported' = TRUE
    /\ UNCHANGED <<vars, core>>

MarsNext == Turn \/ Report

MarsSpec == MarsInit /\ [][MarsNext]_marsVars

-----------------------------------------------------------------------------
(* Properties.                                                             *)

(* "In a field_t variable we hold unsigned integers in 0..CORESIZE-1"      *)
(* (exhaust.h:41-42): what an instruction, a p-space or a program puts     *)
(* into core is in the range that the address arithmetic of the next       *)
(* instructions takes for granted (sim.c:494).                             *)
FieldsInRange == core \in [Addr -> Insn]

(* Everybody's location 0 is changed by its own instructions only, also    *)
(* when the rest of p-space is shared.                                     *)
LocationZeroIsPrivate ==
    [][~reported' => \A i \in Warriors \ {w} :
                        pspaces'.last[i] = pspaces.last[i]]_marsVars

(* After the battle location 0 tells each warrior how it ended.            *)
ToldInPSpace ==
    reported => \A i \in Warriors :
                   pspaces.last[i] = IF i \in Alive THEN Cardinality(Alive) ELSE 0

(* The outcome is told as it is, to the warriors in location 0, "if a      *)
(* warrior died" 0, "otherwise the number of warriors alive at the end"    *)
(* (sim.c:366-369), whatever the programs have stored there, and to the    *)
(* caller of sim(), who learns which of two has survived (sim.c:448-451).  *)
OutcomeTold == ToldInPSpace /\ ResultNamesSurvivor
=============================================================================
