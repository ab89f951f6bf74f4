------------------------------ MODULE Startup ------------------------------
(***************************************************************************)
(* main() of exhaust-1.9.2/exhaust.c from the command line to the core:    *)
(* readargs(), alloc_related_memory(), import_warriors(), check_sanity()   *)
(* and sim_alloc_bufs(), and then the positions of the rounds, which       *)
(* Positions.tla finds for what check_sanity() has let through.  The files *)
(* of warriors are known by the number of their instructions (Asm.tla), of *)
(* which asm_file() requires one at least.                                 *)
(***************************************************************************)
EXTENDS Positions, Sequences, FiniteSets, SequencesExt

CONSTANTS
    CommandLines,    \* sequences of arguments: records of a letter c and the
                     \* number n that follows, or NoNumber; "file" stands for
                     \* a name, n is then the length of the warrior
    NoNumber,        \* no number follows
    MAXLENGTH,       \* number of instructions that fit into a warrior
    DefaultCoresize  \* OPT_coresize unless -s is given; 8000

(* atoi() makes a signed number of an argument that begins with a digit.   *)
Argument == [c : STRING, n : {NoNumber} \cup 0 .. (UINT \div 2) - 1]

ASSUME CommandLinesAssumption ==
    \A line \in CommandLines :
        /\ line \in Seq(Argument)
        /\ \A k \in DOMAIN line : line[k].c = "file" => line[k].n # NoNumber
ASSUME MAXLENGTHAssumption == MAXLENGTH \in Nat \ {0}
ASSUME DefaultAssumption == DefaultCoresize \in Nat \ {0}

VARIABLES
    args,     \* the arguments that have not been read
    OPT,      \* the other options that have a number, by their letters
    len,      \* the lengths of the warriors, a sequence
    call      \* the call that main() is about to make, or how it has ended

startVars == <<args, OPT, len, call>>

Flags    == {"k", "b", "m"}
Positive == {"s", "d", "p", "c"}
Numbered == Positive \cup {"r", "F"}

StartInit ==
    /\ NWarriors = 0 /\ OPT_minsep = 0 /\ OPT_coresize = DefaultCoresize
    /\ PosInit
    /\ args \in CommandLines
    /\ OPT = [p |-> 1, c |-> 1, r |-> 1, F |-> 0]
    /\ len = <<>> /\ call = "readargs"

(* An argument is read.  A flag changes the output only.                   *)
ReadFlag ==
    /\ args[1].c \in Flags
    /\ UNCHANGED <<options, OPT, len, call>>

ReadOption ==
    /\ args[1].c \in Numbered /\ args[1].n # NoNumber
    /\ args[1].c \in Positive => args[1].n > 0
    /\ OPT_coresize' = IF args[1].c = "s" THEN args[1].n ELSE OPT_coresize
    /\ OPT_minsep' = IF args[1].c = "d" THEN args[1].n ELSE OPT_minsep
    /\ OPT' = [x \in DOMAIN OPT |-> IF x = args[1].c THEN args[1].n ELSE OPT[x]]
    /\ UNCHANGED <<NWarriors, len, call>>

(* No number follows, it is not positive, or the option is unknown.        *)
RefuseOption ==
    /\ args[1].c \notin Flags \cup {"file"}
    /\ args[1].c \in Numbered =>
          args[1].n = NoNumber \/ (args[1].c \in Positive /\ args[1].n <= 0)
    /\ call' = "exited"
    /\ UNCHANGED <<options, OPT, len>>

ReadName ==
    /\ args[1].c = "file"
    /\ NWarriors' = NWarriors + 1
    /\ len' = Append(len, args[1].n)
    /\ UNCHANGED <<OPT_minsep, OPT_coresize, OPT, call>>

ReadArg ==
    /\ call = "readargs" /\ args # <<>>
    /\ args' = Tail(args)
    /\ ReadFlag \/ ReadOption \/ RefuseOption \/ ReadName
    /\ UNCHANGED posVars

(* usage() is called when there is no warrior.                             *)
ArgsRead ==
    /\ call = "readargs" /\ args = <<>>
    /\ call' = IF NWarriors = 0 THEN "exited" ELSE "alloc"
    /\ UNCHANGED <<options, posVars, args, OPT, len>>

(* alloc_related_memory(): panic() when a malloc() has failed, but when it *)
(* is that of Results the null pointer has been written through before.    *)
AllocRelatedMemory ==
    /\ call = "alloc"
    /\ \/ call' = "import" /\ positions' = [i \in Warriors |-> 0]
       \/ call' \in {"exited", "crashed"} /\ UNCHANGED positions
    /\ UNCHANGED <<options, pos, retries1, retries2, stage, args, OPT, len>>

(* import_warriors(): asm_file() exits if there is nothing to start at.    *)
ImportWarriors ==
    /\ call = "import"
    /\ call' = IF 0 \in ToSet(len) THEN "exited" ELSE "sanity"
    /\ UNCHANGED <<options, posVars, args, OPT, len>>

(* The minimum separation, which check_sanity() computes if none is given. *)
MinSep ==
    IF OPT_minsep # 0 THEN OPT_minsep
    ELSE IF OPT_coresize \div NWarriors < MAXLENGTH
    THEN OPT_coresize \div NWarriors ELSE MAXLENGTH

(* Mutant of Dominates: code may be one longer.                            *)
DominatesAlmost(minsep) == \A k \in DOMAIN len : len[k] <= minsep + 1

(* Does minsep dominate the lengths of all warriors?                       *)
Dominates(minsep) == \A k \in DOMAIN len : len[k] <= minsep

(* Mutant of Fits: the first warrior, at 0, is not counted.                *)
FitsBesidesTheFirst(minsep) ==
    Unsigned((NWarriors - 1) * minsep) <= OPT_coresize

(* Is there space for all warriors to be loaded?                           *)
Fits(minsep) == Unsigned(NWarriors * minsep) <= OPT_coresize

CheckSanity ==
    /\ call = "sanity"
    /\ OPT_minsep' = MinSep
    /\ call' = IF /\ \A k \in DOMAIN len : len[k] # 0
                  /\ Dominates(MinSep) /\ Fits(MinSep)
               THEN "buffers" ELSE "exited"
    /\ UNCHANGED <<NWarriors, OPT_coresize, posVars, args, OPT, len>>

(* sim_alloc_bufs(), which may fail.                                       *)
SimAllocBufs ==
    /\ call = "buffers"
    /\ call' \in {"rounds", "exited"}
    /\ UNCHANGED <<options, posVars, args, OPT, len>>

Start ==
    \/ ReadArg \/ ArgsRead \/ AllocRelatedMemory \/ ImportWarriors
    \/ CheckSanity \/ SimAllocBufs

(* main() plays OPT_rounds rounds, which Tournament.tla counts.            *)
BeginRound ==
    /\ call = "rounds" /\ OPT.r > 0
    /\ ComputePositions
    /\ UNCHANGED <<options, startVars>>

Place ==
    /\ call = "rounds"
    /\ Positioning
    /\ UNCHANGED <<options, startVars>>

StartNext == Start \/ BeginRound \/ Place

(* compute_positions() waits for nothing.                                  *)
StartSpec ==
    /\ StartInit /\ [][StartNext]_<<options, posVars, startVars>>
    /\ WF_<<options, posVars, startVars>>(Place)

-----------------------------------------------------------------------------
(* Properties.                                                             *)

(* Where sim_load_warrior() loads the code of warrior i: nowhere if it is  *)
(* longer than core.                                                       *)
Code(i) ==
    {Field((positions[i] + k) % OPT_coresize) :
        k \in {x \in 0 .. len[i + 1] - 1 : len[i + 1] <= OPT_coresize}}

(* Every warrior has code, and is loaded where no other is.                *)
CodesDisjoint ==
    \A i \in Warriors :
        /\ Code(i) # {}
        /\ \A j \in Warriors \ {i} : Code(i) \cap Code(j) = {}

(* "The code will happily overwrite any previous contents of core, so      *)
(* beware not to load warriors so that their code overlaps" (sim.c:186):   *)
(* for every command line, if main() gets to a round nobody is loaded over *)
(* anybody else, as long as the number of warriors times the separation,   *)
(* and the addresses of core, are representable.                           *)
CodesApart == stage = "done" /\ Representable => CodesDisjoint

(* "Make sure there is space for all warriors to be loaded"                *)
(* (exhaust.c:225): once check_sanity() has made sure, they are, whatever  *)
(* the number of warriors and the separation.                              *)
SpaceForAll == stage = "done" /\ OPT_coresize <= FIELD => CodesDisjoint
=============================================================================
