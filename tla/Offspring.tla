----------------------------- MODULE Offspring -----------------------------
(***************************************************************************)
(* The life of a warrior: CWarrior's constructor assembles it from a file  *)
(* (Asm.tla), two of them get a child (Reproduce.tla), to_red() writes a   *)
(* warrior to a file, from which it can be read again, and what has been   *)
(* read can be executed (Redcode.tla).                                     *)
(***************************************************************************)
EXTENDS Asm, Reproduce

CONSTANT Shelves    \* the files to begin with, sequences of one or two

Words == [s : STRING, n : Int]

(* The words that to_red() writes are strings.                             *)
Vocabulary ==
    OPCODE \cup MODIFIER \cup {Char[mode] : mode \in ADDRMODE}
    \cup {"", "MOD", "START", "END", "ORG", ".", ",", ";", "REDCODE",
          "FILENAME"}

ASSUME VocabularyAssumption == \A s \in Vocabulary : s \in STRING

ASSUME ShelvesAssumption == \A files \in Shelves : files \in Seq(Seq(Seq(Words)))

(* The world of the evolver has warriors of up to 100 instructions in a    *)
(* core of 8000 (world.cpp:28), and the assembler has room for 100         *)
(* (exhaust.h:26).                                                         *)
ASSUME WorldAssumption == maxlength <= MAXLENGTH /\ maxlength <= Coresize

VARIABLES
    shelf,        \* the files that are still to be read
    read,         \* the warriors that have been read
    printed       \* the warrior that was written to the file on the shelf or
                  \* being read, or NoChild

offspringVars == <<asmVars, reproduceVars, shelf, read, printed>>

OffspringInit ==
    /\ shelf \in Shelves
    /\ read = <<>> /\ printed = NoChild
    /\ source = <<>> /\ file = <<>> /\ w = NoWarrior /\ status = "idle"
    /\ parents = <<>> /\ child = NoChild

(* CWarrior(world, rc_name, read_only) calls asm_fname() ...               *)
OpenNext ==
    /\ shelf # <<>>
    /\ Open(shelf[1]) /\ shelf' = Tail(shelf)
    /\ UNCHANGED <<reproduceVars, read, printed>>

Assemble ==
    /\ ReadLine \/ Finish
    /\ UNCHANGED <<reproduceVars, shelf, read, printed>>

(* ... and asserts that the warrior is not too long for the world.         *)
Construct ==
    /\ status = "done"
    /\ IF Len(w.code) > maxlength
       THEN status' = "thrown" /\ UNCHANGED read
       ELSE status' = "idle" /\ read' = Append(read, w)
    /\ UNCHANGED <<source, file, w, reproduceVars, shelf, printed>>

(* Two founders have one child.                                            *)
Breed ==
    /\ status = "idle" /\ Len(read) = 2 /\ shelf = <<>>
    /\ printed = NoChild /\ child = NoChild
    /\ Create(read[1], read[2])
    /\ UNCHANGED <<asmVars, shelf, read, printed>>

TryFails    == Fail /\ UNCHANGED <<asmVars, shelf, read, printed>>
TrySucceeds == Succeed /\ UNCHANGED <<asmVars, shelf, read, printed>>

(* The child, or a warrior that is alone, is written to a file.            *)
Write ==
    /\ status = "idle" /\ shelf = <<>> /\ printed = NoChild
    /\ \E x \in {child, IF read = <<>> THEN NoChild ELSE read[1]} \ {NoChild} :
          /\ x = child \/ Len(read) = 1
          /\ printed' = x /\ shelf' = <<to_red(x)>>
    /\ UNCHANGED <<asmVars, reproduceVars, read>>

OffspringNext ==
    \/ OpenNext \/ Assemble \/ Construct
    \/ Breed \/ TryFails \/ TrySucceeds \/ Write

(* The generator of random numbers does not keep a successful try from     *)
(* Create() for ever.                                                      *)
OffspringSpec ==
    /\ OffspringInit /\ [][OffspringNext]_offspringVars
    /\ WF_offspringVars(TrySucceeds)

-----------------------------------------------------------------------------
(* Properties.                                                             *)

(* What to_red() writes is read as the same warrior: the child that main() *)
(* prints can found another population (warrior.cpp:67-77).  Every         *)
(* instruction has a line of its own, and every field its number, negative *)
(* in the second half of core.                                             *)
RoundTrip ==
    printed # NoChild =>
        /\ status \notin {"exited", "thrown", "undefined"}
        /\ shelf = <<>> /\ status = "idle" =>
              /\ read[Len(read)].code = printed.code
              /\ read[Len(read)].start = printed.start

(* A warrior that has just been read, and is the only one, in core.        *)
Alone == status = "idle" /\ Len(read) = 1 /\ shelf = <<>> /\ printed = NoChild
Memory == Loaded([k \in Addr |-> Zeroed], 0, read[1].code)
PSpaceSeen == [k \in PAddr |-> k]

(* The instruction to be executed, and what it does.                       *)
ip == read[1].start
Due == Memory[ip]
Effect(mem) == Execute(mem, ip, PSpaceSeen)

(* OpInfo's branches, skips and ends: where might a process be after the   *)
(* instruction?                                                            *)
BranchesAgree ==
    Alone =>
        LET goes == ToSet(Effect(Memory).next)
            jump == Operand(Memory, ip, Due.amode, Due.a, Values(Due)).address
        IN  /\ ~Branches(Due.opcode) => goes \subseteq {IncMod(ip)}
            /\ IsSkip(Due.opcode) => goes \subseteq {IncMod(ip), Skipped(ip)}
            /\ ~IsSkip(Due.opcode) => goes \subseteq {IncMod(ip), jump}
            /\ ~Continues(Due.opcode) => goes \subseteq {jump}

(* EffectiveModifier() names a modifier with which an instruction does the *)
(* same: the columns of exhaust.cpp agree with the cases of sim.c.         *)
ModifierIsEffective ==
    Alone =>
        LET mod(mem) == [mem EXCEPT ![ip].modifier =
                            EffectiveModifier(Due.opcode, Due.modifier)]
            this == Effect(Memory)
            that == Effect(mod(Memory))
        IN  /\ this.next = that.next /\ this.store = that.store
            /\ mod(this.core) = mod(that.core)

(* OpInfo, from which the evolver knows its warriors, describes what the   *)
(* switch of sim_proper() does with them (exhaust.cpp:46-150).             *)
OpInfoAgrees == BranchesAgree /\ ModifierIsEffective

(* The field into which a modifier for one pair of fields writes.          *)
Into(f, mod) == Tested(mod) = {f}

(* An instruction that computes in two fields does in each what the two    *)
(* instructions for one field would do, and dies if one of them would: "we *)
(* must try to do both divisions even if one fails" (sim.c:1102-1103), and *)
(* the cases of MUL fall through into one another (sim.c:1081-1094).       *)
HalvesAgree ==
    /\ Alone
    /\ Due.opcode \in {"ADD", "SUB", "MUL", "MODM", "DIV"}
    /\ Due.modifier \in {"F", "X", "I"}
    =>  LET halves == IF Due.modifier = "X" THEN {"AB", "BA"} ELSE {"A", "B"}
            half(mod) == Effect([Memory EXCEPT ![ip].modifier = mod])
            this == Effect(Memory)
        IN  /\ this.next = <<>> <=> \E mod \in halves : half(mod).next = <<>>
            /\ \A mod \in halves, f \in Fields, k \in Addr :
                  Into(f, mod) => this.core[k][f] = half(mod).core[k][f]

(* "MOV 0,>0 doesn't change the instruction's b-field since the            *)
(* instruction at the a-field's effective address [...] was cached before  *)
(* the post-increment happened" (sim.c:565-568).                           *)
OperandsAreCached ==
    Alone /\ Due = [opcode |-> "MOV", modifier |-> "I", amode |-> "DIRECT",
                    bmode |-> "BPOSTINC", a |-> 0, b |-> 0]
        => Effect(Memory).core[ip] = Due
=============================================================================
