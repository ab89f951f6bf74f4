------------------------------- MODULE MCMars -------------------------------
(* Programs and positions for the configurations of Mars.                  *)
EXTENDS Mars

insn(op, mod, ma, x, mb, y) ==
    [opcode |-> op, modifier |-> mod, amode |-> ma, bmode |-> mb,
     a |-> x, b |-> y]

(* An imp, one that splits and splits, a splitter that bombs with its own  *)
(* fields, a divider, a loop that counts down, and readers and writers of  *)
(* p-space.                                                                *)
Menu ==
    {<<insn("MOV", "I", "DIRECT", 0, "DIRECT", 1)>>,
     <<insn("SPL", "B", "DIRECT", 0, "DIRECT", 0)>>,
     <<insn("SPL", "B", "DIRECT", 0, "BPREDEC", 1),
       insn("SUB", "X", "IMMEDIATE", 2, "APOSTINC", 0)>>,
     <<insn("DIV", "F", "BINDIRECT", 1, "DIRECT", 1),
       insn("JMP", "A", "AINDIRECT", 0, "DIRECT", 3)>>,
     <<insn("DJN", "F", "APREDEC", 1, "BPOSTINC", 1),
       insn("SLT", "BA", "DIRECT", 1, "IMMEDIATE", 2)>>,
     <<insn("STP", "AB", "IMMEDIATE", 3, "IMMEDIATE", 0),
       insn("LDP", "AB", "IMMEDIATE", 0, "DIRECT", 1)>>,
     <<insn("STP", "B", "DIRECT", 1, "DIRECT", 0),
       insn("SNE", "I", "IMMEDIATE", 1, "BPOSTINC", 3)>>}

Facing == [i \in Warriors |-> (2 * i) % Coresize]
=============================================================================
