---------------------------- MODULE MCOffspring ----------------------------
(* Files for the configurations of Offspring.                              *)
EXTENDS Offspring

insn(op, mod, ma, x, mb, y) ==
    <<Word(op), Word("."), Word(mod), Word(Char[ma]), Number(x), Word(","),
      Word(Char[mb]), Number(y)>>
label(line)  == <<Word("START")>> \o line
pseudo(s, n) == <<Word(s), Number(n)>>

mov  == insn("MOV", "I", "DIRECT", 0, "DIRECT", 1)
spl  == insn("SPL", "B", "IMMEDIATE", -7, "BPREDEC", 12)
mod  == insn("MOD", "AB", "APOSTINC", -1, "AINDIRECT", 2)
cmp  == insn("CMP", "X", "BINDIRECT", 3, "APREDEC", -3)
jmp  == insn("JMP", "F", "DIRECT", -2, "BPOSTINC", 0)
dat  == insn("DAT", "F", "DIRECT", 1, "DIRECT", 2)
org  == <<Word("ORG"), Word("START")>>
end  == <<Word("END"), Word("START")>>
note == <<Word(";"), Word("MOV")>>

(* Founders: a label, ORG and PIN, an old name, a program without END, one *)
(* whose branch is too far away for a child, and one without a branch.     *)
Founders ==
    {<<<<Word("PROGRAM")>>, note, org, mov, label(spl), end, cmp>>,
     <<pseudo("ORG", 1), mod, label(dat), pseudo("PIN", 65535), cmp,
       pseudo("ORG", 0), <<>> >>,
     <<label(mod), mov, pseudo("PIN", 7), pseudo("PIN", 9), jmp, end>>,
     <<jmp>>,
     <<dat, mod, end>>}

(* Files that are refused: a start that is no instruction, nothing at all, *)
(* words that are missing, out of place or only the names of a token code. *)
Refusals ==
    {<<pseudo("ORG", 2), mov, mov, end>>,
     <<org, note, end>>,
     <<label(<<>>), end>>,
     <<mov, <<Word("MOV"), Word("."), Word("DIRECT")>>, end>>,
     <<<<Word("ORG"), Word("I")>>, mov>>,
     <<<<Word("PIN")>>, mov>>,
     <<insn("MODM", "F", "DIRECT", 0, "DIRECT", 0)>>,
     <<mov, [mov EXCEPT ![4] = Word("DIRECT")]>>,
     <<mov, [mov EXCEPT ![8] = Word("INT")]>>,
     <<mov, [mov EXCEPT ![6] = Word(";")]>>,
     <<label(<<Word("PROGRAM")>>), mov>>,
     <<mov, <<Word("STR")>> >>}

(* Four instructions, which are too many for the world, and more than fit. *)
Long ==
    {<<mov, mov, mov, mov, end>>,
     <<mov, mov, mov, mov, note, label(jmp), end>>,
     <<mov, mov, mov, mov, pseudo("PIN", 1), end>>}

(* Numbers that do not fit into a field.                                   *)
Truncated ==
    {<<mov, mov, pseudo("ORG", 65537), pseudo("PIN", 65537)>>,
     <<mov, pseudo("ORG", -65536)>>,
     <<mov, pseudo("ORG", -1)>>}

(* Every instruction, followed by something to work on.                    *)
EveryInsn ==
    {<<insn(i.o, i.m, i.ma, i.v[1], i.mb, i.v[2]), dat>> :
        i \in [o : (OPCODE \ {"MODM"}) \cup {"MOD"}, m : MODIFIER,
               ma : ADDRMODE, mb : ADDRMODE, v : {<<0, 0>>, <<1, -1>>}]}

AllShelves ==
    {<<f>> : f \in EveryInsn \cup Refusals \cup Long \cup Truncated
                       \cup Founders}
    \cup {<<f, g>> : f \in Founders, g \in Founders}
=============================================================================
