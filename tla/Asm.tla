-------------------------------- MODULE Asm --------------------------------
(***************************************************************************)
(* The assembler and the disassembler (exhaust-1.9.2/asm.c), with the      *)
(* files that CWarrior::to_rc() writes (warrior.cpp).  A file is a sequence*)
(* of lines and a line a sequence of words: strings of letters in upper    *)
(* case (get_tok() does not tell the cases apart), other characters, and   *)
(* integers, which have a number and no string.                            *)
(***************************************************************************)
EXTENDS Redcode, SequencesExt

CONSTANT MAXLENGTH    \* number of instructions that fit into a warrior

ASSUME MAXLENGTHAssumption == MAXLENGTH \in Nat \ {0}

VARIABLES
    source,       \* the file that is read
    file,         \* what is left of it
    w,            \* the warrior, without its array: a record of code, start,
                  \* have_pin and pin; its length is that of code
    status        \* "idle", "reading", "done" or what went wrong

asmVars == <<source, file, w, status>>

Word(s)   == [s |-> s, n |-> 0]
Number(n) == [s |-> "", n |-> n]

-----------------------------------------------------------------------------
(* Lines.                                                                  *)

(* The characters of the addressing modes.                                 *)
Char == [DIRECT |-> "$", IMMEDIATE |-> "#", AINDIRECT |-> "*",
         BINDIRECT |-> "@", APREDEC |-> "{", BPREDEC |-> "<",
         APOSTINC |-> "}", BPOSTINC |-> ">"]

(* The strings that are looked up, with their token codes.                 *)
str_toks ==
    [s \in (OPCODE \ {"MODM"}) \cup MODIFIER
             \cup {"MOD", "CMP", "ORG", "END", "PIN", "START"} |->
        IF s = "CMP" THEN "SEQ" ELSE IF s = "MOD" THEN "MODM" ELSE s]

(* Other characters that mean something; they are their own token codes.   *)
Punctuation == {".", ",", ";"}

(* The token code of a word.  Any other string is "STR", and no other      *)
(* character is expected anywhere either.                                  *)
get_tok(word) ==
    CASE word.s = "" -> "INT"
      [] word.s \in DOMAIN str_toks -> str_toks[word.s]
      [] word.s \in {Char[mode] : mode \in ADDRMODE} ->
           CHOOSE mode \in ADDRMODE : Char[mode] = word.s
      [] word.s \in Punctuation -> word.s
      [] OTHER -> "STR"

(* The remainder in C, which has the sign of the dividend.                 *)
Remainder(x, m) == IF x < 0 THEN -((-x) % m) ELSE x % m

MODS(x) == IF Remainder(x, Coresize) >= 0 THEN Remainder(x, Coresize)
           ELSE Coresize + Remainder(x, Coresize)

(* What a field keeps of a number.                                         *)
Field(x) == x % 65536

Line(ret) == [ret |-> ret, insn |-> Zeroed, flag |-> FALSE, n |-> 0]

(* Lines without meaning: nothing, a comment, "Program ...".               *)
Skippable(tok, words) ==
    tok[1] \in {"0", ";"} \/ (tok[1] = "STR" /\ words[1].s = "PROGRAM")

(* What the tokens mean, after a label or without one; words has the       *)
(* numbers, of which the one after ORG or PIN is n.  ret is the return     *)
(* code, or "exit" after panic_bad_token().                                *)
Recognised(tok, words, label) ==
    CASE ~label /\ Skippable(tok, words) -> Line("NONE")
      [] tok[1] = "END" -> Line("DONE")
      [] tok[1] = "ORG" /\ tok[2] = "START" -> Line("NONE")
      [] tok[1] \in {"ORG", "PIN"} /\ tok[2] = "INT" ->
           [Line(tok[1]) EXCEPT !.n = words[2].n]
      [] /\ tok[1] \in OPCODE /\ tok[2] = "." /\ tok[3] \in MODIFIER
         /\ tok[4] \in ADDRMODE /\ tok[5] = "INT" /\ tok[6] = ","
         /\ tok[7] \in ADDRMODE /\ tok[8] = "INT" ->
           [Line("OK") EXCEPT
              !.flag = label,
              !.insn = [opcode |-> tok[1], modifier |-> tok[3],
                        amode |-> tok[4], a |-> MODS(words[5].n),
                        bmode |-> tok[7], b |-> MODS(words[8].n)]]
      [] OTHER -> Line("exit")

(* The first eight tokens.                                                 *)
Tokens(words) ==
    [k \in 1 .. 8 |-> IF k > Len(words) THEN "0" ELSE get_tok(words[k])]

(* [START] OPCODE.MODIFIER A-MODE INT , B-MODE INT.  What follows is       *)
(* ignored.                                                                *)
Parsed(line) ==
    LET label == line # <<>> /\ get_tok(line[1]) = "START"
        words == IF label THEN Tail(line) ELSE line
    IN  Recognised(Tokens(words), words, label)

(* What asm_line() returns, and leaves in the instruction: the number of   *)
(* ORG or PIN in its a-field.                                              *)
asm_line(line) == [Parsed(line) EXCEPT !.n = Field(@)]

-----------------------------------------------------------------------------
(* Files.                                                                  *)

NoWarrior == [code |-> <<>>, start |-> 0, have_pin |-> FALSE, pin |-> 0]

(* asm_fname() opens the file, asm_file() begins.                          *)
Open(f) ==
    /\ status = "idle"
    /\ source' = f /\ file' = f /\ w' = NoWarrior /\ status' = "reading"

(* Mutant of Labelled: the flag is looked for when the length is known.    *)
LabelledLate(line) == IF line.flag THEN Len(w.code) + 1 ELSE w.start

(* The start after an instruction.                                         *)
Labelled(line) == IF line.flag THEN Len(w.code) ELSE w.start

(* An instruction; there is one too many only after it has been stored.    *)
Instruction(line) ==
    /\ line.ret = "OK"
    /\ w' = [w EXCEPT !.code = Append(@, line.insn), !.start = Labelled(line)]
    /\ UNCHANGED status

Org(line) ==
    /\ line.ret = "ORG"
    /\ w' = [w EXCEPT !.start = line.n]
    /\ UNCHANGED status

Pin(line) ==
    /\ line.ret = "PIN"
    /\ w' = [w EXCEPT !.have_pin = TRUE, !.pin = line.n]
    /\ UNCHANGED status

Ignored(line) ==
    /\ line.ret = "NONE"
    /\ UNCHANGED <<w, status>>

Refused(line) ==
    /\ line.ret = "exit"
    /\ status' = "exited" /\ UNCHANGED w

(* Instructions, ORG and PIN are assembled into the next instruction of the*)
(* warrior, even if there is none: nothing is known of what follows.       *)
Full(line) == line.ret \in {"OK", "ORG", "PIN"} /\ Len(w.code) = MAXLENGTH

Overrun(line) ==
    /\ Full(line)
    /\ status' = "undefined" /\ UNCHANGED w

(* The next line; the end of the file is like END.                         *)
next == asm_line(IF file = <<>> THEN <<Word("END")>> ELSE file[1])

ReadLine ==
    /\ status = "reading" /\ next.ret # "DONE"
    /\ file' = Tail(file)
    /\ \E line \in {next} :
          \/ Overrun(line)
          \/ /\ ~Full(line)
             /\ \/ Instruction(line) \/ Org(line) \/ Pin(line)
                \/ Ignored(line) \/ Refused(line)
    /\ UNCHANGED source

Finish ==
    /\ status = "reading" /\ next.ret = "DONE"
    /\ status' = IF w.start >= Len(w.code) THEN "exited" ELSE "done"
    /\ UNCHANGED <<source, file, w>>

-----------------------------------------------------------------------------
(* The way back.                                                           *)

(* Mutant of Signed: the middle of core belongs to nobody.                 *)
SignedShifted(x) == IF x < Coresize \div 2 THEN x ELSE x - Coresize + 1

(* Fields are written as small numbers with a sign.                        *)
Signed(x) == IF x <= Coresize \div 2 THEN x ELSE x - Coresize

dis1(in) ==
    <<Word(IF in.opcode = "MODM" THEN "MOD" ELSE in.opcode), Word("."),
      Word(in.modifier), Word(Char[in.amode]), Number(Signed(in.a)), Word(","),
      Word(Char[in.bmode]), Number(Signed(in.b))>>

(* to_red() of a warrior: comments, and to_rc().  The PIN gets lost.       *)
to_red(x) ==
    << <<Word(";"), Word("REDCODE")>>, <<Word(";"), Word("FILENAME")>>,
       <<Word("ORG"), Word("START")>> >>
    \o [k \in 1 .. Len(x.code) |->
          (IF x.start = k - 1 THEN <<Word("START")>> ELSE <<>>)
             \o dis1(x.code[k])]
    \o << <<Word("END")>> >>

-----------------------------------------------------------------------------
(* Property.                                                               *)

(* The meaning of a file: its lines up to END, of which the instructions   *)
(* are the code, the last PIN is the pin, and the last that is an ORG or   *)
(* has the label START determines the start.                               *)
UpToEnd(lines) ==
    LET last == SelectInSeq(lines, LAMBDA l : l.ret = "DONE")
    IN  IF last = 0 THEN lines ELSE SubSeq(lines, 1, last - 1)

(* The lines as they are written: the number of ORG or PIN is all of it.   *)
Lines(f) == UpToEnd([k \in DOMAIN f |-> Parsed(f[k])])

OkLines(lines) == {k \in DOMAIN lines : lines[k].ret = "OK"}

(* The line of the i-th instruction, as a set.                             *)
Numbered(lines, i) ==
    {k \in OkLines(lines) : Cardinality({j \in OkLines(lines) : j <= k}) = i}

Code(lines) ==
    [i \in 1 .. Cardinality(OkLines(lines)) |->
        lines[CHOOSE k \in Numbered(lines, i) : TRUE].insn]

Meaning(lines) ==
    LET from  == SelectLastInSeq(lines, LAMBDA l : l.ret = "ORG" \/ l.flag)
        pin   == SelectLastInSeq(lines, LAMBDA l : l.ret = "PIN")
    IN  [code  |-> Code(lines),
         start |-> CASE from = 0 -> 0
                     [] from # 0 /\ lines[from].ret = "ORG" -> lines[from].n
                     [] OTHER -> Len(Code(SubSeq(lines, 1, from - 1))),
         have_pin |-> pin # 0,
         pin   |-> IF pin = 0 THEN 0 ELSE lines[pin].n]

(* It has one if no line is refused, and the start is an instruction.      *)
HasMeaning(lines) ==
    /\ \A k \in DOMAIN lines : lines[k].ret # "exit"
    /\ Len(Code(lines)) \in Meaning(lines).start + 1 .. MAXLENGTH

(* The numbers of ORG and PIN are values of field_t.                       *)
Fitting(lines) ==
    \A k \in DOMAIN lines :
        lines[k].ret \in {"ORG", "PIN"} => lines[k].n = Field(lines[k].n)

(* "If the warrior assembled correctly, then warrior_t contains its code   *)
(* and starting offset" (asm.c:464-465), read line by line with what the   *)
(* previous lines have left: the code is the one that the file means as a  *)
(* whole, and so are the start, the PIN and whether it is refused, but only*)
(* if the numbers of its ORGs and PINs fit: asm_line() hands them over in  *)
(* a field (asm.c:350 and 358), so that PIN 65537 becomes 1.  Only after   *)
(* MAXLENGTH instructions is anything written past the end of the array.   *)
AssembledAsWritten ==
    LET lines == Lines(source)
    IN  /\ status = "done" => w.code = Code(lines) /\ Len(w.code) <= MAXLENGTH
        /\ status = "done" /\ Fitting(lines) =>
              HasMeaning(lines) /\ w = Meaning(lines)
        /\ status = "exited" /\ Fitting(lines) => ~HasMeaning(lines)
        /\ status = "undefined" =>
              \E k \in DOMAIN lines :
                 /\ lines[k].ret \in {"OK", "ORG", "PIN"}
                 /\ Len(Code(SubSeq(lines, 1, k - 1))) = MAXLENGTH
=============================================================================
