--------------------------- MODULE Offspring_proofs ---------------------------
(***************************************************************************)
(* Proofs about the life of a warrior.  asm_file() is a loop over the      *)
(* lines of a file: AsmInv says that while it reads, the warrior it builds *)
(* is what the lines so far mean, with the numbers of ORG and PIN as a     *)
(* field keeps them; what of that is the meaning of the file as it is      *)
(* written comes afterwards (LinesKept).  A file that to_red() wrote means *)
(* the warrior that was written (WrittenMeaning), because every            *)
(* instruction is read as it was written (InsnRead).  OffspringInv adds    *)
(* who is sound, who is fertile and how far a printed warrior is on its    *)
(* way back, and is kept by every action.  The last part is about one      *)
(* instruction: the evolver's tables against the switch of sim_proper(),   *)
(* and its two fields against one another.                                 *)
(***************************************************************************)
EXTENDS Offspring, DataLemmas, FiniteSetTheorems, SequenceTheorems, TLAPS

USE CoresizeAssumption, MAXLENGTHAssumption, MaxlengthAssumption, WorldAssumption

LineType == [ret : {"NONE", "DONE", "ORG", "PIN", "OK", "exit"}, insn : Insn,
             flag : BOOLEAN, n : Nat]

(* MODS() brings every number of a file into core.                         *)
LEMMA FieldTypes ==
    ASSUME NEW x \in Int
    PROVE  MODS(x) \in Addr /\ Field(x) \in Nat
<1>1. Field(x) \in Nat
  BY DEF Field
<1>2. CASE x >= 0
  BY <1>1, <1>2 DEF MODS, Remainder, Addr
<1>3. CASE x < 0
  <2>1. -x \in Nat /\ (-x) % Coresize \in 0 .. Coresize - 1
    BY <1>3
  <2>2. QED
    BY <1>1, <1>3, <2>1 DEF MODS, Remainder, Addr
<1>4. QED
  BY <1>1, <1>2, <1>3

(* What is written of a field is read as the same.                         *)
LEMMA SignedRead ==
    ASSUME NEW x \in Addr
    PROVE  Signed(x) \in Int /\ MODS(Signed(x)) = x
<1>1. CASE x <= Coresize \div 2
  <2>1. x % Coresize = x
    BY DEF Addr
  <2>2. QED
    BY <1>1, <2>1 DEF Signed, MODS, Remainder, Addr
<1>2. CASE ~(x <= Coresize \div 2)
  <2>1. /\ Signed(x) = x - Coresize /\ x - Coresize < 0
        /\ -(x - Coresize) = Coresize - x /\ x > 0
    BY <1>2 DEF Signed, Addr
  <2>2. (Coresize - x) % Coresize = Coresize - x
    BY <2>1 DEF Addr
  <2>3. Remainder(x - Coresize, Coresize) = -(Coresize - x)
    BY <2>1, <2>2 DEF Remainder
  <2>4. QED
    BY <2>1, <2>3 DEF MODS, Addr
<1>3. QED
  BY <1>1, <1>2 DEF Addr

(* The characters of the modes are different, and no other words.          *)
Signs == {Char[mode] : mode \in ADDRMODE}

LEMMA SignValues ==
    /\ Signs = {"$", "#", "*", "@", "{", "<", "}", ">"}
    /\ \A mode \in ADDRMODE : Char[mode] \in Signs
    /\ \A mode, other \in ADDRMODE : Char[mode] = Char[other] => mode = other
<1>1. /\ Char["DIRECT"] = "$" /\ Char["IMMEDIATE"] = "#" /\ Char["AINDIRECT"] = "*"
      /\ Char["BINDIRECT"] = "@" /\ Char["APREDEC"] = "{" /\ Char["BPREDEC"] = "<"
      /\ Char["APOSTINC"] = "}" /\ Char["BPOSTINC"] = ">"
  BY DEF Char
<1>2. Signs = {"$", "#", "*", "@", "{", "<", "}", ">"}
  <2> DEFINE S == {"$", "#", "*", "@", "{", "<", "}", ">"}
  <2>1. \A mode \in ADDRMODE : Char[mode] \in S
    BY <1>1 DEF ADDRMODE
  <2>2. \A y \in S : \E mode \in ADDRMODE : Char[mode] = y
    BY <1>1 DEF ADDRMODE
  <2> HIDE DEF S
  <2>3. \A y : y \in Signs <=> y \in S
    BY <2>1, <2>2 DEF Signs
  <2>4. Signs = S
    BY <2>3
  <2>5. QED
    BY <2>4 DEF S
<1>3. \A mode \in ADDRMODE : Char[mode] \in Signs
  BY DEF Signs
<1>4. \A mode, other \in ADDRMODE : Char[mode] = Char[other] => mode = other
  <2> TAKE mode, other \in ADDRMODE
  <2>1. \/ mode \in {"DIRECT", "IMMEDIATE", "AINDIRECT", "BINDIRECT"}
        \/ mode \in {"APREDEC", "BPREDEC", "APOSTINC", "BPOSTINC"}
    BY DEF ADDRMODE
  <2>2. CASE mode \in {"DIRECT", "IMMEDIATE", "AINDIRECT", "BINDIRECT"}
    BY <1>1, <2>2 DEF ADDRMODE
  <2>3. CASE mode \in {"APREDEC", "BPREDEC", "APOSTINC", "BPOSTINC"}
    BY <1>1, <2>3 DEF ADDRMODE
  <2>4. QED
    BY <2>1, <2>2, <2>3
<1>5. QED
  BY <1>2, <1>3, <1>4

(* The strings of str_toks[], the characters of the modes and the other    *)
(* ones are different.                                                     *)
Names == DOMAIN str_toks

LEMMA NameTokens ==
    /\ "" \notin Names /\ Names \cap Signs = {}
    /\ \A s \in Names : str_toks[s] = IF s = "CMP" THEN "SEQ"
                                      ELSE IF s = "MOD" THEN "MODM" ELSE s
    /\ (OPCODE \ {"MODM"}) \cup MODIFIER
          \cup {"MOD", "CMP", "ORG", "END", "PIN", "START"} = Names
<1>1. /\ (OPCODE \ {"MODM"}) \cup MODIFIER
            \cup {"MOD", "CMP", "ORG", "END", "PIN", "START"} = Names
      /\ \A s \in Names : str_toks[s] = IF s = "CMP" THEN "SEQ"
                                        ELSE IF s = "MOD" THEN "MODM" ELSE s
  BY DEF Names, str_toks
<1>2. "" \notin Names
  BY <1>1 DEF OPCODE, MODIFIER
<1>3. Names \cap Signs = {}
  <2>1. \A s \in Signs : s \notin OPCODE /\ s \notin MODIFIER
    BY SignValues DEF OPCODE, MODIFIER
  <2>2. \A s \in Signs : s \notin {"MOD", "CMP", "ORG", "END", "PIN", "START"}
    BY SignValues
  <2>3. QED
    BY <1>1, <2>1, <2>2
<1>4. QED
  BY <1>1, <1>2, <1>3

LEMMA PunctuationIsNoName ==
    ASSUME NEW s \in Punctuation
    PROVE  s # "" /\ s \notin Names /\ s \notin Signs
<1>1. s # ""
  BY Zenon DEF Punctuation
<1>2. s \notin Signs
  <2>1. s \notin {"$", "#", "*", "@", "{", "<", "}", ">"}
    BY Zenon DEF Punctuation
  <2>2. QED
    BY <2>1, SignValues
<1>3. s \notin OPCODE
  BY Zenon DEF Punctuation, OPCODE
<1>4. s \notin MODIFIER
  BY Zenon DEF Punctuation, MODIFIER
<1>5. s \notin {"MOD", "CMP", "ORG", "END", "PIN", "START"}
  BY Zenon DEF Punctuation
<1>6. QED
  BY <1>1, <1>2, <1>3, <1>4, <1>5, NameTokens

(* A word is a token of its own, but for numbers, CMP, MOD and the         *)
(* characters of the modes.                                                *)
LEMMA WordToken ==
    ASSUME NEW word
    PROVE  /\ word.s = "" => get_tok(word) = "INT"
           /\ word.s \in (Names \ {"CMP", "MOD"}) \cup Punctuation =>
                 get_tok(word) = word.s
           /\ word.s = "MOD" => get_tok(word) = "MODM"
           /\ \A mode \in ADDRMODE : word.s = Char[mode] => get_tok(word) = mode
<1> DEFINE mode == CHOOSE mode \in ADDRMODE : Char[mode] = word.s
<1>1. ASSUME NEW m \in ADDRMODE, word.s = Char[m]
      PROVE  mode = m
  <2>1. mode \in ADDRMODE /\ Char[mode] = word.s
    BY <1>1
  <2> HIDE DEF mode
  <2>2. QED
    BY <1>1, <2>1, SignValues
<1>2. get_tok(word) = CASE word.s = "" -> "INT"
                        [] word.s \in Names -> str_toks[word.s]
                        [] word.s \in Signs -> mode
                        [] word.s \in Punctuation -> word.s
                        [] OTHER -> "STR"
  BY DEF get_tok, Signs, Names
<1> HIDE DEF mode
<1>3. \A m \in ADDRMODE : Char[m] \in Signs
  BY SignValues
<1>4. /\ word.s \in Names => word.s # "" /\ word.s \notin Signs
      /\ word.s \in Punctuation => /\ word.s # "" /\ word.s \notin Names
                                   /\ word.s \notin Signs
      /\ word.s \in Signs => word.s # ""
  BY NameTokens, PunctuationIsNoName, SignValues
<1>5. word.s = "" => get_tok(word) = "INT"
  BY <1>2, <1>4
<1>6. ASSUME word.s \in Names
      PROVE  get_tok(word) = str_toks[word.s]
  BY <1>2, <1>4, <1>6
<1>7. ASSUME word.s \in Punctuation
      PROVE  get_tok(word) = word.s
  BY <1>2, <1>4, <1>7
<1>8. word.s \in Names \ {"CMP", "MOD"} => get_tok(word) = word.s
  BY <1>6, NameTokens
<1>9. word.s = "MOD" => get_tok(word) = "MODM"
  <2>1. "MOD" \in Names /\ str_toks["MOD"] = "MODM"
    BY NameTokens
  <2>2. QED
    BY <1>6, <2>1
<1>10. ASSUME NEW m \in ADDRMODE, word.s = Char[m]
       PROVE  get_tok(word) = m
  <2>1. word.s \in Signs
    BY <1>3, <1>10
  <2>2. get_tok(word) = mode
    BY <1>2, <1>4, <2>1
  <2>3. QED
    BY <1>1, <1>10, <2>2
<1>11. QED
  BY <1>5, <1>7, <1>8, <1>9, <1>10

(* The tokens of a line are those of its words; the rest is empty.         *)
LEMMA TokenTypes ==
    ASSUME NEW words \in Seq(Words), NEW k \in 1 .. 8
    PROVE  /\ Tokens(words)[k] = IF k > Len(words) THEN "0" ELSE get_tok(words[k])
           /\ Tokens(words)[k] # "0" => words[k] \in Words
  BY DEF Tokens

(* A line that is skipped is nothing else.                                 *)
LEMMA SkippedLine ==
    ASSUME NEW tok, NEW words, Skippable(tok, words)
    PROVE  Recognised(tok, words, FALSE) = Line("NONE")
<1>1. tok[1] \in {"0", ";"} \/ tok[1] = "STR"
  BY Zenon DEF Skippable
<1>2. tok[1] # "END" /\ tok[1] # "ORG" /\ tok[1] # "PIN"
  BY <1>1, Zenon
<1>3. tok[1] \notin OPCODE
  BY <1>1, Zenon DEF OPCODE
<1>4. QED
  BY <1>2, <1>3 DEF Recognised

(* Whatever the words of a line are, it is parsed as a line.               *)
ParsedType == [ret : {"NONE", "DONE", "ORG", "PIN", "OK", "exit"}, insn : Insn,
               flag : BOOLEAN, n : Int]

LEMMA LineParsed ==
    ASSUME NEW line \in Seq(Words)
    PROVE  /\ Parsed(line) \in ParsedType
           /\ Parsed(line).flag => Parsed(line).ret = "OK"
           /\ Parsed(line).ret \notin {"ORG", "PIN"} => Parsed(line).n = 0
<1> DEFINE label == line # <<>> /\ get_tok(line[1]) = "START"
           words == IF label THEN Tail(line) ELSE line
           tok == Tokens(words)
           result == Recognised(tok, words, label)
           Typed(r) == /\ r \in ParsedType /\ (r.flag => r.ret = "OK")
                       /\ (r.ret \notin {"ORG", "PIN"} => r.n = 0)
<1>1. words \in Seq(Words) /\ label \in BOOLEAN
  OBVIOUS
<1>2. /\ tok[2] = "INT" => words[2].n \in Int
      /\ tok[5] = "INT" => words[5].n \in Int
      /\ tok[8] = "INT" => words[8].n \in Int
  <2> HIDE DEF words, label
  <2>1. ASSUME NEW k \in 1 .. 8, tok[k] = "INT"
        PROVE  words[k].n \in Int
    BY <1>1, <2>1, TokenTypes DEF Words
  <2> HIDE DEF tok
  <2>2. QED
    BY <2>1
<1> HIDE DEF tok, words, label
<1>3. SUFFICES Typed(result)
  BY DEF Parsed, tok, words, label
<1>4. Zeroed \in Insn
  BY DEF Zeroed, Insn, Addr, OPCODE, MODIFIER, ADDRMODE
<1>5. \A ret \in {"NONE", "DONE", "ORG", "PIN", "OK", "exit"} :
         Typed(Line(ret)) /\ Line(ret) = [ret |-> ret, insn |-> Zeroed,
                                          flag |-> FALSE, n |-> 0]
  BY <1>4 DEF Line, ParsedType
<1>6. CASE ~(~label /\ Skippable(tok, words))
           /\ tok[1] \in OPCODE /\ tok[2] = "." /\ tok[3] \in MODIFIER
           /\ tok[4] \in ADDRMODE /\ tok[5] = "INT" /\ tok[6] = ","
           /\ tok[7] \in ADDRMODE /\ tok[8] = "INT"
  <2>1. MODS(words[5].n) \in Addr /\ MODS(words[8].n) \in Addr
    BY <1>2, <1>6, FieldTypes
  <2> DEFINE in == [opcode |-> tok[1], modifier |-> tok[3], amode |-> tok[4],
                    a |-> MODS(words[5].n), bmode |-> tok[7], b |-> MODS(words[8].n)]
  <2>2. in \in Insn
    BY <1>6, <2>1 DEF Insn
  <2>3. result = [Line("OK") EXCEPT !.flag = label, !.insn = in]
    BY <1>6 DEF Recognised, OPCODE
  <2> HIDE DEF in, result
  <2>4. result = [ret |-> "OK", insn |-> in, flag |-> label, n |-> 0]
    BY <2>3 DEF Line
  <2>5. QED
    BY <1>1, <2>2, <2>4 DEF ParsedType
<1>7. CASE ~(~label /\ Skippable(tok, words))
           /\ tok[1] \in {"ORG", "PIN"} /\ tok[2] = "INT"
  <2>1. words[2].n \in Int
    BY <1>2, <1>7
  <2>2. result = [Line(tok[1]) EXCEPT !.n = words[2].n]
    BY <1>7 DEF Recognised, OPCODE
  <2> HIDE DEF result
  <2>3. result = [ret |-> tok[1], insn |-> Zeroed, flag |-> FALSE, n |-> words[2].n]
    BY <2>2 DEF Line
  <2>4. QED
    BY <1>4, <1>7, <2>1, <2>3 DEF ParsedType
<1>8. CASE ~label /\ Skippable(tok, words)
  <2>1. result = Recognised(tok, words, FALSE)
    BY <1>1, <1>8
  <2>2. QED
    BY <1>5, <1>8, <2>1, SkippedLine
<1>9. QED
  <2>1. \/ result \in {Line("DONE"), Line("NONE"), Line("exit")}
        \/ tok[1] \in {"ORG", "PIN"} /\ tok[2] = "INT"
        \/ tok[1] \in OPCODE /\ tok[2] = "." /\ tok[3] \in MODIFIER
             /\ tok[4] \in ADDRMODE /\ tok[5] = "INT" /\ tok[6] = ","
             /\ tok[7] \in ADDRMODE /\ tok[8] = "INT"
        \/ ~label /\ Skippable(tok, words)
    BY DEF Recognised
  <2> HIDE DEF result
  <2>2. QED
    BY <1>5, <1>6, <1>7, <1>8, <2>1

(* asm_line() answers with the same, but for a number, of which it keeps   *)
(* what fits.                                                              *)
LEMMA LineTyped ==
    ASSUME NEW line \in Seq(Words)
    PROVE  /\ asm_line(line) \in LineType
           /\ asm_line(line).ret = Parsed(line).ret
           /\ asm_line(line).insn = Parsed(line).insn
           /\ asm_line(line).flag = Parsed(line).flag
           /\ asm_line(line).n = Field(Parsed(line).n)
           /\ asm_line(line).flag => asm_line(line).ret = "OK"
<1> DEFINE r == Parsed(line)
<1>1. r \in ParsedType /\ (r.flag => r.ret = "OK")
  BY LineParsed
<1>2. asm_line(line) = [r EXCEPT !.n = Field(r.n)]
  BY DEF asm_line
<1> HIDE DEF r
<1>3. Field(r.n) \in Nat
  BY <1>1, FieldTypes DEF ParsedType
<1>4. /\ asm_line(line) = [ret |-> r.ret, insn |-> r.insn, flag |-> r.flag,
                           n |-> Field(r.n)]
      /\ r.ret \in {"NONE", "DONE", "ORG", "PIN", "OK", "exit"}
      /\ r.insn \in Insn /\ r.flag \in BOOLEAN
  BY <1>1, <1>2 DEF ParsedType
<1>5. asm_line(line) \in LineType
  BY <1>3, <1>4 DEF LineType
<1>6. QED
  BY <1>1, <1>4, <1>5 DEF r

-----------------------------------------------------------------------------
(* The greatest and the least of some numbers.                             *)

LEMMA MaxOf ==
    ASSUME NEW n \in Nat, NEW I \in SUBSET (1 .. n), I # {}
    PROVE  Max(I) \in I /\ \A y \in I : y <= Max(I)
<1> DEFINE Bounds == {m \in Nat : \A i \in I : i <= m}
<1>1. SUFFICES ASSUME ~\E x \in I : \A y \in I : x >= y
               PROVE  FALSE
  BY DEF Max
<1>2. \A i \in I : i \in Int /\ i >= 1 /\ i <= n
  OBVIOUS
<1>3. n \in Bounds
  BY <1>2
<1>4. ASSUME NEW m \in Bounds
      PROVE  m # 0 /\ m - 1 \in Bounds
  <2>1. m \in Nat /\ \A i \in I : i <= m
    OBVIOUS
  <2>2. m # 0
    <3>1. PICK i \in I : TRUE
      OBVIOUS
    <3>2. QED
      BY <1>2, <2>1, <3>1
  <2>3. m \notin I
    BY <1>1, <1>2, <2>1
  <2>4. \A i \in I : i <= m - 1
    BY <1>2, <2>1, <2>3
  <2>5. QED
    BY <2>1, <2>2, <2>4
<1>5. Bounds = {}
  <2>1. Bounds \in SUBSET Nat
    OBVIOUS
  <2> HIDE DEF Bounds
  <2>2. QED
    BY <1>4, <2>1, NoLeastFailure
<1>6. QED
  BY <1>3, <1>5

(* The least member of a set of positions.                                 *)
LEMMA MinOf ==
    ASSUME NEW n \in Nat, NEW I \in SUBSET (1 .. n), I # {}
    PROVE  Min(I) \in I /\ \A y \in I : Min(I) <= y
<1>1. SUFFICES ASSUME ~\E x \in I : \A y \in I : x <= y
               PROVE  FALSE
  BY DEF Min
<1>2. \A i \in I : i \in Int /\ i >= 1 /\ i <= n
  OBVIOUS
<1> DEFINE Bad == {m \in Nat : \E i \in I : i <= m}
<1>3. n \in Bad
  BY <1>2
<1>4. ASSUME NEW m \in Bad
      PROVE  m # 0 /\ m - 1 \in Bad
  <2>1. PICK i \in I : m \in Nat /\ i <= m
    OBVIOUS
  <2>2. PICK j \in I : ~(i <= j)
    BY <1>1
  <2>3. j <= m - 1 /\ m # 0 /\ m - 1 \in Nat
    BY <1>2, <2>1, <2>2
  <2>4. QED
    BY <2>3
<1>5. Bad = {}
  <2>1. Bad \in SUBSET Nat
    OBVIOUS
  <2> HIDE DEF Bad
  <2>2. QED
    BY <1>4, <2>1, NoLeastFailure
<1>6. QED
  BY <1>3, <1>5

(* The last of a number of positions.                                      *)
LEMMA MaxIs ==
    ASSUME NEW n \in Nat, NEW I \in SUBSET (1 .. n), n \in I
    PROVE  Max(I) = n
<1>1. Max(I) \in I /\ n <= Max(I)
  BY MaxOf
<1>2. Max(I) \in 1 .. n
  BY <1>1
<1>3. QED
  BY <1>1, <1>2

-----------------------------------------------------------------------------
(* The code that lines have, one line after the other.                     *)

(* More is lines and one line more.                                        *)
OneMore(lines, more, n) ==
    /\ n \in Nat
    /\ DOMAIN lines = 1 .. n
    /\ DOMAIN more = 1 .. n + 1
    /\ \A k \in 1 .. n : more[k] = lines[k]

(* The instructions among the lines, with one line more.                   *)
LEMMA OkLinesGrow ==
    ASSUME NEW n, NEW lines, NEW more, OneMore(lines, more, n)
    PROVE  /\ OkLines(lines) \in SUBSET (1 .. n)
           /\ OkLines(more) \in SUBSET (1 .. n + 1)
           /\ OkLines(more) = IF more[n + 1].ret = "OK" THEN OkLines(lines) \cup {n + 1}
                              ELSE OkLines(lines)
<1>1. /\ n \in Nat /\ \A k \in 1 .. n : k \in 1 .. n + 1 /\ k # n + 1
      /\ \A k \in 1 .. n + 1 : k = n + 1 \/ k \in 1 .. n
      /\ n + 1 \in 1 .. n + 1
  BY DEF OneMore
<1>2. QED
  BY <1>1 DEF OkLines, OneMore

(* There are as many instructions as there are lines with one.             *)
LEMMA CodeLength ==
    ASSUME NEW n \in Nat, NEW lines, DOMAIN lines = 1 .. n
    PROVE  /\ Cardinality(OkLines(lines)) \in Nat
           /\ Len(Code(lines)) = Cardinality(OkLines(lines))
           /\ \E V : Code(lines) \in Seq(V)
<1> DEFINE m == Cardinality(OkLines(lines))
           V == {Code(lines)[i] : i \in 1 .. m}
<1>1. m \in Nat
  <2>1. OkLines(lines) \in SUBSET (1 .. n)
    BY DEF OkLines
  <2>2. QED
    BY <2>1, PartOfInterval
<1>2. Code(lines) \in [1 .. m -> V]
  <2>1. Code(lines) = [i \in 1 .. m |-> Code(lines)[i]]
    BY DEF Code
  <2> HIDE DEF m
  <2>2. QED
    BY <2>1
<1> HIDE DEF m, V
<1>3. Code(lines) \in Seq(V)
  BY <1>1, <1>2, SeqDef
<1>4. Len(Code(lines)) = m
  BY <1>1, <1>2, <1>3, LenProperties
<1>5. QED
  BY <1>1, <1>3, <1>4 DEF m

(* Every position of the code is the rank of some line.                    *)
LEMMA RankExists ==
    ASSUME NEW n \in Nat, NEW S \in SUBSET (1 .. n), NEW i \in 1 .. Cardinality(S)
    PROVE  \E k \in S : Rank(k, S) = i
<1> DEFINE f == [k \in S |-> Rank(k, S)]
           m == Cardinality(S)
<1>1. m \in Nat
  BY PartOfInterval
<1>2. /\ \A k \in S : f[k] \in 1 .. m
      /\ \A j, k \in S : j # k => f[j] # f[k]
  BY RankType, RankInjective
<1>3. f \in Injection(S, 1 .. m)
  <2>1. f \in [S -> 1 .. m]
    BY <1>2
  <2> HIDE DEF f, m
  <2>2. QED
    BY <1>2, <2>1 DEF Injection, IsInjective
<1>4. IsFiniteSet(1 .. m) /\ Cardinality(1 .. m) = m
  <2> HIDE DEF m
  <2>1. 1 \in Int /\ m \in Int /\ m - 1 + 1 = m /\ (1 > m => m = 0)
    BY <1>1
  <2>2. QED
    BY <2>1, FS_Interval
<1>5. f \in Surjection(S, 1 .. m)
  <2> HIDE DEF f
  <2>1. QED
    BY <1>3, <1>4, FS_Injection
<1>6. \E k \in S : f[k] = i
  <2> HIDE DEF f
  <2>1. QED
    BY <1>5 DEF Surjection
<1>7. QED
  BY <1>6

(* The line of an instruction is the only one of its number.               *)
LEMMA NumberedLine ==
    ASSUME NEW n \in Nat, NEW lines, DOMAIN lines = 1 .. n,
           NEW i \in 1 .. Cardinality(OkLines(lines))
    PROVE  /\ Numbered(lines, i) # {} /\ Numbered(lines, i) \in SUBSET (1 .. n)
           /\ Code(lines)[i] = lines[Pick(Numbered(lines, i))].insn
<1>1. OkLines(lines) \in SUBSET (1 .. n)
  BY DEF OkLines
<1>2. Numbered(lines, i) = {k \in OkLines(lines) : Rank(k, OkLines(lines)) = i}
  BY DEF Numbered, Rank, UpTo
<1>3. Numbered(lines, i) # {} /\ Numbered(lines, i) \in SUBSET (1 .. n)
  <2>1. \E k \in OkLines(lines) : Rank(k, OkLines(lines)) = i
    BY <1>1, RankExists
  <2>2. QED
    BY <1>1, <1>2, <2>1
<1>4. QED
  BY <1>3 DEF Code, Pick

(* One line more adds its instruction, if it has one, at the end.          *)
LEMMA CodeGrows ==
    ASSUME NEW n, NEW lines, NEW more, OneMore(lines, more, n)
    PROVE  /\ more[n + 1].ret # "OK" => Code(more) = Code(lines)
           /\ more[n + 1].ret = "OK" =>
                 /\ Len(Code(more)) = Len(Code(lines)) + 1
                 /\ \A i \in 1 .. Len(Code(lines)) : Code(more)[i] = Code(lines)[i]
                 /\ Code(more)[Len(Code(lines)) + 1] = more[n + 1].insn
<1> DEFINE S == OkLines(lines)
           T == OkLines(more)
           m == Cardinality(S)
<1>1. /\ n \in Nat /\ DOMAIN lines = 1 .. n /\ DOMAIN more = 1 .. n + 1
      /\ \A k \in 1 .. n : more[k] = lines[k]
  BY DEF OneMore
<1>2. m \in Nat /\ Len(Code(lines)) = m
  BY <1>1, CodeLength
<1>3. /\ S \in SUBSET (1 .. n) /\ T \in SUBSET (1 .. n + 1)
      /\ T = IF more[n + 1].ret = "OK" THEN S \cup {n + 1} ELSE S
  BY OkLinesGrow
<1>4. \A i \in 1 .. m : /\ Numbered(lines, i) # {}
                        /\ Numbered(lines, i) \in SUBSET (1 .. n)
                        /\ Code(lines)[i] = lines[Pick(Numbered(lines, i))].insn
  BY <1>1, NumberedLine
<1>5. ASSUME NEW i \in 1 .. m, i \in 1 .. Cardinality(T),
             Numbered(more, i) = Numbered(lines, i)
      PROVE  Code(more)[i] = Code(lines)[i]
  <2>1. Code(more)[i] = more[Pick(Numbered(more, i))].insn
    BY <1>1, <1>5, NumberedLine
  <2>2. Pick(Numbered(lines, i)) \in 1 .. n
    <3>1. Pick(Numbered(lines, i)) \in Numbered(lines, i)
      BY <1>4 DEF Pick
    <3>2. QED
      BY <1>4, <3>1
  <2>3. QED
    BY <1>1, <1>4, <1>5, <2>1, <2>2
<1>6. \A L : \A i : Numbered(L, i) = {k \in OkLines(L) : Rank(k, OkLines(L)) = i}
  BY DEF Numbered, Rank, UpTo
<1>7. CASE more[n + 1].ret # "OK"
  <2>1. T = S
    BY <1>3, <1>7
  <2>2. \A i \in 1 .. m : Numbered(more, i) = Numbered(lines, i)
    BY <1>6, <2>1
  <2>3. \A i \in 1 .. m : Code(more)[i] = Code(lines)[i]
    BY <1>5, <2>1, <2>2
  <2>4. /\ Code(lines) = [i \in 1 .. m |-> Code(lines)[i]]
        /\ Code(more) = [i \in 1 .. m |-> Code(more)[i]]
    BY <2>1 DEF Code
  <2> HIDE DEF m
  <2>5. Code(more) = Code(lines)
    BY <2>3, <2>4
  <2>6. QED
    BY <1>7, <2>5
<1>8. CASE more[n + 1].ret = "OK"
  <2>1. T = S \cup {n + 1}
    BY <1>3, <1>8
  <2>2. n + 1 \notin S /\ IsFiniteSet(S)
    BY <1>1, <1>3, PartOfInterval
  <2>3. Cardinality(T) = m + 1
    BY <2>1, <2>2, FS_AddElement
  <2>4. ASSUME NEW k \in S
        PROVE  Rank(k, T) = Rank(k, S)
    <3>1. UpTo(k, T) = UpTo(k, S)
      <4>1. k \in 1 .. n /\ ~(n + 1 <= k)
        BY <1>1, <1>3
      <4> HIDE DEF S, T
      <4>2. QED
        BY <2>1, <4>1 DEF UpTo
    <3>2. QED
      BY <3>1 DEF Rank
  <2>5. Rank(n + 1, T) = m + 1
    <3>1. UpTo(n + 1, T) = T
      <4>1. \A k \in T : k <= n + 1
        BY <1>1, <1>3
      <4>2. QED
        BY <4>1 DEF UpTo
    <3>2. QED
      BY <2>3, <3>1 DEF Rank
  <2>6. \A k \in S : Rank(k, S) \in 1 .. m
    BY <1>1, <1>3, RankType
  <2>7. \A i \in 1 .. m : Numbered(more, i) = Numbered(lines, i)
    <3> HIDE DEF S, T, m
    <3>1. ASSUME NEW i \in 1 .. m
          PROVE  {k \in T : Rank(k, T) = i} = {k \in S : Rank(k, S) = i}
      <4>1. Rank(n + 1, T) # i
        BY <1>2, <2>5
      <4>2. \A k : k \in T /\ Rank(k, T) = i <=> k \in S /\ Rank(k, S) = i
        BY <2>1, <2>4, <4>1
      <4>3. QED
        BY <4>2
    <3>2. QED
      BY <1>6, <3>1 DEF S, T
  <2>8. Numbered(more, m + 1) = {n + 1}
    <3> HIDE DEF S, T, m
    <3>1. {k \in T : Rank(k, T) = m + 1} = {n + 1}
      <4>1. \A k \in S : Rank(k, S) # m + 1
        BY <1>2, <2>6
      <4>2. \A k : k \in T /\ Rank(k, T) = m + 1 <=> k = n + 1
        BY <2>1, <2>4, <2>5, <4>1
      <4>3. QED
        BY <4>2
    <3>2. QED
      BY <1>6, <3>1 DEF T
  <2>9. Len(Code(more)) = m + 1
    <3>1. n + 1 \in Nat
      BY <1>1
    <3>2. QED
      BY <1>1, <2>3, <3>1, CodeLength
  <2>10. \A i \in 1 .. m : Code(more)[i] = Code(lines)[i]
    <3> HIDE DEF S, T, m
    <3>1. \A i \in 1 .. m : i \in 1 .. Cardinality(T)
      BY <1>2, <2>3
    <3>2. QED
      BY <1>5, <2>7, <3>1
  <2>11. Code(more)[m + 1] = more[n + 1].insn
    <3>1. n + 1 \in Nat /\ m + 1 \in 1 .. Cardinality(T)
      BY <1>1, <1>2, <2>3
    <3>2. Code(more)[m + 1] = more[Pick(Numbered(more, m + 1))].insn
      BY <1>1, <3>1, NumberedLine
    <3>3. Pick({n + 1}) = n + 1
      BY DEF Pick
    <3>4. QED
      BY <2>8, <3>2, <3>3
  <2>12. QED
    BY <1>2, <1>8, <2>9, <2>10, <2>11
<1>9. QED
  BY <1>7, <1>8

-----------------------------------------------------------------------------
(* What lines mean, one line after the other.                              *)

LastOf(I) == IF I # {} THEN Max(I) ELSE 0

Starts(lines) == {i \in 1 .. Len(lines) : lines[i].ret = "ORG" \/ lines[i].flag}
Pins(lines) == {i \in 1 .. Len(lines) : lines[i].ret = "PIN"}

StartFrom(lines, from) ==
    IF from = 0 THEN 0
    ELSE IF lines[from].ret = "ORG" THEN lines[from].n
    ELSE Len(Code(SubSeq(lines, 1, from - 1)))

PinFrom(lines, pin) == IF pin = 0 THEN 0 ELSE lines[pin].n

(* What the lines mean, in parts: the code, the start, the PIN.            *)
LEMMA MeaningParts ==
    ASSUME NEW lines
    PROVE  Meaning(lines) = [code |-> Code(lines),
                             start |-> StartFrom(lines, LastOf(Starts(lines))),
                             have_pin |-> LastOf(Pins(lines)) # 0,
                             pin |-> PinFrom(lines, LastOf(Pins(lines)))]
<1>1. SelectLastInSeq(lines, LAMBDA l : l.ret = "ORG" \/ l.flag) = LastOf(Starts(lines))
  BY DEF SelectLastInSeq, LastOf, Starts
<1>2. SelectLastInSeq(lines, LAMBDA l : l.ret = "PIN") = LastOf(Pins(lines))
  BY DEF SelectLastInSeq, LastOf, Pins
<1>3. QED
  BY <1>1, <1>2 DEF Meaning, StartFrom, PinFrom

(* The last of a set of positions is one of them, or 0 if there is none.   *)
LEMMA LastOfType ==
    ASSUME NEW n \in Nat, NEW I \in SUBSET (1 .. n)
    PROVE  LastOf(I) \in I \/ LastOf(I) = 0
  BY MaxOf DEF LastOf

(* The last of a kind, when there is a line more.                          *)
LEMMA LastOfGrows ==
    ASSUME NEW n \in Nat, NEW I \in SUBSET (1 .. n), NEW J \in SUBSET (1 .. n + 1),
           \A k \in 1 .. n : k \in J <=> k \in I
    PROVE  LastOf(J) = IF n + 1 \in J THEN n + 1 ELSE LastOf(I)
<1>1. CASE n + 1 \in J
  <2>1. n + 1 \in Nat /\ J # {}
    BY <1>1
  <2>2. Max(J) = n + 1
    BY <1>1, <2>1, MaxIs
  <2>3. QED
    BY <1>1, <2>1, <2>2 DEF LastOf
<1>2. CASE n + 1 \notin J
  <2>1. J = I
    <3>1. /\ \A k \in J : k \in 1 .. n /\ k \in I
          /\ \A k \in I : k \in J
      BY <1>2
    <3>2. QED
      BY <3>1
  <2>2. QED
    BY <1>2, <2>1
<1>3. QED
  BY <1>1, <1>2

(* What one line more does to the meaning of a file: this is what          *)
(* asm_file() has to do with a line.                                       *)
LEMMA MeaningGrows ==
    ASSUME NEW lines \in Seq(LineType), NEW more \in Seq(LineType),
           Len(more) = Len(lines) + 1,
           \A k \in 1 .. Len(lines) : more[k] = lines[k],
           NEW l, l = more[Len(more)], l.flag => l.ret = "OK"
    PROVE  /\ OneMore(lines, more, Len(lines))
           /\ Meaning(more).code = Code(more)
           /\ Meaning(more).start = IF l.ret = "ORG" THEN l.n
                                    ELSE IF l.flag THEN Len(Code(lines))
                                    ELSE Meaning(lines).start
           /\ Meaning(more).have_pin = (l.ret = "PIN" \/ Meaning(lines).have_pin)
           /\ Meaning(more).pin = IF l.ret = "PIN" THEN l.n ELSE Meaning(lines).pin
<1> DEFINE n == Len(lines)
           from == LastOf(Starts(lines))
           pin == LastOf(Pins(lines))
<1>1. /\ n \in Nat /\ DOMAIN lines = 1 .. n /\ DOMAIN more = 1 .. n + 1
      /\ l = more[n + 1] /\ n + 1 \in 1 .. n + 1
      /\ \A k \in 1 .. n : k \in 1 .. n + 1
  OBVIOUS
<1>2. OneMore(lines, more, n)
  BY <1>1 DEF OneMore
<1>3. LastOf(Starts(more)) = IF l.ret = "ORG" \/ l.flag THEN n + 1 ELSE from
  <2>1. /\ Starts(lines) \in SUBSET (1 .. n) /\ Starts(more) \in SUBSET (1 .. n + 1)
        /\ \A k \in 1 .. n : k \in Starts(more) <=> k \in Starts(lines)
        /\ n + 1 \in Starts(more) <=> l.ret = "ORG" \/ l.flag
    BY <1>1 DEF Starts
  <2> DEFINE I == Starts(lines)
             J == Starts(more)
  <2> HIDE DEF n, I, J
  <2>2. LastOf(J) = IF n + 1 \in J THEN n + 1 ELSE LastOf(I)
    BY <1>1, <2>1, LastOfGrows DEF I, J
  <2>3. QED
    BY <2>1, <2>2 DEF I, J
<1>4. LastOf(Pins(more)) = IF l.ret = "PIN" THEN n + 1 ELSE pin
  <2>1. /\ Pins(lines) \in SUBSET (1 .. n) /\ Pins(more) \in SUBSET (1 .. n + 1)
        /\ \A k \in 1 .. n : k \in Pins(more) <=> k \in Pins(lines)
        /\ n + 1 \in Pins(more) <=> l.ret = "PIN"
    BY <1>1 DEF Pins
  <2> DEFINE I == Pins(lines)
             J == Pins(more)
  <2> HIDE DEF n, I, J
  <2>2. LastOf(J) = IF n + 1 \in J THEN n + 1 ELSE LastOf(I)
    BY <1>1, <2>1, LastOfGrows DEF I, J
  <2>3. QED
    BY <2>1, <2>2 DEF I, J
<1>5. from \in 1 .. n \/ from = 0
  <2>1. Starts(lines) \in SUBSET (1 .. n)
    BY DEF Starts
  <2>2. QED
    BY <1>1, <2>1, LastOfType
<1>6. pin \in 1 .. n \/ pin = 0
  <2>1. Pins(lines) \in SUBSET (1 .. n)
    BY DEF Pins
  <2>2. QED
    BY <1>1, <2>1, LastOfType
<1>7. ASSUME NEW m \in 0 .. n
      PROVE  SubSeq(more, 1, m) = SubSeq(lines, 1, m)
  <2>1. \A k \in 1 .. m : k \in 1 .. n
    BY <1>1
  <2>2. m \in Int /\ 1 \in Int
    BY <1>1
  <2>3. \A k \in 1 .. m : lines[k] \in LineType /\ more[k] = lines[k]
    BY <1>1, <2>1
  <2>4. /\ SubSeq(lines, 1, m) \in Seq(LineType) /\ Len(SubSeq(lines, 1, m)) = m
        /\ SubSeq(more, 1, m) \in Seq(LineType) /\ Len(SubSeq(more, 1, m)) = m
        /\ \A k \in 1 .. m : /\ SubSeq(lines, 1, m)[k] = lines[k]
                             /\ SubSeq(more, 1, m)[k] = more[k]
    BY <1>1, <2>2, <2>3
  <2>5. QED
    BY <2>3, <2>4, SeqEqual
<1>8. SubSeq(more, 1, n) = lines
  BY <1>1, <1>7, SubSeqFull
<1>9. StartFrom(more, n + 1) = IF l.ret = "ORG" THEN l.n ELSE Len(Code(lines))
  <2> DEFINE m == n + 1
  <2>1. m # 0 /\ m - 1 = n /\ more[m] = l
    BY <1>1
  <2> HIDE DEF n, m
  <2>2. SubSeq(more, 1, m - 1) = lines
    BY <1>8, <2>1
  <2>3. StartFrom(more, m) = IF l.ret = "ORG" THEN l.n ELSE Len(Code(lines))
    BY <2>1, <2>2 DEF StartFrom
  <2>4. QED
    BY <2>3 DEF m, n
<1>10. StartFrom(more, from) = StartFrom(lines, from)
  <2>1. CASE from = 0
    BY <2>1 DEF StartFrom
  <2>2. CASE from \in 1 .. n
    <3>1. from - 1 \in 0 .. n /\ more[from] = lines[from]
      BY <1>1, <2>2
    <3> HIDE DEF n, from
    <3>2. SubSeq(more, 1, from - 1) = SubSeq(lines, 1, from - 1)
      BY <1>7, <3>1
    <3>3. QED
      BY <3>1, <3>2 DEF StartFrom
  <2>3. QED
    BY <1>5, <2>1, <2>2
<1>11. PinFrom(more, n + 1) = l.n /\ PinFrom(more, pin) = PinFrom(lines, pin)
  BY <1>1, <1>6 DEF PinFrom
<1>12. l.ret = "ORG" => ~(l.flag = TRUE)
  OBVIOUS
<1> HIDE DEF n, from, pin
<1>13. /\ Meaning(more).code = Code(more)
       /\ Meaning(more).start = StartFrom(more, LastOf(Starts(more)))
       /\ Meaning(more).have_pin = (LastOf(Pins(more)) # 0)
       /\ Meaning(more).pin = PinFrom(more, LastOf(Pins(more)))
       /\ Meaning(lines).start = StartFrom(lines, from)
       /\ Meaning(lines).have_pin = (pin # 0)
       /\ Meaning(lines).pin = PinFrom(lines, pin)
  BY MeaningParts DEF from, pin
<1>14. n + 1 # 0
  BY <1>1
<1>15. Meaning(more).have_pin = (l.ret = "PIN" \/ Meaning(lines).have_pin)
  BY <1>4, <1>13, <1>14
<1>16. QED
  BY <1>2, <1>3, <1>4, <1>9, <1>10, <1>11, <1>13, <1>15 DEF n

-----------------------------------------------------------------------------
(* The lines of a file.                                                    *)

File == Seq(Seq(Words))

(* The first d of them.                                                    *)
FirstLines(f, d) == [k \in 1 .. d |-> asm_line(f[k])]

(* The first d lines, as asm_line() understands them.                      *)
LEMMA FirstLinesType ==
    ASSUME NEW f \in File, NEW d \in 0 .. Len(f)
    PROVE  /\ FirstLines(f, d) \in Seq(LineType)
           /\ Len(FirstLines(f, d)) = d
           /\ \A k \in 1 .. d : /\ FirstLines(f, d)[k] = asm_line(f[k])
                                /\ asm_line(f[k]) \in LineType
                                /\ asm_line(f[k]).flag => asm_line(f[k]).ret = "OK"
<1>1. d \in Nat /\ \A k \in 1 .. d : k \in 1 .. Len(f)
  BY DEF File
<1>2. \A k \in 1 .. d : f[k] \in Seq(Words)
  BY <1>1, ElementOfSeq DEF File
<1>3. /\ \A k \in 1 .. d : asm_line(f[k]) \in LineType
      /\ \A k \in 1 .. d : asm_line(f[k]).flag => asm_line(f[k]).ret = "OK"
  BY <1>2, LineTyped
<1>4. FirstLines(f, d) \in [1 .. d -> LineType]
  <2>1. FirstLines(f, d) = [k \in 1 .. d |-> FirstLines(f, d)[k]]
    BY DEF FirstLines
  <2>2. ASSUME NEW k \in 1 .. d
        PROVE  FirstLines(f, d)[k] \in LineType
    <3>1. FirstLines(f, d)[k] = asm_line(f[k])
      BY DEF FirstLines
    <3>2. QED
      BY <1>3, <3>1
  <2>3. QED
    BY <2>1, <2>2
<1>5. FirstLines(f, d) \in Seq(LineType)
  BY <1>1, <1>4, SeqDef
<1>6. Len(FirstLines(f, d)) = d
  BY <1>1, <1>4, <1>5, LenProperties
<1>7. QED
  BY <1>3, <1>5, <1>6 DEF FirstLines

Ends(lines) == {i \in 1 .. Len(lines) : lines[i].ret = "DONE"}

(* The lines of a file as asm_line() leaves them in instructions.          *)
StoredLines(f) == UpToEnd([k \in DOMAIN f |-> asm_line(f[k])])

(* asm_file() reads as far as the first END: so far, the lines it has read *)
(* are the first lines of the file.                                        *)
LEMMA LinesOf ==
    ASSUME NEW f \in File, NEW d \in 0 .. Len(f),
           \A k \in 1 .. d : asm_line(f[k]).ret # "DONE"
    PROVE  /\ d = Len(f) \/ asm_line(f[d + 1]).ret = "DONE" => StoredLines(f) = FirstLines(f, d)
           /\ d < Len(f) /\ asm_line(f[d + 1]).ret # "DONE" =>
                 /\ d + 1 \in DOMAIN StoredLines(f) /\ StoredLines(f)[d + 1] = asm_line(f[d + 1])
                 /\ SubSeq(StoredLines(f), 1, d) = FirstLines(f, d)
<1> DEFINE all == FirstLines(f, Len(f))
           n == Len(f)
<1>1. /\ n \in Nat /\ DOMAIN f = 1 .. n /\ n \in 0 .. n
      /\ d \in Nat /\ d <= n
  BY DEF File
<1>2. /\ all \in Seq(LineType) /\ Len(all) = n
      /\ \A k \in 1 .. n : all[k] = asm_line(f[k])
  BY <1>1, FirstLinesType
<1>3. StoredLines(f) = IF Ends(all) = {} THEN all ELSE SubSeq(all, 1, Min(Ends(all)) - 1)
  <2>1. [k \in DOMAIN f |-> asm_line(f[k])] = all
    BY <1>1 DEF FirstLines
  <2>2. SelectInSeq(all, LAMBDA l : l.ret = "DONE") =
           IF Ends(all) # {} THEN Min(Ends(all)) ELSE 0
    BY DEF SelectInSeq, Ends
  <2>3. Ends(all) # {} => Min(Ends(all)) # 0
    <3>1. Ends(all) \in SUBSET (1 .. n)
      BY <1>2 DEF Ends
    <3>2. Ends(all) # {} => Min(Ends(all)) \in 1 .. n
      BY <1>1, <3>1, MinOf
    <3>3. QED
      BY <1>1, <3>2
  <2> HIDE DEF all
  <2>4. QED
    BY <2>1, <2>2, <2>3 DEF StoredLines, UpToEnd
<1>4. /\ Ends(all) \in SUBSET (1 .. n)
      /\ \A k \in 1 .. n : k \in Ends(all) <=> asm_line(f[k]).ret = "DONE"
  BY <1>2 DEF Ends
<1> HIDE DEF all
<1>5. ASSUME NEW m \in 0 .. n
      PROVE  SubSeq(all, 1, m) = FirstLines(f, m)
  <2>1. \A k \in 1 .. m : k \in 1 .. n
    BY <1>1
  <2>2. m \in Nat /\ 1 \in Int /\ \A k \in 1 .. m : all[k] \in LineType
    BY <1>1, <1>2, <2>1
  <2>3. /\ SubSeq(all, 1, m) \in Seq(LineType) /\ Len(SubSeq(all, 1, m)) = m
        /\ \A k \in 1 .. m : SubSeq(all, 1, m)[k] = all[k]
    BY <2>2, SubSeqProperties
  <2>4. /\ FirstLines(f, m) \in Seq(LineType) /\ Len(FirstLines(f, m)) = m
        /\ \A k \in 1 .. m : FirstLines(f, m)[k] = asm_line(f[k])
    BY FirstLinesType
  <2>5. \A k \in 1 .. m : SubSeq(all, 1, m)[k] = FirstLines(f, m)[k]
    BY <1>2, <2>1, <2>3, <2>4
  <2>6. QED
    BY <2>3, <2>4, <2>5, SeqEqual
<1>6. ASSUME NEW m \in 0 .. n, NEW e \in 0 .. n, m <= e
      PROVE  SubSeq(FirstLines(f, e), 1, m) = FirstLines(f, m)
  <2>1. \A k \in 1 .. m : k \in 1 .. e
    BY <1>1, <1>6
  <2>2. m \in Nat /\ 1 \in Int /\ \A k \in 1 .. m : FirstLines(f, e)[k] \in LineType
    <3>1. \A k \in 1 .. e : FirstLines(f, e)[k] \in LineType
      BY FirstLinesType
    <3>2. QED
      BY <1>1, <2>1, <3>1
  <2>3. /\ SubSeq(FirstLines(f, e), 1, m) \in Seq(LineType)
        /\ Len(SubSeq(FirstLines(f, e), 1, m)) = m
        /\ \A k \in 1 .. m : SubSeq(FirstLines(f, e), 1, m)[k] = FirstLines(f, e)[k]
    BY <2>2, SubSeqProperties
  <2>4. /\ FirstLines(f, m) \in Seq(LineType) /\ Len(FirstLines(f, m)) = m
        /\ \A k \in 1 .. m : FirstLines(f, m)[k] = FirstLines(f, e)[k]
    BY <2>1, FirstLinesType
  <2>5. QED
    BY <2>3, <2>4, SeqEqual
<1>7. ASSUME d = n \/ asm_line(f[d + 1]).ret = "DONE"
      PROVE  StoredLines(f) = FirstLines(f, d)
  <2>1. CASE Ends(all) = {}
    <3>1. d = n
      <4>1. SUFFICES ASSUME d # n PROVE FALSE
        OBVIOUS
      <4> HIDE DEF n
      <4>2. d + 1 \in 1 .. n
        BY <1>1, <4>1
      <4>3. QED
        BY <1>4, <1>7, <2>1, <4>1, <4>2
    <3>2. QED
      BY <1>3, <2>1, <3>1 DEF all
  <2>2. CASE Ends(all) # {}
    <3>1. Min(Ends(all)) \in Ends(all) /\ \A y \in Ends(all) : Min(Ends(all)) <= y
      BY <1>1, <1>4, <2>2, MinOf
    <3> DEFINE e == Min(Ends(all))
    <3> HIDE DEF e
    <3>2. e \in 1 .. n /\ e \in Ends(all)
      BY <1>4, <3>1 DEF e
    <3>3. ~(e \in 1 .. d)
      BY <1>4, <3>2
    <3>4. d < n
      BY <1>1, <3>2, <3>3
    <3>5. d + 1 \in Ends(all)
      <4> HIDE DEF n
      <4>1. d + 1 \in 1 .. n /\ d # n
        BY <1>1, <3>4
      <4>2. QED
        BY <1>4, <1>7, <4>1
    <3>6. e <= d + 1
      BY <3>1, <3>5 DEF e
    <3>7. e - 1 = d
      BY <1>1, <3>2, <3>3, <3>6
    <3>8. StoredLines(f) = SubSeq(all, 1, d)
      BY <1>3, <2>2, <3>7 DEF e
    <3>9. QED
      BY <1>5, <3>8
  <2>3. QED
    BY <2>1, <2>2
<1>8. ASSUME d < n, asm_line(f[d + 1]).ret # "DONE"
      PROVE  \E e \in d + 1 .. n : StoredLines(f) = FirstLines(f, e)
  <2>1. CASE Ends(all) = {}
    BY <1>1, <1>3, <1>8, <2>1 DEF all
  <2>2. CASE Ends(all) # {}
    <3>1. Min(Ends(all)) \in Ends(all)
      BY <1>1, <1>4, <2>2, MinOf
    <3> DEFINE e == Min(Ends(all))
    <3> HIDE DEF e
    <3>2. e \in 1 .. n /\ asm_line(f[e]).ret = "DONE"
      BY <1>4, <3>1 DEF e
    <3>3. ~(e \in 1 .. d) /\ e # d + 1
      BY <1>8, <3>2
    <3>4. e - 1 \in d + 1 .. n /\ e - 1 \in 0 .. n
      BY <1>1, <3>2, <3>3
    <3>5. StoredLines(f) = SubSeq(all, 1, e - 1)
      BY <1>3, <2>2 DEF e
    <3>6. QED
      BY <1>5, <3>4, <3>5
  <2>3. QED
    BY <2>1, <2>2
<1>9. ASSUME d < n, asm_line(f[d + 1]).ret # "DONE"
      PROVE  /\ d + 1 \in DOMAIN StoredLines(f) /\ StoredLines(f)[d + 1] = asm_line(f[d + 1])
             /\ SubSeq(StoredLines(f), 1, d) = FirstLines(f, d)
  <2>1. PICK e \in d + 1 .. n : StoredLines(f) = FirstLines(f, e)
    BY <1>8, <1>9
  <2>2. e \in 0 .. n /\ d \in 0 .. n /\ d <= e /\ d + 1 \in 1 .. e
    BY <1>1, <1>9
  <2>3. QED
    BY <1>6, <2>1, <2>2 DEF FirstLines
<1>10. QED
  BY <1>7, <1>9 DEF n

-----------------------------------------------------------------------------
(* The assembler.                                                          *)

WarriorType == [code : Seq(Insn), start : Nat, have_pin : BOOLEAN, pin : Nat]

(* The first d lines have been read, and w is what they mean.              *)
Reading(d) ==
    /\ file = SubSeq(source, d + 1, Len(source))
    /\ \A k \in 1 .. d : asm_line(source[k]).ret \notin {"DONE", "exit"}
    /\ w = Meaning(FirstLines(source, d))

(* The warrior is what the lines, as they are stored, mean as a whole.      *)
KeptAsWritten ==
    LET lines == StoredLines(source)
    IN  /\ status = "done" => HasMeaning(lines) /\ w = Meaning(lines)
        /\ status = "exited" => ~HasMeaning(lines)
        /\ status = "undefined" =>
              \E k \in DOMAIN lines :
                 /\ lines[k].ret \in {"OK", "ORG", "PIN"}
                 /\ Len(Code(SubSeq(lines, 1, k - 1))) = MAXLENGTH

AsmInv ==
    /\ source \in File
    /\ w \in WarriorType /\ Len(w.code) <= MAXLENGTH
    /\ status = "reading" => \E d \in 0 .. Len(source) : Reading(d)
    /\ KeptAsWritten

(* One more instruction is appended, as the assembler does.                *)
LEMMA CodeAppends ==
    ASSUME NEW n, NEW lines, NEW more, OneMore(lines, more, n),
           Code(lines) \in Seq(Insn), more[n + 1].insn \in Insn
    PROVE  Code(more) = IF more[n + 1].ret = "OK"
                        THEN Append(Code(lines), more[n + 1].insn) ELSE Code(lines)
<1>1. CASE more[n + 1].ret # "OK"
  BY <1>1, CodeGrows
<1>2. CASE more[n + 1].ret = "OK"
  <2> DEFINE m == Len(Code(lines))
             c == Code(more)
             e == more[n + 1].insn
  <2>1. /\ m \in Nat /\ Len(c) = m + 1
        /\ \A i \in 1 .. m : c[i] = Code(lines)[i]
        /\ c[m + 1] = e
    BY <1>2, CodeGrows
  <2>2. \E V : c \in Seq(V)
    <3>1. n + 1 \in Nat /\ DOMAIN more = 1 .. n + 1
      BY DEF OneMore
    <3>2. QED
      BY <3>1, CodeLength
  <2>3. DOMAIN c = 1 .. m + 1 /\ c = [i \in 1 .. m + 1 |-> c[i]]
    BY <2>1, <2>2
  <2>4. /\ Append(Code(lines), e) \in Seq(Insn)
        /\ Append(Code(lines), e) = [i \in 1 .. m + 1 |-> Append(Code(lines), e)[i]]
        /\ \A i \in 1 .. m : Append(Code(lines), e)[i] = Code(lines)[i]
        /\ Append(Code(lines), e)[m + 1] = e
    OBVIOUS
  <2> HIDE DEF m, c, e
  <2>5. \A i \in 1 .. m + 1 : c[i] = Append(Code(lines), e)[i]
    BY <2>1, <2>4
  <2>6. c = Append(Code(lines), e)
    BY <2>3, <2>4, <2>5
  <2>7. QED
    BY <1>2, <2>6 DEF c, e
<1>3. QED
  BY <1>1, <1>2

(* The end of a file is like END.                                          *)
LEMMA EndIsDone == asm_line(<<Word("END")>>).ret = "DONE"
<1> DEFINE line == <<Word("END")>>
           tok == Tokens(line)
<1>1. line # <<>> /\ line[1].s = "END" /\ Len(line) = 1 /\ line \in Seq(Words)
  <2>1. "END" \in Vocabulary
    BY DEF Vocabulary
  <2>2. Word("END") \in Words /\ Word("END").s = "END"
    BY <2>1, VocabularyAssumption DEF Word, Words
  <2>3. QED
    BY <2>2
<1>2. tok[1] = get_tok(line[1])
  BY <1>1 DEF Tokens
<1>3. get_tok(line[1]) = "END"
  <2>1. "END" \in Names \ {"CMP", "MOD"}
    BY NameTokens
  <2>2. QED
    BY <1>1, <2>1, WordToken
<1> HIDE DEF tok, line
<1>4. Parsed(line) = Recognised(tok, line, FALSE)
  BY <1>1, <1>3 DEF Parsed, tok
<1>5. ~Skippable(tok, line)
  <2>1. tok[1] = "END"
    BY <1>2, <1>3
  <2>2. QED
    BY <2>1, Zenon DEF Skippable
<1>6. Recognised(tok, line, FALSE).ret = "DONE"
  BY <1>2, <1>3, <1>5 DEF Recognised, Line, OPCODE
<1>7. asm_line(line).ret = "DONE"
  BY <1>1, <1>4, <1>6, LineTyped
<1>8. QED
  BY <1>7 DEF line

(* Nothing read, nothing meant.                                            *)
LEMMA MeaningOfNothing ==
    ASSUME NEW f
    PROVE  Meaning(FirstLines(f, 0)) = NoWarrior
<1> DEFINE lines == FirstLines(f, 0)
<1>1. DOMAIN lines = 1 .. 0 /\ lines = <<>>
  BY DEF FirstLines
<1>2. OkLines(lines) = {}
  BY <1>1 DEF OkLines
<1>3. Code(lines) = <<>>
  BY <1>2, FS_EmptySet DEF Code
<1>4. Starts(lines) = {} /\ Pins(lines) = {}
  BY <1>1 DEF Starts, Pins
<1> HIDE DEF lines
<1>5. LastOf(Starts(lines)) = 0 /\ LastOf(Pins(lines)) = 0
  BY <1>4 DEF LastOf
<1>6. QED
  BY <1>3, <1>5, MeaningParts DEF StartFrom, PinFrom, NoWarrior, lines

(* asm_fname() begins with no line read.                                   *)
LEMMA OpenStep ==
    ASSUME NEW f \in File, Open(f)
    PROVE  AsmInv'
<1>1. /\ source' = f /\ file' = f /\ w' = NoWarrior /\ status' = "reading"
      /\ Len(f) \in Nat
  BY DEF Open, File
<1>2. NoWarrior \in WarriorType /\ Len(NoWarrior.code) = 0
  BY DEF NoWarrior, WarriorType
<1>3. SubSeq(f, 1, Len(f)) = f
  BY SubSeqFull DEF File
<1>4. Reading(0)'
  BY <1>1, <1>3, MeaningOfNothing DEF Reading
<1>5. 0 \in 0 .. Len(f)
  BY <1>1
<1>6. QED
  BY <1>1, <1>2, <1>4, <1>5 DEF AsmInv, KeptAsWritten

(* The next line is line d + 1, or there is none.                          *)
LEMMA NextLine ==
    ASSUME NEW d \in 0 .. Len(source), source \in File, Reading(d)
    PROVE  /\ d = Len(source) => next.ret = "DONE"
           /\ d < Len(source) => /\ next = asm_line(source[d + 1])
                                 /\ Tail(file) = SubSeq(source, d + 2, Len(source))
<1> DEFINE n == Len(source)
<1>1. n \in Nat /\ d \in Nat /\ d <= n /\ file = SubSeq(source, d + 1, n)
  BY DEF Reading, File
<1>2. CASE d = n
  <2>1. d + 1 \in Int /\ n \in Int /\ n < d + 1
    BY <1>1, <1>2
  <2>2. file = <<>>
    BY <1>1, <2>1, SubSeqEmpty
  <2>3. QED
    BY <1>2, <2>2, EndIsDone DEF next
<1>3. CASE d < n
  <2>1. d + 1 \in 1 .. n /\ n \in d + 1 .. n /\ d + 1 + 1 = d + 2 /\ 1 <= n - (d + 1) + 1
    BY <1>1, <1>3
  <2>2. Head(file) = source[d + 1] /\ Tail(file) = SubSeq(source, d + 2, n)
    BY <1>1, <2>1, HeadTailOfSubSeq DEF File
  <2>3. file \in File /\ Len(file) # 0
    <3>1. \A i \in d + 1 .. n : source[i] \in Seq(Words)
      <4>1. \A i \in d + 1 .. n : i \in 1 .. n
        BY <1>1
      <4>2. QED
        BY <4>1, ElementOfSeq DEF File
    <3>2. d + 1 \in Int /\ n \in Int /\ d + 1 <= n
      BY <2>1
    <3>3. file \in Seq(Seq(Words)) /\ Len(file) = n - (d + 1) + 1
      BY <1>1, <3>1, <3>2, SubSeqProperties
    <3>4. QED
      BY <2>1, <3>3 DEF File
  <2>4. file # <<>> /\ file[1] = Head(file)
    BY <2>3 DEF File
  <2>5. QED
    BY <1>3, <2>2, <2>4 DEF next
<1>4. QED
  BY <1>1, <1>2, <1>3

(* Two fields of a warrior replaced.                                       *)
NewCode(r, x, y) == [r EXCEPT !.code = x, !.start = y]
NewPin(r, x, y) == [r EXCEPT !.have_pin = x, !.pin = y]

(* The two updates of a warrior, field by field.                           *)
LEMMA CodeUpdated ==
    ASSUME NEW c, NEW s, NEW h, NEW p, NEW z, NEW x, NEW y,
           NEW r, r = [code |-> c, start |-> s, have_pin |-> h, pin |-> p],
           z = NewCode(r, x, y)
    PROVE  z = [code |-> x, start |-> y, have_pin |-> h, pin |-> p]
  BY DEF NewCode

LEMMA PinUpdated ==
    ASSUME NEW c, NEW s, NEW h, NEW p, NEW z, NEW x, NEW y,
           NEW r, r = [code |-> c, start |-> s, have_pin |-> h, pin |-> p],
           z = NewPin(r, x, y)
    PROVE  z = [code |-> c, start |-> s, have_pin |-> x, pin |-> y]
  BY DEF NewPin

(* A warrior that is the meaning of what has been read, after a line more. *)
LEMMA WarriorGrows ==
    ASSUME NEW d \in 0 .. Len(source), d < Len(source), source \in File,
           w \in WarriorType, w = Meaning(FirstLines(source, d)),
           NEW l, l = asm_line(source[d + 1]),
           Instruction(l) \/ Org(l) \/ Pin(l) \/ Ignored(l)
    PROVE  /\ w' = Meaning(FirstLines(source, d + 1))
           /\ w' \in WarriorType /\ UNCHANGED status
           /\ l.ret \notin {"DONE", "exit"}
           /\ Len(w'.code) = IF l.ret = "OK" THEN Len(w.code) + 1 ELSE Len(w.code)
<1> DEFINE lines == FirstLines(source, d)
           more == FirstLines(source, d + 1)
           c == w.code
           s == w.start
           h == w.have_pin
           p == w.pin
<1>1. d \in Nat /\ d + 1 \in 0 .. Len(source) /\ d + 1 \in 1 .. d + 1
  BY DEF File
<1>2. /\ lines \in Seq(LineType) /\ Len(lines) = d
      /\ \A k \in 1 .. d : lines[k] = asm_line(source[k])
  BY FirstLinesType
<1>3. /\ more \in Seq(LineType) /\ Len(more) = d + 1
      /\ \A k \in 1 .. d + 1 : more[k] = asm_line(source[k])
  BY <1>1, FirstLinesType
<1>4. l \in LineType /\ (l.flag => l.ret = "OK") /\ l = more[d + 1]
  BY <1>1, <1>3, FirstLinesType
<1> HIDE DEF lines, more
<1>5. /\ c \in Seq(Insn) /\ s \in Nat /\ h \in BOOLEAN /\ p \in Nat
      /\ w = [code |-> c, start |-> s, have_pin |-> h, pin |-> p]
  BY DEF WarriorType
<1>6. /\ l.insn \in Insn /\ l.flag \in BOOLEAN /\ l.n \in Nat
  BY <1>4 DEF LineType
<1>7. /\ Code(lines) = c /\ Meaning(lines).start = s
      /\ Meaning(lines).have_pin = h /\ Meaning(lines).pin = p
  <2>1. Meaning(lines) = w
    BY DEF lines
  <2>2. Meaning(lines).code = Code(lines)
    BY MeaningParts
  <2>3. QED
    BY <2>1, <2>2
<1>8. /\ OneMore(lines, more, d)
      /\ Meaning(more).code = Code(more)
      /\ Meaning(more).start = IF l.ret = "ORG" THEN l.n
                               ELSE IF l.flag THEN Len(c) ELSE s
      /\ Meaning(more).have_pin = (l.ret = "PIN" \/ h)
      /\ Meaning(more).pin = IF l.ret = "PIN" THEN l.n ELSE p
  <2>1. \A k \in 1 .. Len(lines) : more[k] = lines[k]
    <3>1. \A k \in 1 .. d : k \in 1 .. d + 1
      BY <1>1
    <3>2. QED
      BY <1>2, <1>3, <3>1
  <2>2. Len(more) = Len(lines) + 1 /\ l = more[Len(more)] /\ (l.flag => l.ret = "OK")
    BY <1>2, <1>3, <1>4
  <2>3. QED
    BY <1>2, <1>3, <1>7, <2>1, <2>2, MeaningGrows
<1>9. Code(more) = IF l.ret = "OK" THEN Append(c, l.insn) ELSE c
  BY <1>4, <1>5, <1>6, <1>7, <1>8, CodeAppends
<1>10. Meaning(more) = [code |-> Meaning(more).code, start |-> Meaning(more).start,
                        have_pin |-> Meaning(more).have_pin, pin |-> Meaning(more).pin]
  BY MeaningParts
<1> HIDE DEF c, s, h, p
<1>11. Meaning(more).have_pin \in BOOLEAN
  BY <1>5, <1>8
<1>12. CASE Instruction(l)
  <2>1. w' = [code |-> Append(c, l.insn), start |-> IF l.flag THEN Len(c) ELSE s,
              have_pin |-> h, pin |-> p]
    <3> DEFINE x == Append(w.code, l.insn)
               y == Labelled(l)
    <3>1. w' = NewCode(w, x, y)
      BY <1>12 DEF Instruction, NewCode
    <3>2. x = Append(c, l.insn) /\ y = IF l.flag THEN Len(c) ELSE s
      BY DEF Labelled, c, s
    <3> HIDE DEF x, y
    <3>3. w' = [code |-> x, start |-> y, have_pin |-> h, pin |-> p]
      BY <1>5, <3>1, CodeUpdated
    <3>4. QED
      BY <3>2, <3>3
  <2>2. l.ret = "OK" /\ UNCHANGED status
    BY <1>12 DEF Instruction
  <2>3. Meaning(more).have_pin = h
    BY <1>5, <1>8, <2>2
  <2>4. w' = Meaning(more)
    BY <1>8, <1>9, <1>10, <2>1, <2>2, <2>3
  <2>5. Append(c, l.insn) \in Seq(Insn) /\ Len(Append(c, l.insn)) = Len(c) + 1 /\ Len(c) \in Nat
    BY <1>5, <1>6
  <2>6. w' \in WarriorType
    BY <1>5, <2>1, <2>5 DEF WarriorType
  <2>7. Len(w'.code) = Len(c) + 1
    BY <2>1, <2>5
  <2>8. QED
    BY <2>2, <2>4, <2>6, <2>7 DEF more, c
<1>13. CASE Org(l)
  <2>1. w' = [code |-> c, start |-> l.n, have_pin |-> h, pin |-> p]
    BY <1>5, <1>13 DEF Org
  <2>2. l.ret = "ORG" /\ UNCHANGED status
    BY <1>13 DEF Org
  <2>3. Meaning(more).have_pin = h
    BY <1>5, <1>8, <2>2
  <2>4. w' = Meaning(more)
    BY <1>8, <1>9, <1>10, <2>1, <2>2, <2>3
  <2>5. w' \in WarriorType
    BY <1>5, <1>6, <2>1 DEF WarriorType
  <2>6. Len(w'.code) = Len(c)
    BY <2>1
  <2>7. QED
    BY <2>2, <2>4, <2>5, <2>6 DEF more, c
<1>14. CASE Pin(l)
  <2>1. w' = [code |-> c, start |-> s, have_pin |-> TRUE, pin |-> l.n]
    <3> DEFINE y == TRUE
               z == l.n
    <3>1. w' = NewPin(w, y, z)
      BY <1>14 DEF Pin, NewPin
    <3>2. y = TRUE /\ z = l.n
      OBVIOUS
    <3> HIDE DEF y, z, c, s, h, p
    <3>3. w' = [code |-> c, start |-> s, have_pin |-> y, pin |-> z]
      BY <1>5, <3>1, PinUpdated
    <3>4. QED
      BY <3>2, <3>3
  <2>2. l.ret = "PIN" /\ UNCHANGED status /\ ~l.flag
    BY <1>4, <1>14 DEF Pin
  <2>3. Meaning(more).have_pin = TRUE
    BY <1>8, <2>2
  <2>4. w' = Meaning(more)
    BY <1>8, <1>9, <1>10, <2>1, <2>2, <2>3
  <2>5. w' \in WarriorType
    BY <1>5, <1>6, <2>1 DEF WarriorType
  <2>6. Len(w'.code) = Len(c)
    BY <2>1
  <2>7. QED
    BY <2>2, <2>4, <2>5, <2>6 DEF more, c
<1>15. CASE Ignored(l)
  <2>1. w' = [code |-> c, start |-> s, have_pin |-> h, pin |-> p]
    BY <1>5, <1>15 DEF Ignored
  <2>2. l.ret = "NONE" /\ UNCHANGED status /\ ~l.flag
    BY <1>4, <1>15 DEF Ignored
  <2>3. Meaning(more).have_pin = h
    BY <1>5, <1>8, <2>2
  <2>4. w' = Meaning(more)
    BY <1>8, <1>9, <1>10, <2>1, <2>2, <2>3
  <2>5. w' \in WarriorType
    BY <1>5, <2>1 DEF WarriorType
  <2>6. Len(w'.code) = Len(c)
    BY <2>1
  <2>7. QED
    BY <2>2, <2>4, <2>5, <2>6 DEF more, c
<1>16. QED
  BY <1>12, <1>13, <1>14, <1>15

(* What is read before line d + 1, and what is known of it.                *)
LEMMA BeforeLine ==
    ASSUME NEW d \in 0 .. Len(source), source \in File, Reading(d)
    PROVE  /\ d \in Nat /\ Len(source) \in Nat /\ d <= Len(source)
           /\ \A k \in 1 .. d : asm_line(source[k]).ret # "DONE"
           /\ Code(FirstLines(source, d)) = w.code
           /\ DOMAIN FirstLines(source, d) = 1 .. d
           /\ \A k \in 1 .. d : FirstLines(source, d)[k].ret # "exit"
<1>1. d \in Nat /\ Len(source) \in Nat /\ d <= Len(source)
  BY DEF File
<1>2. w.code = Code(FirstLines(source, d))
  <2>1. Meaning(FirstLines(source, d)).code = Code(FirstLines(source, d))
    BY MeaningParts
  <2>2. QED
    BY <2>1 DEF Reading
<1>3. QED
  BY <1>1, <1>2 DEF Reading, FirstLines

(* Every line that is read adds what it means: the case distinction of     *)
(* asm_file().                                                             *)
LEMMA ReadLineStep ==
    ASSUME AsmInv, ReadLine
    PROVE  AsmInv'
<1>1. status = "reading" /\ next.ret # "DONE" /\ file' = Tail(file) /\ UNCHANGED source
  BY DEF ReadLine
<1>2. PICK d \in 0 .. Len(source) : Reading(d)
  BY <1>1 DEF AsmInv
<1>3. source \in File /\ w \in WarriorType /\ Len(w.code) <= MAXLENGTH
  BY DEF AsmInv
<1> DEFINE l == next
<1>4. /\ d < Len(source) /\ l = asm_line(source[d + 1])
      /\ l.ret # "DONE" /\ Tail(file) = SubSeq(source, d + 2, Len(source))
  <2>1. d \in Nat /\ Len(source) \in Nat /\ d <= Len(source)
    BY <1>2, <1>3, BeforeLine
  <2>2. d # Len(source)
    BY <1>1, <1>2, <1>3, NextLine
  <2>3. d < Len(source)
    BY <2>1, <2>2
  <2>4. QED
    BY <1>1, <1>2, <1>3, <2>3, NextLine
<1>5. /\ d \in Nat /\ Len(source) \in Nat
      /\ \A k \in 1 .. d : asm_line(source[k]).ret # "DONE"
      /\ Code(FirstLines(source, d)) = w.code
  BY <1>2, <1>3, BeforeLine
<1>6. /\ d + 1 \in DOMAIN StoredLines(source) /\ StoredLines(source)[d + 1] = l
      /\ SubSeq(StoredLines(source), 1, d) = FirstLines(source, d)
  BY <1>3, <1>4, <1>5, LinesOf
<1>7. \/ Overrun(l)
      \/ ~Full(l) /\ (Instruction(l) \/ Org(l) \/ Pin(l) \/ Ignored(l) \/ Refused(l))
  BY DEF ReadLine
<1> HIDE DEF l
<1>8. CASE Overrun(l)
  <2>1. /\ l.ret \in {"OK", "ORG", "PIN"} /\ Len(w.code) = MAXLENGTH
        /\ status' = "undefined" /\ UNCHANGED w
    BY <1>8 DEF Overrun, Full
  <2>2. d + 1 - 1 = d
    BY <1>5
  <2>3. \E k \in DOMAIN StoredLines(source) :
           /\ StoredLines(source)[k].ret \in {"OK", "ORG", "PIN"}
           /\ Len(Code(SubSeq(StoredLines(source), 1, k - 1))) = MAXLENGTH
    <3> DEFINE k == d + 1
    <3>1. k \in DOMAIN StoredLines(source) /\ StoredLines(source)[k] = l /\ k - 1 = d
      BY <1>6, <2>2
    <3> HIDE DEF k
    <3>2. SubSeq(StoredLines(source), 1, k - 1) = FirstLines(source, d)
      BY <1>6, <3>1
    <3>3. Code(SubSeq(StoredLines(source), 1, k - 1)) = w.code
      BY <1>5, <3>2
    <3>4. Len(Code(SubSeq(StoredLines(source), 1, k - 1))) = MAXLENGTH
      BY <2>1, <3>3
    <3>5. QED
      BY <2>1, <3>1, <3>4
  <2>4. KeptAsWritten'
    BY <1>1, <2>1, <2>3 DEF KeptAsWritten
  <2>5. QED
    BY <1>1, <1>3, <2>1, <2>4 DEF AsmInv
<1>9. CASE Refused(l)
  <2>1. l.ret = "exit" /\ status' = "exited" /\ UNCHANGED w
    BY <1>9 DEF Refused
  <2>2. ~HasMeaning(StoredLines(source))
    BY <1>6, <2>1 DEF HasMeaning
  <2>3. KeptAsWritten'
    BY <1>1, <2>1, <2>2 DEF KeptAsWritten
  <2>4. QED
    BY <1>1, <1>3, <2>1, <2>3 DEF AsmInv
<1>10. CASE ~Full(l) /\ (Instruction(l) \/ Org(l) \/ Pin(l) \/ Ignored(l))
  <2>1. /\ w' = Meaning(FirstLines(source, d + 1)) /\ w' \in WarriorType
        /\ UNCHANGED status /\ l.ret \notin {"DONE", "exit"}
        /\ Len(w'.code) = IF l.ret = "OK" THEN Len(w.code) + 1 ELSE Len(w.code)
    BY <1>2, <1>3, <1>4, <1>10, WarriorGrows DEF Reading
  <2>2. Len(w'.code) <= MAXLENGTH
    <3>1. Len(w.code) \in Nat
      BY <1>3 DEF WarriorType
    <3>2. l.ret = "OK" => Len(w.code) # MAXLENGTH
      BY <1>10 DEF Full
    <3>3. QED
      BY <1>3, <2>1, <3>1, <3>2
  <2>3. \A k \in 1 .. d + 1 : asm_line(source[k]).ret \notin {"DONE", "exit"}
    <3>1. \A k \in 1 .. d + 1 : k = d + 1 \/ k \in 1 .. d
      BY <1>5
    <3>2. QED
      BY <1>2, <1>4, <2>1, <3>1 DEF Reading
  <2>4. Reading(d + 1)'
    <3>1. d + 1 + 1 = d + 2
      BY <1>5
    <3>2. QED
      BY <1>1, <1>4, <2>1, <2>3, <3>1 DEF Reading
  <2>5. (\E e \in 0 .. Len(source) : Reading(e))'
    <3>1. d + 1 \in 0 .. Len(source')
      BY <1>1, <1>4, <1>5
    <3>2. QED
      BY <2>4, <3>1
  <2>6. KeptAsWritten'
    BY <1>1, <2>1 DEF KeptAsWritten
  <2>7. QED
    BY <1>1, <1>3, <2>1, <2>2, <2>5, <2>6 DEF AsmInv
<1>11. QED
  BY <1>7, <1>8, <1>9, <1>10

(* The end of the file: a warrior with a start inside its code, or exit(). *)
LEMMA FinishStep ==
    ASSUME AsmInv, Finish
    PROVE  /\ AsmInv' /\ UNCHANGED <<source, file, w>>
           /\ status' = "done" => w.start \in 0 .. Len(w.code) - 1
           /\ status' \in {"done", "exited"}
<1>1. /\ status = "reading" /\ next.ret = "DONE"
      /\ status' = IF w.start >= Len(w.code) THEN "exited" ELSE "done"
      /\ UNCHANGED <<source, file, w>>
  BY DEF Finish
<1>2. PICK d \in 0 .. Len(source) : Reading(d)
  BY <1>1 DEF AsmInv
<1>3. source \in File /\ w \in WarriorType /\ Len(w.code) <= MAXLENGTH
  BY DEF AsmInv
<1> DEFINE lines == FirstLines(source, d)
<1>4. /\ d \in Nat /\ Len(source) \in Nat /\ d <= Len(source)
      /\ \A k \in 1 .. d : asm_line(source[k]).ret # "DONE"
      /\ Code(lines) = w.code /\ DOMAIN lines = 1 .. d
      /\ \A k \in 1 .. d : lines[k].ret # "exit"
  BY <1>2, <1>3, BeforeLine
<1>5. StoredLines(source) = lines
  <2>1. d = Len(source) \/ asm_line(source[d + 1]).ret = "DONE"
    <3>1. d < Len(source) \/ d = Len(source)
      BY <1>4
    <3>2. d < Len(source) => next = asm_line(source[d + 1])
      BY <1>2, <1>3, NextLine
    <3>3. QED
      BY <1>1, <3>1, <3>2
  <2>2. QED
    BY <1>3, <1>4, <2>1, LinesOf
<1>6. w = Meaning(lines)
  BY <1>2 DEF Reading
<1> HIDE DEF lines
<1>7. w.start \in Nat /\ Len(w.code) \in Nat
  BY <1>3 DEF WarriorType
<1>8. HasMeaning(lines) <=> ~(w.start >= Len(w.code))
  <2>1. HasMeaning(lines) <=> Len(w.code) \in w.start + 1 .. MAXLENGTH
    BY <1>4, <1>6 DEF HasMeaning
  <2>2. Len(w.code) \in w.start + 1 .. MAXLENGTH <=> ~(w.start >= Len(w.code))
    BY <1>3, <1>7
  <2>3. QED
    BY <2>1, <2>2
<1>9. KeptAsWritten'
  BY <1>1, <1>5, <1>6, <1>8 DEF KeptAsWritten
<1>10. AsmInv'
  BY <1>1, <1>3, <1>9 DEF AsmInv
<1>11. QED
  BY <1>1, <1>7, <1>10

-----------------------------------------------------------------------------
(* What to_red() writes is read.                                           *)

LEMMA EightWords ==
    ASSUME NEW V, NEW a \in V, NEW b \in V, NEW c \in V, NEW d \in V,
           NEW e \in V, NEW f \in V, NEW g \in V, NEW h \in V,
           NEW line, line = <<a, b, c, d, e, f, g, h>>
    PROVE  /\ line \in Seq(V) /\ Len(line) = 8
           /\ line[1] = a /\ line[2] = b /\ line[3] = c /\ line[4] = d
           /\ line[5] = e /\ line[6] = f /\ line[7] = g /\ line[8] = h
  OBVIOUS

(* A word in front of a line (START before an instruction).                *)
LEMMA WordBefore ==
    ASSUME NEW V, NEW word \in V, NEW line \in Seq(V),
           NEW long, long = <<word>> \o line
    PROVE  /\ long \in Seq(V) /\ Tail(long) = line /\ long[1] = word
           /\ long # <<>>
  OBVIOUS

(* dis1() writes eight words, of which six tell the fields.                *)
LEMMA WordsWritten ==
    ASSUME NEW in \in Insn
    PROVE  /\ dis1(in) \in Seq(Words) /\ Len(dis1(in)) = 8
           /\ dis1(in)[1].s \in (OPCODE \ {"MODM"}) \cup {"MOD"}
           /\ dis1(in)[1].s = IF in.opcode = "MODM" THEN "MOD" ELSE in.opcode
           /\ dis1(in)[2].s = "." /\ dis1(in)[3].s = in.modifier
           /\ dis1(in)[4].s = Char[in.amode]
           /\ dis1(in)[5].s = "" /\ dis1(in)[5].n = Signed(in.a)
           /\ dis1(in)[6].s = ","
           /\ dis1(in)[7].s = Char[in.bmode]
           /\ dis1(in)[8].s = "" /\ dis1(in)[8].n = Signed(in.b)
<1>1. /\ in.opcode \in OPCODE /\ in.modifier \in MODIFIER /\ in.amode \in ADDRMODE
      /\ in.bmode \in ADDRMODE /\ in.a \in Addr /\ in.b \in Addr
  BY DEF Insn
<1>2. Signed(in.a) \in Int /\ Signed(in.b) \in Int
  BY <1>1, SignedRead
<1>3. \A n \in Int : Number(n) \in Words
  BY VocabularyAssumption DEF Vocabulary, Number, Words
<1>4. \A s \in STRING : Word(s) \in Words
  BY DEF Word, Words
<1>5. /\ \A opcode \in OPCODE \cup {"MOD"} : opcode \in STRING
      /\ "." \in STRING /\ "," \in STRING
  BY VocabularyAssumption DEF Vocabulary
<1>6. \A modifier \in MODIFIER : modifier \in STRING
  BY VocabularyAssumption DEF Vocabulary
<1>7. \A sign \in Signs : sign \in STRING
  BY VocabularyAssumption DEF Vocabulary, Signs
<1>8. Char[in.amode] \in STRING /\ Char[in.bmode] \in STRING
  BY <1>1, <1>7, SignValues
<1> DEFINE opcode == IF in.opcode = "MODM" THEN "MOD" ELSE in.opcode
           am == Char[in.amode]
           bm == Char[in.bmode]
           x == Signed(in.a)
           y == Signed(in.b)
           modifier == in.modifier
<1>9. opcode \in (OPCODE \ {"MODM"}) \cup {"MOD"} /\ opcode \in STRING
  BY <1>1, <1>5
<1>10. dis1(in) = <<Word(opcode), Word("."), Word(modifier), Word(am), Number(x),
                    Word(","), Word(bm), Number(y)>>
  BY DEF dis1
<1>11. modifier \in STRING /\ am \in STRING /\ bm \in STRING /\ x \in Int /\ y \in Int
       /\ modifier = in.modifier
  BY <1>1, <1>2, <1>6, <1>8
<1>12. opcode = (IF in.opcode = "MODM" THEN "MOD" ELSE in.opcode)
  OBVIOUS
<1>13. am = Char[in.amode] /\ bm = Char[in.bmode] /\ x = Signed(in.a) /\ y = Signed(in.b)
  OBVIOUS
<1> HIDE DEF opcode, am, bm, x, y, modifier
<1>14. \A s : Word(s).s = s
  BY DEF Word
<1>15. \A n : Number(n).s = "" /\ Number(n).n = n
  BY DEF Number
<1>16. /\ Word(opcode) \in Words /\ Word(".") \in Words /\ Word(modifier) \in Words
       /\ Word(am) \in Words /\ Number(x) \in Words /\ Word(",") \in Words
       /\ Word(bm) \in Words /\ Number(y) \in Words
  BY <1>3, <1>4, <1>5, <1>9, <1>11
<1> DEFINE line == dis1(in)
<1>17. line = <<Word(opcode), Word("."), Word(modifier), Word(am), Number(x),
                Word(","), Word(bm), Number(y)>>
  BY <1>10
<1> HIDE DEF line
<1>18. /\ line \in Seq(Words) /\ Len(line) = 8
       /\ line[1] = Word(opcode) /\ line[2] = Word(".")
       /\ line[3] = Word(modifier) /\ line[4] = Word(am)
       /\ line[5] = Number(x) /\ line[6] = Word(",")
       /\ line[7] = Word(bm) /\ line[8] = Number(y)
  <2> DEFINE w1 == Word(opcode)
             w2 == Word(".")
             w3 == Word(modifier)
             w4 == Word(am)
             w5 == Number(x)
             w6 == Word(",")
             w7 == Word(bm)
             w8 == Number(y)
  <2>1. /\ w1 \in Words /\ w2 \in Words /\ w3 \in Words /\ w4 \in Words
        /\ w5 \in Words /\ w6 \in Words /\ w7 \in Words /\ w8 \in Words
        /\ line = <<w1, w2, w3, w4, w5, w6, w7, w8>>
    BY <1>16, <1>17
  <2> HIDE DEF w1, w2, w3, w4, w5, w6, w7, w8
  <2>2. /\ line \in Seq(Words) /\ Len(line) = 8
        /\ line[1] = w1 /\ line[2] = w2 /\ line[3] = w3 /\ line[4] = w4
        /\ line[5] = w5 /\ line[6] = w6 /\ line[7] = w7 /\ line[8] = w8
    BY <2>1, EightWords
  <2>3. QED
    BY <2>2 DEF w1, w2, w3, w4, w5, w6, w7, w8
<1>19. line[5].s = "" /\ line[5].n = x /\ line[8].s = "" /\ line[8].n = y
  BY <1>15, <1>18
<1>20. /\ line[1].s = opcode /\ line[2].s = "." /\ line[3].s = modifier
       /\ line[4].s = am /\ line[6].s = "," /\ line[7].s = bm
  BY <1>14, <1>18
<1>21. QED
  BY <1>9, <1>11, <1>12, <1>13, <1>18, <1>19, <1>20 DEF line

(* get_tok() undoes the names that dis1() gives.                           *)
LEMMA TokensWritten ==
    ASSUME NEW in \in Insn
    PROVE  LET tok == Tokens(dis1(in))
           IN  /\ tok[1] = in.opcode /\ tok[2] = "." /\ tok[3] = in.modifier
               /\ tok[4] = in.amode /\ tok[5] = "INT" /\ tok[6] = ","
               /\ tok[7] = in.bmode /\ tok[8] = "INT"
<1> DEFINE line == dis1(in)
           tok == Tokens(line)
<1> HIDE DEF tok, line
<1>1. /\ in.opcode \in OPCODE /\ in.modifier \in MODIFIER /\ in.amode \in ADDRMODE
      /\ in.bmode \in ADDRMODE
  BY DEF Insn
<1>2. /\ line \in Seq(Words) /\ Len(line) = 8
      /\ line[1].s = IF in.opcode = "MODM" THEN "MOD" ELSE in.opcode
      /\ line[2].s = "." /\ line[3].s = in.modifier /\ line[4].s = Char[in.amode]
      /\ line[5].s = "" /\ line[6].s = "," /\ line[7].s = Char[in.bmode]
      /\ line[8].s = ""
  BY WordsWritten DEF line
<1>3. \A k \in 1 .. 8 : tok[k] = get_tok(line[k])
  <2>1. ASSUME NEW k \in 1 .. 8
        PROVE  tok[k] = get_tok(line[k])
    <3>1. tok[k] = IF k > Len(line) THEN "0" ELSE get_tok(line[k])
      BY <1>2, TokenTypes DEF tok
    <3>2. ~(k > Len(line))
      <4>1. Len(line) = 8
        BY <1>2
      <4>2. QED
        BY <4>1
    <3>3. QED
      BY <3>1, <3>2
  <2>2. QED
    BY <2>1
<1>4. /\ in.opcode # "MODM" => in.opcode \in Names \ {"CMP", "MOD"}
      /\ in.modifier \in Names \ {"CMP", "MOD"}
  BY <1>1, NameTokens DEF OPCODE, MODIFIER
<1>5. tok[1] = in.opcode
  <2>1. tok[1] = get_tok(line[1])
    BY <1>3
  <2>2. CASE in.opcode = "MODM"
    BY <1>2, <2>1, <2>2, WordToken
  <2>3. CASE in.opcode # "MODM"
    <3>1. line[1].s = in.opcode
      BY <1>2, <2>3
    <3>2. get_tok(line[1]) = line[1].s
      BY <1>4, <2>3, <3>1, WordToken
    <3>3. QED
      BY <2>1, <3>1, <3>2
  <2>4. QED
    BY <2>2, <2>3
<1>6. /\ tok[2] = "." /\ tok[3] = in.modifier /\ tok[5] = "INT" /\ tok[6] = ","
      /\ tok[8] = "INT"
  <2>1. "." \in Punctuation /\ "," \in Punctuation
    BY Zenon DEF Punctuation
  <2>2. /\ get_tok(line[2]) = "." /\ get_tok(line[6]) = ","
        /\ get_tok(line[3]) = in.modifier
    BY <1>2, <1>4, <2>1, WordToken
  <2>3. get_tok(line[5]) = "INT" /\ get_tok(line[8]) = "INT"
    BY <1>2, WordToken
  <2>4. /\ tok[2] = get_tok(line[2]) /\ tok[3] = get_tok(line[3])
        /\ tok[5] = get_tok(line[5]) /\ tok[6] = get_tok(line[6])
        /\ tok[8] = get_tok(line[8])
    BY <1>3
  <2>5. QED
    BY <2>2, <2>3, <2>4
<1>7. get_tok(line[4]) = in.amode /\ get_tok(line[7]) = in.bmode
  BY <1>1, <1>2, WordToken
<1>8. tok[4] = in.amode /\ tok[7] = in.bmode
  BY <1>3, <1>7
<1>9. QED
  BY <1>5, <1>6, <1>8 DEF tok, line

(* The line of an instruction, with its label or without.                  *)
InsnLine(in, first) == (IF first THEN <<Word("START")>> ELSE <<>>) \o dis1(in)

(* An instruction that is written is read as the same, and so is START.    *)
LEMMA InsnRead ==
    ASSUME NEW in \in Insn, NEW first \in BOOLEAN
    PROVE  /\ InsnLine(in, first) \in Seq(Words)
           /\ asm_line(InsnLine(in, first)).ret = "OK"
           /\ asm_line(InsnLine(in, first)).insn = in
           /\ asm_line(InsnLine(in, first)).flag = first
<1> DEFINE line == dis1(in)
           tok == Tokens(line)
           l == Recognised(tok, line, first)
<1> HIDE DEF line, tok, l
<1>1. /\ in.opcode \in OPCODE /\ in.modifier \in MODIFIER /\ in.amode \in ADDRMODE
      /\ in.bmode \in ADDRMODE /\ in.a \in Addr /\ in.b \in Addr
      /\ in = [opcode |-> in.opcode, modifier |-> in.modifier, amode |-> in.amode,
               bmode |-> in.bmode, a |-> in.a, b |-> in.b]
  BY DEF Insn
<1>2. /\ line \in Seq(Words) /\ Len(line) = 8
      /\ line[1].s \in (OPCODE \ {"MODM"}) \cup {"MOD"}
      /\ line[5].n = Signed(in.a) /\ line[8].n = Signed(in.b)
  BY WordsWritten DEF line
<1>3. /\ tok[1] = in.opcode /\ tok[2] = "." /\ tok[3] = in.modifier
      /\ tok[4] = in.amode /\ tok[5] = "INT" /\ tok[6] = ","
      /\ tok[7] = in.bmode /\ tok[8] = "INT"
  BY TokensWritten DEF tok, line
<1>4. MODS(Signed(in.a)) = in.a /\ MODS(Signed(in.b)) = in.b
  BY <1>1, SignedRead
<1>5. l.ret = "OK" /\ l.insn = in /\ l.flag = first
  <2>1. tok[1] \notin {"END", "ORG", "PIN"} /\ ~Skippable(tok, line)
    <3>1. tok[1] \in OPCODE
      BY <1>1, <1>3
    <3>2. tok[1] \notin {"0", ";"} /\ tok[1] # "STR"
      BY <3>1, Zenon DEF OPCODE
    <3>3. ~Skippable(tok, line)
      BY <3>2, Zenon DEF Skippable
    <3>4. QED
      BY <3>1, <3>3 DEF OPCODE
  <2> DEFINE insn == [opcode |-> tok[1], modifier |-> tok[3],
                      amode |-> tok[4], a |-> MODS(line[5].n),
                      bmode |-> tok[7], b |-> MODS(line[8].n)]
  <2>2. l = [Line("OK") EXCEPT !.flag = first, !.insn = insn]
    BY <1>1, <1>3, <2>1 DEF Recognised, l
  <2>3. insn = in
    BY <1>1, <1>2, <1>3, <1>4
  <2> HIDE DEF insn
  <2>4. QED
    BY <2>2, <2>3 DEF Line
<1>6. CASE ~first
  <2>1. InsnLine(in, first) = line
    BY <1>2, <1>6 DEF InsnLine, line
  <2>2. ~(line # <<>> /\ get_tok(line[1]) = "START")
    <3>1. tok[1] = get_tok(line[1])
      BY <1>2 DEF Tokens, tok
    <3>2. QED
      BY <1>1, <1>3, <3>1 DEF OPCODE
  <2>3. Parsed(line) = l
    BY <1>6, <2>2 DEF Parsed, l, tok
  <2>4. QED
    BY <1>2, <1>5, <2>1, <2>3, LineTyped
<1>7. CASE first
  <2> DEFINE start == Word("START")
             long == <<start>> \o line
  <2>1. InsnLine(in, first) = long
    BY <1>7 DEF InsnLine, line
  <2>2. Word("START") \in Words /\ Word("START").s = "START"
    <3>1. "START" \in Vocabulary
      BY DEF Vocabulary
    <3>2. "START" \in STRING
      BY <3>1, VocabularyAssumption
    <3>3. QED
      BY <3>2 DEF Word, Words
  <2>3. start \in Words /\ start.s = "START" /\ long = <<start>> \o line
    BY <2>2
  <2> HIDE DEF start, long
  <2>4. long \in Seq(Words) /\ Tail(long) = line /\ long[1] = start /\ long # <<>>
    <3>1. line \in Seq(Words)
      BY <1>2
    <3>2. QED
      BY <2>3, <3>1, WordBefore
  <2>5. get_tok(start) = "START"
    <3>1. "START" \in Names \ {"CMP", "MOD"}
      BY NameTokens
    <3>2. QED
      BY <2>3, <3>1, WordToken
  <2>6. Parsed(long) = l
    BY <1>7, <2>4, <2>5 DEF Parsed, l, tok
  <2>7. QED
    BY <1>5, <2>1, <2>4, <2>6, LineTyped
<1>8. QED
  BY <1>6, <1>7

(* The lines that are no instructions.                                     *)
LEMMA WordType ==
    ASSUME NEW s \in Vocabulary
    PROVE  Word(s) \in Words /\ Word(s).s = s
<1>1. s \in STRING
  BY VocabularyAssumption
<1>2. QED
  BY <1>1 DEF Word, Words

TwoWords(a, b) == <<a, b>>

(* A line of two words.                                                    *)
LEMMA TwoWordsType ==
    ASSUME NEW V, NEW a \in V, NEW b \in V
    PROVE  /\ TwoWords(a, b) \in Seq(V) /\ Len(TwoWords(a, b)) = 2
           /\ TwoWords(a, b)[1] = a /\ TwoWords(a, b)[2] = b
           /\ TwoWords(a, b) # <<>>
  BY DEF TwoWords

Header(s, t) == s = ";" \/ (s = "ORG" /\ t = "START")

(* The lines before the code, ;REDCODE, ;FILENAME and ORG START, mean      *)
(* nothing to the assembler.                                               *)
LEMMA HeaderRead ==
    ASSUME NEW a \in Words, NEW b \in Words, Header(a.s, b.s),
           NEW line, line = TwoWords(a, b)
    PROVE  /\ line \in Seq(Words)
           /\ asm_line(line).ret = "NONE" /\ ~asm_line(line).flag
<1> DEFINE tok == Tokens(line)
<1> HIDE DEF tok
<1>1. line \in Seq(Words) /\ Len(line) = 2 /\ line[1] = a /\ line[2] = b /\ line # <<>>
  BY TwoWordsType
<1>2. tok[1] = get_tok(a) /\ tok[2] = get_tok(b)
  <2> DEFINE len == Len(line)
  <2>1. len = 2
    BY <1>1
  <2> HIDE DEF len
  <2>2. /\ 1 \in 1 .. 8 /\ 2 \in 1 .. 8 /\ ~(1 > len) /\ ~(2 > len)
    BY <2>1
  <2>3. tok[1] = get_tok(line[1]) /\ tok[2] = get_tok(line[2])
    BY <1>1, <2>2, TokenTypes DEF tok, len
  <2>4. QED
    BY <1>1, <2>3
<1>3. /\ a.s \in (Names \ {"CMP", "MOD"}) \cup Punctuation
      /\ a.s = "ORG" => b.s \in Names \ {"CMP", "MOD"}
  <2>1. ";" \in Punctuation
    BY Zenon DEF Punctuation
  <2>2. "ORG" \in Names \ {"CMP", "MOD"} /\ "START" \in Names \ {"CMP", "MOD"}
    BY NameTokens
  <2>3. a.s = ";" \/ (a.s = "ORG" /\ b.s = "START")
    BY Zenon DEF Header
  <2>4. ";" # "ORG"
    BY Zenon
  <2>5. QED
    BY <2>1, <2>2, <2>3, <2>4, Zenon
<1>4. tok[1] = a.s
  BY <1>2, <1>3, WordToken
<1>5. a.s = "ORG" => tok[2] = b.s
  BY <1>2, <1>3, WordToken
<1>6. Parsed(line) = Recognised(tok, line, FALSE)
  <2>1. a.s # "START"
    BY Zenon DEF Header
  <2>2. ~(line # <<>> /\ get_tok(line[1]) = "START")
    BY <1>1, <1>2, <1>4, <2>1
  <2>3. QED
    BY <2>2 DEF Parsed, tok
<1>7. Recognised(tok, line, FALSE) = Line("NONE")
  <2>1. Skippable(tok, line) \/ (tok[1] = "ORG" /\ tok[2] = "START")
    <3>1. a.s = ";" \/ (a.s = "ORG" /\ b.s = "START")
      BY Zenon DEF Header
    <3>2. QED
      BY <1>4, <1>5, <3>1, Zenon DEF Skippable
  <2>2. CASE Skippable(tok, line)
    BY <2>2, SkippedLine
  <2>3. CASE ~Skippable(tok, line)
    BY <2>1, <2>3 DEF Recognised, OPCODE
  <2>4. QED
    BY <2>2, <2>3
<1>8. QED
  <2>1. Line("NONE").ret = "NONE" /\ ~Line("NONE").flag
    BY DEF Line
  <2>2. Parsed(line) = Line("NONE")
    BY <1>6, <1>7
  <2>3. QED
    BY <1>1, <2>1, <2>2, LineTyped

-----------------------------------------------------------------------------
(* A warrior that can be written, and its file.                            *)
Sound(x) ==
    /\ x.code \in Seq(Insn)
    /\ Len(x.code) \in 1 .. maxlength
    /\ x.start \in 0 .. Len(x.code) - 1

(* Three lines, the lines of the code, and another one.                    *)
Framed(a, b, c, s, e) == (<<a, b, c>> \o s) \o <<e>>

(* T has the lines that Framed() has.                                      *)
IsFramed(V, a, b, c, s, e, t) ==
    /\ t \in Seq(V)
    /\ Len(t) = Len(s) + 4
    /\ t[1] = a
    /\ t[2] = b
    /\ t[3] = c
    /\ t[Len(s) + 4] = e
    /\ \A k \in 1 .. Len(s) : t[k + 3] = s[k]

(* A file is three lines, the code, and a line for END.                    *)
LEMMA ThreeParts ==
    ASSUME NEW V, NEW a \in V, NEW b \in V, NEW c \in V, NEW e \in V,
           NEW s \in Seq(V)
    PROVE  IsFramed(V, a, b, c, s, e, Framed(a, b, c, s, e))
<1> DEFINE n == Len(s)
           t == Framed(a, b, c, s, e)
<1>1. n \in Nat /\ n = Len(s) /\ t = Framed(a, b, c, s, e)
  OBVIOUS
<1> HIDE DEF n, t
<1> DEFINE r == <<a, b, c>>
           q == r \o s
           z == <<e>>
<1>2. /\ r \in Seq(V) /\ Len(r) = 3 /\ r[1] = a /\ r[2] = b /\ r[3] = c
      /\ z \in Seq(V) /\ Len(z) = 1 /\ z[1] = e
  OBVIOUS
<1> HIDE DEF r, z
<1>3. /\ q \in Seq(V) /\ Len(q) = n + 3
      /\ \A i \in 1 .. n + 3 : q[i] = IF i <= 3 THEN r[i] ELSE s[i - 3]
  <2>1. q = r \o s
    OBVIOUS
  <2> HIDE DEF q
  <2>2. q \in Seq(V) /\ Len(q) = Len(r) + Len(s)
        /\ \A i \in 1 .. Len(r) + Len(s) : q[i] = IF i <= Len(r) THEN r[i] ELSE s[i - Len(r)]
    BY <1>2, <2>1, ConcatProperties
  <2>3. Len(r) = 3 /\ Len(r) + Len(s) = n + 3
    BY <1>1, <1>2
  <2>4. QED
    BY <2>2, <2>3
<1> HIDE DEF q
<1>4. /\ t \in Seq(V) /\ Len(t) = n + 4
      /\ \A i \in 1 .. n + 4 : t[i] = IF i <= n + 3 THEN q[i] ELSE z[i - (n + 3)]
  <2>1. t = q \o z
    BY <1>1 DEF Framed, q, r, z
  <2>2. t \in Seq(V) /\ Len(t) = Len(q) + Len(z)
        /\ \A i \in 1 .. Len(q) + Len(z) : t[i] = IF i <= Len(q) THEN q[i] ELSE z[i - Len(q)]
    <3>1. q \in Seq(V) /\ z \in Seq(V)
      BY <1>2, <1>3
    <3>2. QED
      BY <2>1, <3>1, ConcatProperties
  <2>3. Len(q) = n + 3 /\ Len(q) + Len(z) = n + 4
    BY <1>1, <1>2, <1>3
  <2>4. QED
    BY <2>2, <2>3
<1>5. t[1] = a /\ t[2] = b /\ t[3] = c
  <2>1. \A i \in {1, 2, 3} : t[i] = r[i]
    BY <1>1, <1>3, <1>4
  <2>2. QED
    BY <1>2, <2>1
<1>6. t[n + 4] = e
  BY <1>1, <1>2, <1>4
<1>7. ASSUME NEW k \in 1 .. n
      PROVE  t[k + 3] = s[k]
  <2>1. k + 3 \in 1 .. n + 4 /\ k + 3 \in 1 .. n + 3 /\ ~(k + 3 <= 3) /\ k + 3 - 3 = k
        /\ k + 3 <= n + 3
    BY <1>1
  <2>2. t[k + 3] = q[k + 3] /\ q[k + 3] = s[k + 3 - 3]
    BY <1>3, <1>4, <2>1
  <2>3. QED
    BY <2>1, <2>2
<1>8. IsFramed(V, a, b, c, s, e, t)
  BY <1>1, <1>4, <1>5, <1>6, <1>7 DEF IsFramed
<1>9. QED
  BY <1>1, <1>8

IsWritten(x, n, f) == Sound(x) /\ n = Len(x.code) /\ f = to_red(x)

(* What asm_line() makes of every line that to_red() has written.          *)
LEMMA FileWritten ==
    ASSUME NEW x, NEW n, NEW f, IsWritten(x, n, f)
    PROVE  /\ f \in File /\ Len(f) = n + 4
           /\ \A k \in 1 .. 3 : asm_line(f[k]).ret = "NONE"
           /\ \A k \in 1 .. 3 : ~asm_line(f[k]).flag
           /\ \A k \in 1 .. n : asm_line(f[k + 3]).ret = "OK"
           /\ \A k \in 1 .. n : asm_line(f[k + 3]).insn = x.code[k]
           /\ \A k \in 1 .. n : asm_line(f[k + 3]).flag = (x.start = k - 1)
           /\ asm_line(f[n + 4]).ret = "DONE"
<1> DEFINE a == <<Word(";"), Word("REDCODE")>>
           b == <<Word(";"), Word("FILENAME")>>
           c == <<Word("ORG"), Word("START")>>
           e == <<Word("END")>>
           s == [k \in 1 .. n |-> (IF x.start = k - 1 THEN <<Word("START")>> ELSE <<>>)
                                     \o dis1(x.code[k])]
<1>1. n \in Nat /\ \A k \in 1 .. n : x.code[k] \in Insn
  BY DEF IsWritten, Sound
<1>2. {";", "ORG", "START", "REDCODE", "FILENAME", "END"} \subseteq Vocabulary
  BY DEF Vocabulary
<1>3. /\ a \in Seq(Words) /\ asm_line(a).ret = "NONE" /\ ~asm_line(a).flag
      /\ b \in Seq(Words) /\ asm_line(b).ret = "NONE" /\ ~asm_line(b).flag
      /\ c \in Seq(Words) /\ asm_line(c).ret = "NONE" /\ ~asm_line(c).flag
  <2> DEFINE w1 == Word(";")
             w2 == Word("REDCODE")
             w3 == Word("FILENAME")
             w4 == Word("ORG")
             w5 == Word("START")
  <2>1. /\ w1 \in Words /\ w2 \in Words /\ w3 \in Words /\ w4 \in Words /\ w5 \in Words
        /\ Header(w1.s, w2.s) /\ Header(w1.s, w3.s) /\ Header(w4.s, w5.s)
    BY <1>2, WordType DEF Header
  <2>2. a = TwoWords(w1, w2) /\ b = TwoWords(w1, w3) /\ c = TwoWords(w4, w5)
    BY DEF TwoWords
  <2> HIDE DEF w1, w2, w3, w4, w5, a, b, c
  <2>3. a \in Seq(Words) /\ asm_line(a).ret = "NONE" /\ ~asm_line(a).flag
    BY <2>1, <2>2, HeaderRead
  <2>4. b \in Seq(Words) /\ asm_line(b).ret = "NONE" /\ ~asm_line(b).flag
    BY <2>1, <2>2, HeaderRead
  <2>5. c \in Seq(Words) /\ asm_line(c).ret = "NONE" /\ ~asm_line(c).flag
    BY <2>1, <2>2, HeaderRead
  <2>6. QED
    BY <2>3, <2>4, <2>5
<1>4. e \in Seq(Words)
  <2>1. Word("END") \in Words
    BY <1>2, WordType
  <2>2. QED
    BY <2>1
<1>5. asm_line(e).ret = "DONE"
  BY EndIsDone
<1>6. \A k \in 1 .. n : s[k] = InsnLine(x.code[k], x.start = k - 1)
  BY DEF InsnLine
<1>7. f = Framed(a, b, c, s, e)
  BY DEF IsWritten, to_red, Framed
<1> HIDE DEF a, b, c, e
<1>8. s = [k \in 1 .. n |-> s[k]]
  OBVIOUS
<1> HIDE DEF s
<1>9. ASSUME NEW k \in 1 .. n
      PROVE  /\ s[k] \in Seq(Words) /\ asm_line(s[k]).ret = "OK"
             /\ asm_line(s[k]).insn = x.code[k]
             /\ asm_line(s[k]).flag = (x.start = k - 1)
  <2> DEFINE in == x.code[k]
             first == x.start = k - 1
  <2>1. in \in Insn /\ first \in BOOLEAN /\ s[k] = InsnLine(in, first)
    BY <1>1, <1>6
  <2> HIDE DEF in, first
  <2>2. /\ s[k] \in Seq(Words) /\ asm_line(s[k]).ret = "OK"
        /\ asm_line(s[k]).insn = in
        /\ asm_line(s[k]).flag = first
    BY <2>1, InsnRead
  <2>3. QED
    BY <2>2 DEF in, first
<1>10. s \in Seq(Seq(Words)) /\ Len(s) = n
  <2>1. \A k \in 1 .. n : s[k] \in Seq(Words)
    BY <1>9
  <2>2. s \in [1 .. n -> Seq(Words)]
    BY <1>8, <2>1
  <2>3. s \in Seq(Seq(Words))
    BY <1>1, <2>2, SeqDef
  <2>4. QED
    BY <1>1, <2>2, <2>3, LenProperties
<1>11. /\ f \in Seq(Seq(Words)) /\ Len(f) = n + 4
       /\ f[1] = a /\ f[2] = b /\ f[3] = c /\ f[n + 4] = e
       /\ \A k \in 1 .. n : f[k + 3] = s[k]
  <2> DEFINE V == Seq(Words)
  <2>1. a \in V /\ b \in V /\ c \in V /\ e \in V /\ s \in Seq(V)
    BY <1>3, <1>4, <1>10
  <2> HIDE DEF V
  <2>2. /\ f \in Seq(V) /\ Len(f) = n + 4
        /\ f[1] = a /\ f[2] = b /\ f[3] = c /\ f[n + 4] = e
        /\ \A k \in 1 .. n : f[k + 3] = s[k]
    <3>1. n \in Nat /\ Len(s) = n /\ f = Framed(a, b, c, s, e)
      BY <1>1, <1>7, <1>10
    <3> DEFINE t == Framed(a, b, c, s, e)
    <3> HIDE DEF t
    <3>2. f = t /\ t = Framed(a, b, c, s, e)
      BY <3>1 DEF t
    <3>3. IsFramed(V, a, b, c, s, e, Framed(a, b, c, s, e))
      BY <2>1, ThreeParts
    <3>4. IsFramed(V, a, b, c, s, e, t)
      BY <3>2, <3>3
    <3>5. QED
      BY <3>1, <3>2, <3>4 DEF IsFramed
  <2>3. QED
    BY <2>2 DEF V
<1>12. /\ \A k \in 1 .. 3 : asm_line(f[k]).ret = "NONE"
       /\ \A k \in 1 .. 3 : ~asm_line(f[k]).flag
  <2>1. \A k \in 1 .. 3 : k = 1 \/ k = 2 \/ k = 3
    OBVIOUS
  <2>2. QED
    BY <1>3, <1>11, <2>1
<1>13. /\ \A k \in 1 .. n : asm_line(f[k + 3]).ret = "OK"
       /\ \A k \in 1 .. n : asm_line(f[k + 3]).insn = x.code[k]
       /\ \A k \in 1 .. n : asm_line(f[k + 3]).flag = (x.start = k - 1)
  BY <1>9, <1>11
<1>14. QED
  BY <1>5, <1>11, <1>12, <1>13 DEF File

(* The instructions of a written warrior are in lines 4 to n + 3.          *)
LEMMA WrittenPrefix ==
    ASSUME NEW x, NEW n, NEW f, IsWritten(x, n, f),
           NEW m \in 0 .. n
    PROVE  /\ n \in Nat /\ m \in Nat /\ m + 3 \in 0 .. Len(f)
           /\ \A k \in 1 .. m + 3 : asm_line(f[k]).ret \in {"NONE", "OK"}
           /\ \A k \in 1 .. m + 3 : asm_line(f[k]).ret = "OK" => k \in 4 .. m + 3
           /\ DOMAIN FirstLines(f, m + 3) = 1 .. m + 3
           /\ OkLines(FirstLines(f, m + 3)) = 4 .. m + 3
           /\ Cardinality(4 .. m + 3) = m
           /\ Len(Code(FirstLines(f, m + 3))) = m
<1>1. n \in Nat /\ m \in Nat /\ m <= n
  BY DEF IsWritten, Sound
<1>2. /\ f \in File /\ Len(f) = n + 4
      /\ \A k \in 1 .. 3 : asm_line(f[k]).ret = "NONE"
      /\ \A k \in 1 .. n : asm_line(f[k + 3]).ret = "OK"
  BY FileWritten
<1> DEFINE lines == FirstLines(f, m + 3)
<1>3. DOMAIN lines = 1 .. m + 3 /\ \A k \in 1 .. m + 3 : lines[k] = asm_line(f[k])
  BY DEF FirstLines
<1>4. /\ \A k \in 1 .. m + 3 : k \in 1 .. 3 \/ k \in 4 .. m + 3
      /\ \A k \in 4 .. m + 3 : k \in 1 .. m + 3 /\ k \notin 1 .. 3
  BY <1>1
<1>5. ASSUME NEW k \in 4 .. m + 3
      PROVE  asm_line(f[k]).ret = "OK"
  <2>1. k - 3 \in 1 .. n /\ k - 3 + 3 = k
    BY <1>1
  <2>2. QED
    BY <1>2, <2>1
<1>6. \A k \in 1 .. m + 3 : asm_line(f[k]).ret \in {"NONE", "OK"}
  BY <1>2, <1>4, <1>5
<1>7. \A k \in 1 .. m + 3 : asm_line(f[k]).ret = "OK" <=> k \in 4 .. m + 3
  BY <1>2, <1>4, <1>5
<1> HIDE DEF lines
<1>8. OkLines(lines) = 4 .. m + 3
  <2>1. \A k : k \in OkLines(lines) <=> k \in 1 .. m + 3 /\ asm_line(f[k]).ret = "OK"
    BY <1>3 DEF OkLines
  <2>2. \A k : k \in OkLines(lines) <=> k \in 4 .. m + 3
    BY <1>4, <1>7, <2>1
  <2>3. QED
    BY <2>2
<1>9. Cardinality(4 .. m + 3) = m
  <2>1. Cardinality(4 .. m + 3) = IF 4 > m + 3 THEN 0 ELSE m + 3 - 4 + 1
    <3>1. 4 \in Int /\ m + 3 \in Int
      BY <1>1
    <3>2. QED
      BY <3>1, FS_Interval
  <2>2. (IF 4 > m + 3 THEN 0 ELSE m + 3 - 4 + 1) = m
    BY <1>1
  <2>3. QED
    BY <2>1, <2>2
<1>10. Len(Code(lines)) = m
  <2>1. m + 3 \in Nat
    BY <1>1
  <2>2. QED
    BY <1>3, <1>8, <1>9, <2>1, CodeLength
<1>11. m + 3 \in 0 .. Len(f)
  BY <1>1, <1>2
<1>12. QED
  BY <1>1, <1>3, <1>6, <1>7, <1>8, <1>9, <1>10, <1>11 DEF lines

(* The code of such a file is the code of the warrior.                     *)
LEMMA WrittenCode ==
    ASSUME NEW x, NEW n, NEW f, IsWritten(x, n, f)
    PROVE  Code(FirstLines(f, n + 3)) = x.code
<1>1. n \in Nat /\ n \in 0 .. n /\ x.code \in Seq(Insn)
  BY DEF IsWritten, Sound
<1> DEFINE lines == FirstLines(f, n + 3)
<1>2. /\ n + 3 \in Nat /\ DOMAIN lines = 1 .. n + 3
      /\ OkLines(lines) = 4 .. n + 3
      /\ Cardinality(OkLines(lines)) = n /\ Len(Code(lines)) = n
  BY <1>1, WrittenPrefix
<1>3. /\ \A k \in 1 .. n + 3 : lines[k] = asm_line(f[k])
      /\ \A i \in 1 .. n : asm_line(f[i + 3]).insn = x.code[i]
  BY FileWritten DEF FirstLines
<1> HIDE DEF lines
<1>4. ASSUME NEW i \in 1 .. n
      PROVE  Code(lines)[i] = x.code[i]
  <2>1. /\ Numbered(lines, i) # {} /\ Numbered(lines, i) \in SUBSET (1 .. n + 3)
        /\ Code(lines)[i] = lines[Pick(Numbered(lines, i))].insn
    BY <1>2, NumberedLine
  <2>2. ASSUME NEW k \in Numbered(lines, i)
        PROVE  k = i + 3
    <3>1. k \in 4 .. n + 3 /\ Cardinality({j \in 4 .. n + 3 : j <= k}) = i
      BY <1>2 DEF Numbered
    <3>2. \A j : j \in {l \in 4 .. n + 3 : l <= k} <=> j \in 4 .. (k - 3) + 3
      BY <1>1, <3>1
    <3>3. {j \in 4 .. n + 3 : j <= k} = 4 .. (k - 3) + 3
      BY <3>2
    <3>4. k - 3 \in 0 .. n
      BY <1>1, <3>1
    <3>5. Cardinality(4 .. (k - 3) + 3) = k - 3
      <4> DEFINE m == k - 3
      <4>1. m \in 0 .. n
        BY <3>4
      <4> HIDE DEF m
      <4>2. Cardinality(4 .. m + 3) = m
        BY <4>1, WrittenPrefix
      <4>3. QED
        BY <4>2 DEF m
    <3>6. k - 3 = i
      BY <3>1, <3>3, <3>5
    <3>7. QED
      BY <1>1, <3>1, <3>6
  <2>3. Pick(Numbered(lines, i)) = i + 3
    <3>1. Pick(Numbered(lines, i)) \in Numbered(lines, i)
      BY <2>1 DEF Pick
    <3>2. QED
      BY <2>2, <3>1
  <2>4. i + 3 \in 1 .. n + 3
    BY <1>1
  <2>5. QED
    BY <1>3, <2>1, <2>3, <2>4
<1>5. \E V : Code(lines) \in Seq(V)
  BY <1>2, CodeLength
<1>6. DOMAIN Code(lines) = 1 .. n /\ Code(lines) = [i \in 1 .. n |-> Code(lines)[i]]
  BY <1>2, <1>5
<1>7. x.code = [i \in 1 .. n |-> x.code[i]]
  BY <1>1 DEF IsWritten
<1>8. Code(lines) = x.code
  BY <1>4, <1>6, <1>7
<1>9. QED
  BY <1>8 DEF lines

(* Its start is the instruction that START was written before.             *)
LEMMA WrittenStart ==
    ASSUME NEW x, NEW n, NEW f, IsWritten(x, n, f)
    PROVE  /\ StoredLines(f) = FirstLines(f, n + 3)
           /\ \A m \in 0 .. n - 1 : SubSeq(StoredLines(f), 1, m + 3) = FirstLines(f, m + 3)
           /\ Meaning(StoredLines(f)).start = x.start
<1>1. n \in Nat /\ n \in 0 .. n /\ x.start \in 0 .. n - 1 /\ x.start \in Nat
  BY DEF IsWritten, Sound
<1>2. /\ f \in File /\ Len(f) = n + 4
      /\ \A k \in 1 .. 3 : asm_line(f[k]).ret = "NONE"
      /\ \A k \in 1 .. 3 : ~asm_line(f[k]).flag
      /\ \A k \in 1 .. n : asm_line(f[k + 3]).ret = "OK"
      /\ \A k \in 1 .. n : asm_line(f[k + 3]).flag = (x.start = k - 1)
      /\ asm_line(f[n + 4]).ret = "DONE"
  BY FileWritten
<1>3. ASSUME NEW m \in 0 .. n
      PROVE  m + 3 \in 0 .. Len(f) /\ \A k \in 1 .. m + 3 : asm_line(f[k]).ret # "DONE"
  BY WrittenPrefix
<1>4. StoredLines(f) = FirstLines(f, n + 3)
  <2> DEFINE d == n + 3
  <2>1. d \in 0 .. Len(f) /\ (\A k \in 1 .. d : asm_line(f[k]).ret # "DONE") /\ d + 1 = n + 4
    BY <1>1, <1>3
  <2> HIDE DEF d
  <2>2. StoredLines(f) = FirstLines(f, d)
    BY <1>2, <2>1, LinesOf
  <2>3. QED
    BY <2>2 DEF d
<1>5. ASSUME NEW m \in 0 .. n - 1
      PROVE  SubSeq(StoredLines(f), 1, m + 3) = FirstLines(f, m + 3)
  <2> DEFINE d == m + 3
  <2>1. m \in 0 .. n /\ m + 1 \in 1 .. n /\ d + 1 = (m + 1) + 3 /\ d < n + 4
    BY <1>1
  <2>2. d \in 0 .. Len(f) /\ \A k \in 1 .. d : asm_line(f[k]).ret # "DONE"
    BY <1>3, <2>1
  <2>3. asm_line(f[d + 1]).ret # "DONE"
    BY <1>2, <2>1
  <2> HIDE DEF d
  <2>4. SubSeq(StoredLines(f), 1, d) = FirstLines(f, d)
    BY <1>2, <2>1, <2>2, <2>3, LinesOf
  <2>5. QED
    BY <2>4 DEF d
<1> DEFINE lines == FirstLines(f, n + 3)
           from == x.start + 4
<1>6. /\ lines \in Seq(LineType) /\ Len(lines) = n + 3
      /\ \A k \in 1 .. n + 3 : lines[k] = asm_line(f[k])
  BY <1>1, <1>2, <1>3, FirstLinesType
<1> HIDE DEF lines
<1>7. \A k : k \in Starts(lines) <=> k = from
  <2>1. ASSUME NEW k \in Starts(lines)
        PROVE  k = from
    <3>1. k \in 1 .. n + 3 /\ (lines[k].ret = "ORG" \/ lines[k].flag)
      BY <1>6 DEF Starts
    <3>2. asm_line(f[k]).ret = "ORG" \/ asm_line(f[k]).flag
      BY <1>6, <3>1
    <3>3. k \notin 1 .. 3
      BY <1>2, <3>2
    <3>4. k - 3 \in 1 .. n /\ k - 3 + 3 = k
      BY <1>1, <3>1, <3>3
    <3>5. x.start = k - 3 - 1
      BY <1>2, <3>2, <3>4
    <3>6. QED
      BY <3>1, <3>5
  <2>2. from \in Starts(lines)
    <3>1. x.start + 1 \in 1 .. n /\ x.start + 1 + 3 = from /\ x.start + 1 - 1 = x.start
          /\ from \in 1 .. n + 3
      BY <1>1
    <3>2. asm_line(f[from]).flag
      <4> DEFINE k == x.start + 1
      <4>1. k \in 1 .. n /\ k + 3 = from /\ x.start = k - 1
        BY <1>1
      <4> HIDE DEF k, from
      <4>2. asm_line(f[k + 3]).flag = TRUE
        BY <1>2, <4>1
      <4>3. QED
        BY <4>1, <4>2
    <3>3. QED
      BY <1>6, <3>1, <3>2 DEF Starts
  <2>3. QED
    BY <2>1, <2>2
<1>8. LastOf(Starts(lines)) = from
  <2>1. from \in Nat /\ from \in 1 .. from
    BY <1>1
  <2> HIDE DEF from
  <2>2. Starts(lines) \in SUBSET (1 .. from) /\ from \in Starts(lines) /\ Starts(lines) # {}
    BY <1>7, <2>1
  <2>3. Max(Starts(lines)) = from
    BY <2>1, <2>2, MaxIs
  <2>4. QED
    BY <2>2, <2>3 DEF LastOf
<1>9. StartFrom(lines, from) = x.start
  <2>1. from # 0 /\ from - 1 = x.start + 3 /\ x.start + 1 \in 1 .. n /\ x.start + 1 + 3 = from
        /\ from \in 1 .. n + 3
    BY <1>1
  <2>2. lines[from].ret # "ORG"
    BY <1>2, <1>6, <2>1
  <2>3. SubSeq(lines, 1, from - 1) = FirstLines(f, x.start + 3)
    BY <1>1, <1>4, <1>5, <2>1 DEF lines
  <2>4. Len(Code(FirstLines(f, x.start + 3))) = x.start
    <3>1. x.start \in 0 .. n
      BY <1>1
    <3>2. QED
      BY <3>1, WrittenPrefix
  <2> HIDE DEF from
  <2>5. QED
    BY <2>1, <2>2, <2>3, <2>4 DEF StartFrom
<1>10. Meaning(lines).start = x.start
  BY <1>8, <1>9, MeaningParts
<1>11. QED
  BY <1>4, <1>5, <1>10 DEF lines

(* What has been written is read as it was, and there is room for it.      *)
LEMMA WrittenMeaning ==
    ASSUME NEW x, Sound(x), NEW f, f = to_red(x)
    PROVE  /\ f \in File
           /\ HasMeaning(StoredLines(f))
           /\ Meaning(StoredLines(f)).code = x.code
           /\ Meaning(StoredLines(f)).start = x.start
           /\ ~\E k \in DOMAIN StoredLines(f) :
                 /\ StoredLines(f)[k].ret \in {"OK", "ORG", "PIN"}
                 /\ Len(Code(SubSeq(StoredLines(f), 1, k - 1))) = MAXLENGTH
<1> DEFINE n == Len(x.code)
<1>1. /\ n \in Nat /\ n \in 0 .. n /\ n <= maxlength /\ x.start \in 0 .. n - 1
      /\ n = Len(x.code)
  BY DEF Sound
<1>2. IsWritten(x, n, f)
  BY DEF IsWritten
<1> HIDE DEF n
<1>3. f \in File
  BY <1>2, FileWritten
<1>4. /\ StoredLines(f) = FirstLines(f, n + 3)
      /\ \A m \in 0 .. n - 1 : SubSeq(StoredLines(f), 1, m + 3) = FirstLines(f, m + 3)
      /\ Meaning(StoredLines(f)).start = x.start
  BY <1>2, WrittenStart
<1>5. Code(StoredLines(f)) = x.code
  BY <1>2, <1>4, WrittenCode
<1>6. Meaning(StoredLines(f)).code = x.code
  BY <1>5, MeaningParts
<1>7. /\ DOMAIN StoredLines(f) = 1 .. n + 3
      /\ \A k \in 1 .. n + 3 : StoredLines(f)[k].ret \in {"NONE", "OK"}
      /\ \A k \in 1 .. n + 3 : StoredLines(f)[k].ret = "OK" => k \in 4 .. n + 3
  <2>1. /\ DOMAIN FirstLines(f, n + 3) = 1 .. n + 3
        /\ \A k \in 1 .. n + 3 : asm_line(f[k]).ret \in {"NONE", "OK"}
        /\ \A k \in 1 .. n + 3 : asm_line(f[k]).ret = "OK" => k \in 4 .. n + 3
    BY <1>2, <1>1, WrittenPrefix
  <2>2. \A k \in 1 .. n + 3 : StoredLines(f)[k] = asm_line(f[k])
    BY <1>4 DEF FirstLines
  <2>3. QED
    BY <1>4, <2>1, <2>2
<1>8. HasMeaning(StoredLines(f))
  <2>1. Len(Code(StoredLines(f))) = n
    BY <1>1, <1>5
  <2>2. n \in x.start + 1 .. MAXLENGTH
    BY <1>1
  <2>3. QED
    BY <1>4, <1>7, <2>1, <2>2 DEF HasMeaning
<1>9. ASSUME NEW k \in DOMAIN StoredLines(f), StoredLines(f)[k].ret \in {"OK", "ORG", "PIN"}
      PROVE  Len(Code(SubSeq(StoredLines(f), 1, k - 1))) # MAXLENGTH
  <2> DEFINE m == k - 4
  <2>1. k \in 4 .. n + 3
    BY <1>7, <1>9
  <2>2. m \in 0 .. n - 1 /\ m \in 0 .. n /\ k - 1 = m + 3 /\ m # MAXLENGTH
    BY <1>1, <2>1
  <2> HIDE DEF m
  <2>3. SubSeq(StoredLines(f), 1, k - 1) = FirstLines(f, m + 3)
    BY <1>4, <2>2
  <2>4. Len(Code(FirstLines(f, m + 3))) = m
    BY <1>2, <2>2, WrittenPrefix
  <2>5. QED
    BY <2>2, <2>3, <2>4
<1>10. QED
  BY <1>3, <1>4, <1>6, <1>8, <1>9

-----------------------------------------------------------------------------
(* Children.                                                               *)

LEMMA CopiedType ==
    ASSUME NEW p \in Sources, NEW k \in Nat, k >= 1,
           Sound(parents[1]), Sound(parents[2])
    PROVE  Copied(p, k) \in Insn
<1>1. p = 1 \/ p = 2
  BY DEF Sources
<1>2. Zeroed \in Insn
  BY DEF Zeroed, Insn, Addr, OPCODE, MODIFIER, ADDRMODE
<1>3. parents[p].code \in Seq(Insn)
  BY <1>1 DEF Sound
<1>4. k <= Len(parents[p].code) => parents[p].code[k] \in Insn
  BY <1>3
<1>5. QED
  BY <1>2, <1>4 DEF Copied

(* Whatever a try yields is a warrior that is not too long, and if it might*)
(* execute, it has a branch that can be handed on.                         *)
LEMMA TriesSound ==
    ASSUME NEW x \in Tries, Sound(parents[1]), Sound(parents[2])
    PROVE  Sound(x) /\ (might_execute(x) => Fertile(x))
<1>1. PICK len \in Lengths : \E from \in [1 .. len -> Sources], s \in 0 .. len - 1 :
         x = [code |-> [k \in 1 .. len |-> Copied(from[k], k)], start |-> s]
  BY DEF Tries
<1>2. PICK from \in [1 .. len -> Sources], s \in 0 .. len - 1 :
         x = [code |-> [k \in 1 .. len |-> Copied(from[k], k)], start |-> s]
  BY <1>1
<1> DEFINE c == [k \in 1 .. len |-> Copied(from[k], k)]
<1>3. len \in Nat /\ len >= 1 /\ len <= maxlength - 1
  BY DEF Lengths
<1>4. ASSUME NEW k \in 1 .. len
      PROVE  Copied(from[k], k) \in Insn
  <2>1. from[k] \in Sources /\ k \in Nat /\ k >= 1
    BY <1>3
  <2>2. QED
    BY <2>1, CopiedType
<1>5. c \in [1 .. len -> Insn]
  BY <1>4
<1>6. x.code = c /\ x.start = s
  BY <1>2
<1> HIDE DEF c
<1>7. c \in Seq(Insn) /\ Len(c) = len
  BY <1>3, <1>5, SeqDef, LenProperties
<1>8. Sound(x)
  BY <1>3, <1>6, <1>7 DEF Sound
<1>9. ASSUME might_execute(x)
      PROVE  Fertile(x)
  <2>1. PICK k \in x.start + 1 .. Len(x.code) : Branches(x.code[k].opcode)
    BY <1>9 DEF might_execute
  <2>2. k \in 1 .. Len(x.code) /\ k < maxlength
    <3>1. k \in s + 1 .. len
      BY <1>6, <1>7, <2>1
    <3>2. k \in 1 .. len /\ k < maxlength
      BY <1>3, <3>1
    <3>3. QED
      BY <1>6, <1>7, <3>2
  <2>3. QED
    BY <2>1, <2>2 DEF Fertile
<1>10. QED
  BY <1>8, <1>9

-----------------------------------------------------------------------------
(* The invariant.                                                          *)

(* Where the warrior is that has been written: on the shelf, being read,   *)
(* or back.                                                                *)
Journey ==
    \/ shelf = <<to_red(printed)>> /\ status = "idle"
    \/ shelf = <<>> /\ source = to_red(printed) /\ status \in {"reading", "done"}
    \/ /\ shelf = <<>> /\ status = "idle" /\ read # <<>>
       /\ read[Len(read)].code = printed.code
       /\ read[Len(read)].start = printed.start

OffspringInv ==
    /\ AsmInv
    /\ shelf \in Seq(File)
    /\ read \in Seq(WarriorType) /\ \A i \in 1 .. Len(read) : Sound(read[i])
    /\ child = NoChild \/ (Sound(child) /\ Fertile(child))
    /\ parents # <<>> => Sound(parents[1]) /\ Sound(parents[2])
    /\ printed = NoChild \/ (Sound(printed) /\ Journey)

(* It holds while nothing has been read.                                   *)
LEMMA OffspringInitial == OffspringInit => OffspringInv
<1> SUFFICES ASSUME OffspringInit PROVE OffspringInv
  OBVIOUS
<1>1. /\ shelf \in Shelves /\ read = <<>> /\ printed = NoChild
      /\ source = <<>> /\ w = NoWarrior /\ status = "idle"
      /\ parents = <<>> /\ child = NoChild
  BY DEF OffspringInit
<1>2. shelf \in Seq(File)
  BY <1>1, ShelvesAssumption DEF File
<1>3. source \in File /\ read \in Seq(WarriorType) /\ Len(read) = 0
  BY <1>1 DEF File
<1>4. NoWarrior \in WarriorType /\ Len(NoWarrior.code) <= MAXLENGTH
  BY DEF NoWarrior, WarriorType
<1>5. AsmInv
  BY <1>1, <1>3, <1>4 DEF AsmInv, KeptAsWritten
<1>6. QED
  BY <1>1, <1>2, <1>3, <1>5 DEF OffspringInv

(* Every action keeps it.                                                  *)
LEMMA OpenNextStep ==
    ASSUME OffspringInv, OpenNext
    PROVE  OffspringInv'
<1>1. /\ shelf # <<>> /\ Open(shelf[1]) /\ shelf' = Tail(shelf)
      /\ parents' = parents /\ child' = child /\ read' = read /\ printed' = printed
  BY DEF OpenNext, reproduceVars
<1>2. shelf \in Seq(File)
  BY DEF OffspringInv
<1>3. shelf[1] \in File /\ Tail(shelf) \in Seq(File)
  BY <1>1, <1>2
<1>4. AsmInv'
  BY <1>1, <1>3, OpenStep
<1>5. source' = shelf[1] /\ status' = "reading"
  BY <1>1 DEF Open
<1>6. ASSUME printed # NoChild
      PROVE  Sound(printed) /\ Journey'
  <2>1. Sound(printed) /\ Journey
    BY <1>6 DEF OffspringInv
  <2>2. shelf = <<to_red(printed)>>
    BY <1>1, <2>1 DEF Journey
  <2>3. shelf[1] = to_red(printed) /\ Tail(shelf) = <<>>
    BY <2>2
  <2>4. QED
    BY <1>1, <1>5, <2>1, <2>3 DEF Journey
<1>7. QED
  BY <1>1, <1>3, <1>4, <1>6 DEF OffspringInv

LEMMA AssembleStep ==
    ASSUME OffspringInv, Assemble
    PROVE  OffspringInv'
<1>1. /\ ReadLine \/ Finish
      /\ parents' = parents /\ child' = child /\ read' = read /\ printed' = printed
      /\ shelf' = shelf
  BY DEF Assemble, reproduceVars
<1>2. AsmInv /\ AsmInv'
  BY <1>1, ReadLineStep, FinishStep DEF OffspringInv
<1>3. /\ status = "reading" /\ source' = source
      /\ status' \in {"reading", "done", "exited", "undefined"}
  <2>1. CASE ReadLine
    BY <2>1 DEF ReadLine, Overrun, Instruction, Org, Pin, Ignored, Refused
  <2>2. CASE Finish
    BY <2>2 DEF Finish
  <2>3. QED
    BY <1>1, <2>1, <2>2
<1>4. ASSUME printed # NoChild
      PROVE  Sound(printed) /\ Journey'
  <2>1. Sound(printed) /\ Journey
    BY <1>4 DEF OffspringInv
  <2>2. shelf = <<>> /\ source = to_red(printed)
    BY <1>3, <2>1 DEF Journey
  <2>3. /\ HasMeaning(StoredLines(source))
        /\ ~\E k \in DOMAIN StoredLines(source) :
              /\ StoredLines(source)[k].ret \in {"OK", "ORG", "PIN"}
              /\ Len(Code(SubSeq(StoredLines(source), 1, k - 1))) = MAXLENGTH
    BY <2>1, <2>2, WrittenMeaning
  <2>4. KeptAsWritten'
    BY <1>2 DEF AsmInv
  <2>5. status' # "exited"
    BY <1>3, <2>3, <2>4 DEF KeptAsWritten
  <2>6. status' # "undefined"
    BY <1>3, <2>3, <2>4 DEF KeptAsWritten
  <2>7. QED
    BY <1>1, <1>3, <2>1, <2>2, <2>5, <2>6 DEF Journey
<1>5. QED
  BY <1>1, <1>2, <1>4 DEF OffspringInv

LEMMA ConstructStep ==
    ASSUME OffspringInv, Construct
    PROVE  OffspringInv'
<1>1. /\ status = "done" /\ source' = source /\ file' = file /\ w' = w
      /\ parents' = parents /\ child' = child /\ shelf' = shelf /\ printed' = printed
      /\ IF Len(w.code) > maxlength THEN status' = "thrown" /\ read' = read
         ELSE status' = "idle" /\ read' = Append(read, w)
  BY DEF Construct, reproduceVars
<1>2. /\ AsmInv /\ w \in WarriorType /\ Len(w.code) <= MAXLENGTH
      /\ read \in Seq(WarriorType) /\ \A i \in 1 .. Len(read) : Sound(read[i])
  BY DEF OffspringInv, AsmInv
<1>3. HasMeaning(StoredLines(source)) /\ w = Meaning(StoredLines(source))
  BY <1>1, <1>2 DEF AsmInv, KeptAsWritten
<1>4. w.start \in 0 .. Len(w.code) - 1 /\ Len(w.code) \in Nat
  <2>1. Code(StoredLines(source)) = w.code
    BY <1>3, MeaningParts
  <2>2. Len(w.code) \in w.start + 1 .. MAXLENGTH
    BY <1>3, <2>1 DEF HasMeaning
  <2>3. w.start \in Nat /\ Len(w.code) \in Nat
    BY <1>2 DEF WarriorType
  <2>4. QED
    BY <2>2, <2>3
<1>5. ~(Len(w.code) > maxlength) => Sound(w)
  BY <1>2, <1>4 DEF Sound, WarriorType
<1>6. AsmInv'
  <2>1. status' \in {"idle", "thrown"}
    BY <1>1
  <2>2. QED
    BY <1>1, <1>2, <2>1 DEF AsmInv, KeptAsWritten
<1>7. read' \in Seq(WarriorType) /\ \A i \in 1 .. Len(read') : Sound(read'[i])
  <2>1. CASE Len(w.code) > maxlength
    BY <1>1, <1>2, <2>1
  <2>2. CASE ~(Len(w.code) > maxlength)
    <3>1. read' = Append(read, w) /\ Sound(w)
      BY <1>1, <1>5, <2>2
    <3>2. /\ read' \in Seq(WarriorType) /\ Len(read') = Len(read) + 1 /\ Len(read) \in Nat
          /\ \A i \in 1 .. Len(read) : read'[i] = read[i]
          /\ read'[Len(read) + 1] = w
      BY <1>2, <3>1
    <3>3. \A i \in 1 .. Len(read') : i \in 1 .. Len(read) \/ i = Len(read) + 1
      BY <3>2
    <3>4. QED
      BY <1>2, <3>1, <3>2, <3>3
  <2>3. QED
    BY <2>1, <2>2
<1>8. ASSUME printed # NoChild
      PROVE  Sound(printed) /\ Journey'
  <2>1. Sound(printed) /\ Journey
    BY <1>8 DEF OffspringInv
  <2>2. shelf = <<>> /\ source = to_red(printed)
    BY <1>1, <2>1 DEF Journey
  <2>3. w.code = printed.code /\ w.start = printed.start
    BY <1>3, <2>1, <2>2, WrittenMeaning
  <2>4. ~(Len(w.code) > maxlength)
    BY <2>1, <2>3 DEF Sound
  <2>5. read' = Append(read, w) /\ status' = "idle"
    BY <1>1, <2>4
  <2>6. read' # <<>> /\ read'[Len(read')] = w
    BY <1>2, <2>5
  <2>7. QED
    BY <1>1, <2>1, <2>2, <2>3, <2>5, <2>6 DEF Journey
<1>9. QED
  BY <1>1, <1>6, <1>7, <1>8 DEF OffspringInv

LEMMA BreedStep ==
    ASSUME OffspringInv, Breed
    PROVE  OffspringInv'
<1>1. /\ Len(read) = 2 /\ printed = NoChild
      /\ parents' = <<read[1], read[2]>> /\ child' = NoChild
      /\ source' = source /\ file' = file /\ w' = w /\ status' = status
      /\ shelf' = shelf /\ read' = read /\ printed' = printed
  BY DEF Breed, Create, asmVars
<1>2. \A i \in 1 .. Len(read) : Sound(read[i])
  BY DEF OffspringInv
<1>3. Sound(read[1]) /\ Sound(read[2])
  <2>1. 1 \in 1 .. Len(read) /\ 2 \in 1 .. Len(read)
    BY <1>1
  <2>2. QED
    BY <1>2, <2>1
<1>4. parents'[1] = read[1] /\ parents'[2] = read[2]
  BY <1>1
<1>5. AsmInv'
  BY <1>1 DEF OffspringInv, AsmInv, Reading, KeptAsWritten
<1>6. Sound(parents'[1]) /\ Sound(parents'[2])
  BY <1>3, <1>4
<1>7. QED
  BY <1>1, <1>5, <1>6 DEF OffspringInv

LEMMA TrySucceedsStep ==
    ASSUME OffspringInv, TrySucceeds
    PROVE  OffspringInv'
<1>1. /\ parents # <<>> /\ parents' = <<>>
      /\ source' = source /\ file' = file /\ w' = w /\ status' = status
      /\ shelf' = shelf /\ read' = read /\ printed' = printed
  BY DEF TrySucceeds, Succeed, asmVars
<1>2. PICK x \in Tries : might_execute(x) /\ child' = x
  BY DEF TrySucceeds, Succeed
<1>3. Sound(parents[1]) /\ Sound(parents[2])
  BY <1>1 DEF OffspringInv
<1>4. Sound(x) /\ Fertile(x)
  BY <1>2, <1>3, TriesSound
<1>5. AsmInv'
  BY <1>1 DEF OffspringInv, AsmInv, Reading, KeptAsWritten
<1>6. (printed = NoChild \/ (Sound(printed) /\ Journey))'
  BY <1>1 DEF OffspringInv, Journey
<1>7. QED
  BY <1>1, <1>2, <1>4, <1>5, <1>6 DEF OffspringInv

LEMMA WriteStep ==
    ASSUME OffspringInv, Write
    PROVE  OffspringInv'
<1>1. /\ status = "idle" /\ shelf = <<>>
      /\ source' = source /\ file' = file /\ w' = w /\ status' = status
      /\ parents' = parents /\ child' = child /\ read' = read
  BY DEF Write, asmVars, reproduceVars
<1>2. PICK x \in {child, IF read = <<>> THEN NoChild ELSE read[1]} \ {NoChild} :
         printed' = x /\ shelf' = <<to_red(x)>>
  BY DEF Write
<1>3. Sound(x)
  <2>1. x # NoChild /\ (x = child \/ (read # <<>> /\ x = read[1]))
    BY <1>2
  <2>2. CASE x = child
    BY <2>1, <2>2 DEF OffspringInv
  <2>3. CASE read # <<>> /\ x = read[1]
    <3>1. read \in Seq(WarriorType) /\ \A i \in 1 .. Len(read) : Sound(read[i])
      BY DEF OffspringInv
    <3>2. 1 \in 1 .. Len(read)
      BY <2>3, <3>1
    <3>3. QED
      BY <2>3, <3>1, <3>2
  <2>4. QED
    BY <2>1, <2>2, <2>3
<1>4. shelf' \in Seq(File)
  <2> DEFINE f == to_red(x)
  <2>1. f \in File
    BY <1>3, WrittenMeaning
  <2>2. shelf' = <<f>>
    BY <1>2
  <2> HIDE DEF f
  <2>3. QED
    BY <2>1, <2>2
<1>5. AsmInv'
  BY <1>1 DEF OffspringInv, AsmInv, Reading, KeptAsWritten
<1>6. Sound(printed') /\ Journey'
  BY <1>1, <1>2, <1>3 DEF Journey
<1>7. QED
  BY <1>1, <1>4, <1>5, <1>6 DEF OffspringInv

(* One action at a time, and the steps that change nothing.                *)
LEMMA OffspringStep == OffspringInv /\ [OffspringNext]_offspringVars => OffspringInv'
<1> SUFFICES ASSUME OffspringInv, [OffspringNext]_offspringVars
             PROVE  OffspringInv'
  OBVIOUS
<1>1. CASE OpenNext
  BY <1>1, OpenNextStep
<1>2. CASE Assemble
  BY <1>2, AssembleStep
<1>3. CASE Construct
  BY <1>3, ConstructStep
<1>4. CASE Breed
  BY <1>4, BreedStep
<1>5. CASE TrySucceeds
  BY <1>5, TrySucceedsStep
<1>6. CASE Write
  BY <1>6, WriteStep
<1>7. CASE TryFails \/ UNCHANGED offspringVars
  <2>1. /\ source' = source /\ file' = file /\ w' = w /\ status' = status
        /\ shelf' = shelf /\ read' = read /\ printed' = printed
        /\ parents' = parents /\ child' = child
    BY <1>7 DEF TryFails, Fail, offspringVars, asmVars, reproduceVars
  <2>2. AsmInv'
    BY <2>1 DEF OffspringInv, AsmInv, Reading, KeptAsWritten
  <2>3. (printed = NoChild \/ (Sound(printed) /\ Journey))'
    BY <2>1 DEF OffspringInv, Journey
  <2>4. QED
    BY <2>1, <2>2, <2>3 DEF OffspringInv
<1>8. QED
  BY <1>1, <1>2, <1>3, <1>4, <1>5, <1>6, <1>7 DEF OffspringNext

(* The invariant holds in every reachable state.                           *)
LEMMA OffspringInvariant == OffspringSpec => []OffspringInv
<1>1. OffspringInit => OffspringInv
  BY OffspringInitial
<1>2. OffspringInv /\ [OffspringNext]_offspringVars => OffspringInv'
  BY OffspringStep
<1>3. QED
  BY <1>1, <1>2, PTL DEF OffspringSpec

(* What is stored of the lines of a file: all but the upper bits of the    *)
(* numbers of ORG and PIN.                                                 *)
Kept(lines) == [k \in DOMAIN lines |-> [lines[k] EXCEPT !.n = Field(@)]]

ParsedLines(lines) ==
    /\ lines \in Seq(ParsedType)
    /\ \A k \in DOMAIN lines : lines[k].ret \notin {"ORG", "PIN"} => lines[k].n = 0

LEMMA KeptLines ==
    ASSUME NEW lines, ParsedLines(lines)
    PROVE  /\ Kept(lines) \in Seq(LineType) /\ Len(Kept(lines)) = Len(lines)
           /\ DOMAIN Kept(lines) = DOMAIN lines
           /\ \A k \in DOMAIN lines : /\ Kept(lines)[k].ret = lines[k].ret
                                      /\ Kept(lines)[k].insn = lines[k].insn
<1> DEFINE n == Len(lines)
<1>1. n \in Nat /\ DOMAIN lines = 1 .. n /\ \A k \in 1 .. n : lines[k] \in ParsedType
  BY DEF ParsedLines
<1>2. DOMAIN Kept(lines) = 1 .. n
  BY <1>1 DEF Kept
<1>3. ASSUME NEW k \in 1 .. n
      PROVE  /\ Kept(lines)[k] \in LineType
             /\ Kept(lines)[k].ret = lines[k].ret
             /\ Kept(lines)[k].insn = lines[k].insn
  <2> DEFINE r == lines[k]
             q == Kept(lines)[k]
  <2>1. r \in ParsedType
    BY <1>1
  <2>2. q = [r EXCEPT !.n = Field(r.n)]
    BY <1>1 DEF Kept
  <2> HIDE DEF r, q
  <2>3. Field(r.n) \in Nat
    BY <2>1, FieldTypes DEF ParsedType
  <2>4. q \in LineType /\ q.ret = r.ret /\ q.insn = r.insn
    BY <2>1, <2>2, <2>3 DEF ParsedType, LineType
  <2>5. QED
    BY <2>4 DEF r, q
<1>4. Kept(lines) = [k \in 1 .. n |-> Kept(lines)[k]]
  BY <1>1 DEF Kept
<1>5. Kept(lines) \in Seq(LineType) /\ Len(Kept(lines)) = n
  <2> DEFINE q == Kept(lines)
  <2>1. q = [k \in 1 .. n |-> q[k]] /\ \A k \in 1 .. n : q[k] \in LineType
    BY <1>3, <1>4
  <2> HIDE DEF q
  <2>2. q \in Seq(LineType) /\ Len(q) = n
    BY <1>1, <2>1
  <2>3. QED
    BY <2>2 DEF q
<1>6. QED
  BY <1>1, <1>2, <1>3, <1>5

(* The code does not depend on them, ...                                   *)
LEMMA KeptCode ==
    ASSUME NEW lines, ParsedLines(lines)
    PROVE  Code(Kept(lines)) = Code(lines)
<1> DEFINE q == Kept(lines)
<1>1. /\ DOMAIN q = DOMAIN lines
      /\ \A k \in DOMAIN lines : q[k].ret = lines[k].ret /\ q[k].insn = lines[k].insn
  BY KeptLines
<1> HIDE DEF q
<1>2. OkLines(q) = OkLines(lines)
  BY <1>1 DEF OkLines
<1>3. \A i : Numbered(q, i) = Numbered(lines, i)
  BY <1>2 DEF Numbered
<1>4. DOMAIN lines = 1 .. Len(lines) /\ Len(lines) \in Nat
  BY DEF ParsedLines
<1>5. ASSUME NEW i \in 1 .. Cardinality(OkLines(lines))
      PROVE  (CHOOSE k \in Numbered(lines, i) : TRUE) \in DOMAIN lines
  <2>1. Numbered(lines, i) # {}
    BY <1>4, NumberedLine
  <2>2. Numbered(lines, i) \subseteq DOMAIN lines
    BY DEF Numbered, OkLines
  <2>3. QED
    BY <2>1, <2>2
<1>6. ASSUME NEW i \in 1 .. Cardinality(OkLines(lines))
      PROVE  q[CHOOSE k \in Numbered(q, i) : TRUE].insn
               = lines[CHOOSE k \in Numbered(lines, i) : TRUE].insn
  <2>1. Numbered(q, i) = Numbered(lines, i)
    BY <1>3
  <2> DEFINE k == CHOOSE j \in Numbered(lines, i) : TRUE
  <2>2. k \in DOMAIN lines
    BY <1>5
  <2> HIDE DEF k
  <2>3. q[k].insn = lines[k].insn
    BY <1>1, <2>2
  <2>4. QED
    BY <2>1, <2>3 DEF k
<1>7. Code(q) = Code(lines)
  <2> DEFINE N == Cardinality(OkLines(lines))
             f(i) == q[CHOOSE k \in Numbered(q, i) : TRUE].insn
             g(i) == lines[CHOOSE k \in Numbered(lines, i) : TRUE].insn
  <2>1. Code(q) = [i \in 1 .. N |-> f(i)] /\ Code(lines) = [i \in 1 .. N |-> g(i)]
    BY <1>2 DEF Code
  <2>2. \A i \in 1 .. N : f(i) = g(i)
    BY <1>6
  <2> HIDE DEF f, g, N
  <2>3. QED
    BY <2>1, <2>2
<1>8. QED
  BY <1>7 DEF q

(* ... and nothing does if the numbers fit.                                *)
LEMMA KeptFitting ==
    ASSUME NEW lines, ParsedLines(lines), Fitting(lines)
    PROVE  Kept(lines) = lines
<1> DEFINE n == Len(lines)
<1>1. /\ n \in Nat /\ DOMAIN lines = 1 .. n /\ lines = [k \in 1 .. n |-> lines[k]]
      /\ \A k \in 1 .. n : lines[k] \in ParsedType
  BY DEF ParsedLines
<1>2. ASSUME NEW k \in 1 .. n
      PROVE  [lines[k] EXCEPT !.n = Field(lines[k].n)] = lines[k]
  <2> DEFINE r == lines[k]
  <2>1. r \in ParsedType
    BY <1>1
  <2>2. Field(r.n) = r.n
    <3>1. CASE r.ret \in {"ORG", "PIN"}
      BY <1>1, <3>1 DEF Fitting
    <3>2. CASE r.ret \notin {"ORG", "PIN"}
      <4>1. r.n = 0
        BY <1>1, <3>2 DEF ParsedLines
      <4>2. QED
        BY <4>1 DEF Field
    <3>3. QED
      BY <3>1, <3>2
  <2> HIDE DEF r
  <2>3. [r EXCEPT !.n = Field(r.n)] = r
    BY <2>1, <2>2 DEF ParsedType
  <2>4. QED
    BY <2>3 DEF r
<1>3. Kept(lines) = [k \in 1 .. n |-> lines[k]]
  BY <1>1, <1>2 DEF Kept
<1>4. QED
  BY <1>1, <1>3

(* The first lines of a file, ...                                          *)
LEMMA KeptPrefix ==
    ASSUME NEW lines, ParsedLines(lines), NEW m \in 0 .. Len(lines)
    PROVE  /\ ParsedLines(SubSeq(lines, 1, m))
           /\ SubSeq(Kept(lines), 1, m) = Kept(SubSeq(lines, 1, m))
<1> DEFINE n == Len(lines)
           s == SubSeq(lines, 1, m)
           q == Kept(lines)
<1>1. /\ n \in Nat /\ m \in Nat /\ m <= n /\ DOMAIN lines = 1 .. n
      /\ lines \in Seq(ParsedType)
  BY DEF ParsedLines
<1>2. q \in Seq(LineType) /\ Len(q) = n
  BY KeptLines
<1> HIDE DEF q
<1>3. /\ s \in Seq(ParsedType) /\ DOMAIN s = 1 .. m /\ Len(s) = m
      /\ \A k \in 1 .. m : s[k] = lines[k] /\ k \in DOMAIN lines
  BY <1>1
<1>4. SubSeq(q, 1, m) = [k \in 1 .. m |-> q[k]]
  BY <1>1, <1>2
<1> HIDE DEF s
<1>5. ParsedLines(s)
  BY <1>3 DEF ParsedLines
<1>6. \A k \in 1 .. m : q[k] = [s[k] EXCEPT !.n = Field(@)]
  BY <1>3 DEF Kept, q
<1>7. Kept(s) = [k \in 1 .. m |-> q[k]]
  BY <1>3, <1>6 DEF Kept
<1>8. QED
  BY <1>4, <1>5, <1>7 DEF s, q

(* ... which asm_file() reads up to END, are stored like that.             *)
LEMMA LinesKept ==
    ASSUME NEW f \in File
    PROVE  ParsedLines(Lines(f)) /\ StoredLines(f) = Kept(Lines(f))
<1> DEFINE n == Len(f)
           all == [k \in DOMAIN f |-> Parsed(f[k])]
           stored == [k \in DOMAIN f |-> asm_line(f[k])]
           test(l) == l.ret = "DONE"
           done == {k \in 1 .. Len(all) : test(all[k])}
<1>1. n \in Nat /\ DOMAIN f = 1 .. n /\ \A k \in 1 .. n : f[k] \in Seq(Words)
  BY DEF File
<1>2. all \in Seq(ParsedType) /\ Len(all) = n /\ DOMAIN all = 1 .. n
  <2>1. \A k \in 1 .. n : all[k] \in ParsedType
    BY <1>1, LineParsed
  <2>2. all = [k \in 1 .. n |-> all[k]]
    BY <1>1
  <2> HIDE DEF all
  <2>3. QED
    BY <1>1, <2>1, <2>2
<1>3. ParsedLines(all)
  BY <1>1, <1>2, LineParsed DEF ParsedLines
<1>4. stored = Kept(all)
  BY <1>1, <1>2 DEF Kept, asm_line
<1>5. /\ stored \in Seq(LineType) /\ Len(stored) = n
      /\ \A k \in 1 .. n : stored[k].ret = all[k].ret
  BY <1>2, <1>3, <1>4, KeptLines
<1>6. Lines(f) = UpToEnd(all) /\ StoredLines(f) = UpToEnd(stored)
  BY DEF Lines, StoredLines
<1> HIDE DEF all, stored
<1>7. {k \in 1 .. Len(stored) : test(stored[k])} = done
  BY <1>2, <1>5
<1>8. /\ SelectInSeq(all, LAMBDA l : l.ret = "DONE") = IF done # {} THEN Min(done) ELSE 0
      /\ SelectInSeq(stored, LAMBDA l : l.ret = "DONE") = IF done # {} THEN Min(done) ELSE 0
  BY <1>7 DEF SelectInSeq
<1>9. CASE done = {}
  BY <1>3, <1>4, <1>6, <1>8, <1>9 DEF UpToEnd
<1>10. CASE done # {}
  <2> DEFINE last == Min(done)
  <2>1. last \in done
    BY <1>1, <1>2, <1>10, MinOf
  <2>2. last \in 1 .. n /\ last # 0 /\ last - 1 \in 0 .. Len(all)
    BY <1>1, <1>2, <2>1
  <2> HIDE DEF last, done
  <2>3. /\ Lines(f) = SubSeq(all, 1, last - 1)
        /\ StoredLines(f) = SubSeq(stored, 1, last - 1)
    BY <1>6, <1>8, <1>10, <2>2 DEF UpToEnd, last
  <2>4. QED
    BY <1>3, <1>4, <2>2, <2>3, KeptPrefix
<1>11. QED
  BY <1>9, <1>10

(* So what has been stored of a file is what the file means, but for the   *)
(* numbers that do not fit.                                                *)
LEMMA AssembledFromKept == AsmInv => AssembledAsWritten
<1> SUFFICES ASSUME AsmInv PROVE AssembledAsWritten
  OBVIOUS
<1> DEFINE lines == Lines(source)
<1>1. KeptAsWritten /\ source \in File /\ Len(w.code) <= MAXLENGTH
  BY DEF AsmInv
<1>2. ParsedLines(lines) /\ StoredLines(source) = Kept(lines)
  BY <1>1, LinesKept
<1> HIDE DEF lines
<1>3. Code(Kept(lines)) = Code(lines) /\ (Fitting(lines) => Kept(lines) = lines)
  BY <1>2, KeptCode, KeptFitting
<1>4. status = "done" => w.code = Code(lines)
  <2>1. Meaning(Kept(lines)).code = Code(Kept(lines))
    BY MeaningParts
  <2>2. QED
    BY <1>1, <1>2, <1>3, <2>1 DEF KeptAsWritten
<1>5. status = "undefined" =>
         \E k \in DOMAIN lines :
            /\ lines[k].ret \in {"OK", "ORG", "PIN"}
            /\ Len(Code(SubSeq(lines, 1, k - 1))) = MAXLENGTH
  <2> SUFFICES ASSUME status = "undefined"
               PROVE  \E k \in DOMAIN lines :
                         /\ lines[k].ret \in {"OK", "ORG", "PIN"}
                         /\ Len(Code(SubSeq(lines, 1, k - 1))) = MAXLENGTH
    OBVIOUS
  <2>1. PICK k \in DOMAIN Kept(lines) :
           /\ Kept(lines)[k].ret \in {"OK", "ORG", "PIN"}
           /\ Len(Code(SubSeq(Kept(lines), 1, k - 1))) = MAXLENGTH
    BY <1>1, <1>2 DEF KeptAsWritten
  <2>2. k \in DOMAIN lines /\ lines[k].ret \in {"OK", "ORG", "PIN"}
    BY <1>2, <2>1, KeptLines
  <2>3. k - 1 \in 0 .. Len(lines)
    BY <1>2, <2>2 DEF ParsedLines
  <2>4. Code(SubSeq(Kept(lines), 1, k - 1)) = Code(SubSeq(lines, 1, k - 1))
    BY <1>2, <2>3, KeptPrefix, KeptCode
  <2>5. QED
    BY <2>1, <2>2, <2>4
<1>6. QED
  BY <1>1, <1>2, <1>3, <1>4, <1>5 DEF AssembledAsWritten, KeptAsWritten, lines

(* What asm_file() makes of a file is what the file means as a whole,      *)
(* whatever words it consists of (asm.c:464-465): the code always, the     *)
(* start, the PIN and whether it is refused if the numbers of ORG and PIN  *)
(* fit into a field; and as long as the array is not full nothing is       *)
(* written past its end.                                                   *)
THEOREM AssembledTheorem == OffspringSpec => []AssembledAsWritten
<1>1. OffspringInv => AssembledAsWritten
  BY AssembledFromKept DEF OffspringInv
<1>2. QED
  BY <1>1, OffspringInvariant, PTL

(* to_red() and the assembler are inverse to each other, for every warrior *)
(* that has been read or born, and every size of core: the child that      *)
(* main() prints can found another population (warrior.cpp:67-77).         *)
THEOREM RoundTripTheorem == OffspringSpec => []RoundTrip
<1>1. OffspringInv => RoundTrip
  <2> SUFFICES ASSUME OffspringInv, printed # NoChild
               PROVE  RoundTrip
    BY DEF RoundTrip
  <2>1. Journey
    BY DEF OffspringInv
  <2> DEFINE f == to_red(printed)
  <2>2. \/ shelf = <<f>> /\ status = "idle"
        \/ shelf = <<>> /\ status \in {"reading", "done"}
        \/ /\ status = "idle"
           /\ read[Len(read)].code = printed.code
           /\ read[Len(read)].start = printed.start
    BY <2>1 DEF Journey
  <2> HIDE DEF f
  <2>3. <<f>> # <<>>
    OBVIOUS
  <2>4. QED
    BY <2>2, <2>3 DEF RoundTrip
<1>2. QED
  BY <1>1, OffspringInvariant, PTL

(* Whatever gets born has a branch at a place from which it can be handed  *)
(* on: Create() cannot come to cross two of them for ever                  *)
(* (reproduction.cpp:125).                                                 *)
THEOREM FertileTheorem == OffspringSpec => []StaysFertile
<1>1. OffspringInv => StaysFertile
  BY DEF OffspringInv, StaysFertile
<1>2. QED
  BY <1>1, OffspringInvariant, PTL

-----------------------------------------------------------------------------
(* One instruction of a warrior in core.                                   *)

(* The warrior that is alone is one that fits into core.                   *)
LEMMA AloneInCore ==
    ASSUME OffspringInv, Alone
    PROVE  ip \in Addr /\ Memory \in [Addr -> Insn]
<1> DEFINE x == read[1]
<1>1. Sound(x)
  <2>1. 1 \in 1 .. Len(read)
    BY DEF Alone
  <2>2. QED
    BY <2>1 DEF OffspringInv
<1> HIDE DEF x
<1>2. x.code \in Seq(Insn) /\ Len(x.code) \in 1 .. maxlength /\ x.start \in 0 .. Len(x.code) - 1
  BY <1>1 DEF Sound
<1>3. ip \in Addr
  BY <1>2 DEF ip, Addr, x
<1>4. Zeroed \in Insn
  BY DEF Zeroed, Insn, Addr, OPCODE, MODIFIER, ADDRMODE
<1> DEFINE nothing == [k \in Addr |-> Zeroed]
<1>5. ASSUME NEW k \in Addr
      PROVE  (IF (k - 0) % Coresize < Len(x.code) THEN x.code[((k - 0) % Coresize) + 1]
              ELSE nothing[k]) \in Insn
  <2> DEFINE i == (k - 0) % Coresize
  <2>1. i \in Nat /\ nothing[k] \in Insn
    BY <1>4, <1>5 DEF Addr
  <2> HIDE DEF i, nothing
  <2>2. i < Len(x.code) => x.code[i + 1] \in Insn
    <3>1. i < Len(x.code) => i + 1 \in 1 .. Len(x.code)
      BY <1>2, <2>1
    <3>2. QED
      BY <1>2, <3>1
  <2>3. QED
    BY <2>1, <2>2 DEF i
<1> HIDE DEF nothing
<1>6. Memory = [k \in Addr |-> IF (k - 0) % Coresize < Len(x.code)
                               THEN x.code[((k - 0) % Coresize) + 1] ELSE nothing[k]]
  BY DEF Memory, Loaded, x, nothing
<1>7. QED
  BY <1>3, <1>5, <1>6

(* The members of the sequences that Execute() goes on with.               *)
LEMMA RangeOf ==
    ASSUME NEW a, NEW b
    PROVE  ToSet(<<>>) = {} /\ ToSet(<<a>>) = {a} /\ ToSet(<<a, b>>) = {a, b}
<1>1. DOMAIN <<>> = {} /\ DOMAIN <<a>> = {1} /\ DOMAIN <<a, b>> = {1, 2}
  OBVIOUS
<1>2. <<a>>[1] = a /\ <<a, b>>[1] = a /\ <<a, b>>[2] = b
  OBVIOUS
<1>3. QED
  BY <1>1, <1>2 DEF ToSet

(* OpInfo's branches, skips and ends (exhaust.cpp) agree with sim_proper() *)
(* for every instruction in every core.                                    *)
LEMMA BranchesHold == OffspringSpec => []BranchesAgree
<1>1. BranchesAgree
  <2> DEFINE op == Due.opcode
             next0 == Effect(Memory).next
             jump == Operand(Memory, ip, Due.amode, Due.a, Values(Due)).address
             A == Operand(Memory, ip, Due.amode, Due.a, Values(Due))
             B == Operand(A.core, ip, Due.bmode, Due.b, Values(Due))
             dies == Dies(Due, RegisterA(A, B))
             jumps == Jumps(Due, B.values)
             skips == Skips(Due, B.core[A.address], B.core[B.address],
                            RegisterA(A, B), B.values)
             one == IncMod(ip)
             two == Skipped(ip)
  <2>1. next0 = CASE dies -> <<>>
                 [] op = "SPL" -> <<one, jump>>
                 [] jumps -> <<jump>>
                 [] skips -> <<two>>
                 [] OTHER -> <<one>>
    BY DEF Effect, Execute, Due
  <2>2. /\ jumps => op \in {"JMP", "JMZ", "JMN", "DJN"}
        /\ op = "JMP" => jumps
    BY DEF Jumps
  <2>3. skips => op \in {"SEQ", "SNE", "SLT"}
    BY DEF Skips
  <2>4. op = "DAT" => dies
    BY DEF Dies
  <2> HIDE DEF next0, jump, A, B, dies, jumps, skips, one, two
  <2> DEFINE goes == ToSet(next0)
  <2>5. /\ ToSet(<<>>) = {} /\ ToSet(<<one, jump>>) = {one, jump}
        /\ ToSet(<<jump>>) = {jump} /\ ToSet(<<two>>) = {two} /\ ToSet(<<one>>) = {one}
    BY RangeOf
  <2>6. \/ next0 = <<>>
        \/ next0 = <<one, jump>> /\ op = "SPL"
        \/ next0 = <<jump>> /\ jumps
        \/ next0 = <<two>> /\ skips
        \/ next0 = <<one>> /\ ~dies /\ ~jumps /\ op # "SPL"
    BY <2>1
  <2>7. \/ goes = {}
        \/ goes = {one, jump} /\ op = "SPL"
        \/ goes = {jump} /\ jumps
        \/ goes = {two} /\ skips
        \/ goes = {one} /\ ~dies /\ ~jumps /\ op # "SPL"
    BY <2>5, <2>6
  <2> HIDE DEF goes, op
  <2>8. /\ ~Branches(op) => goes \subseteq {one}
        /\ IsSkip(op) => goes \subseteq {one, two}
        /\ ~IsSkip(op) => goes \subseteq {one, jump}
        /\ ~Continues(op) => goes \subseteq {jump}
    BY <2>2, <2>3, <2>4, <2>7 DEF Branches, IsSkip, Continues
  <2>9. QED
    BY <2>8 DEF BranchesAgree, goes, op, next0, jump, one, two
<1>2. QED
  BY <1>1, PTL

(* An instruction is its six fields.                                       *)
Shape(r) ==
    r = [opcode |-> r.opcode, modifier |-> r.modifier, amode |-> r.amode,
         bmode |-> r.bmode, a |-> r.a, b |-> r.b]

(* What an instruction is, after its fields or its modifier are set.       *)
LEMMA ShapeOf == ASSUME NEW r \in Insn PROVE Shape(r)
  BY DEF Shape, Insn

LEMMA SameShape ==
    ASSUME NEW r, NEW s, Shape(r), Shape(s),
           r.opcode = s.opcode, r.modifier = s.modifier, r.amode = s.amode,
           r.bmode = s.bmode, r.a = s.a, r.b = s.b
    PROVE  r = s
  BY DEF Shape

WithField(r, f, z) == [r EXCEPT ![f] = z]
WithModifier(r, e) == [r EXCEPT !.modifier = e]

SameModes(r, s) ==
    r.opcode = s.opcode /\ r.amode = s.amode /\ r.bmode = s.bmode

LEMMA FieldSet ==
    ASSUME NEW r, Shape(r), NEW f \in Fields, NEW z
    PROVE  LET s == WithField(r, f, z)
           IN  /\ Shape(s) /\ SameModes(s, r) /\ s.modifier = r.modifier
               /\ s.a = IF f = "a" THEN z ELSE r.a
               /\ s.b = IF f = "b" THEN z ELSE r.b
<1> DEFINE o == r.opcode
           c == r.modifier
           d == r.amode
           e == r.bmode
           x == r.a
           y == r.b
           q == [opcode |-> o, modifier |-> c, amode |-> d, bmode |-> e, a |-> x, b |-> y]
<1>1. r = q
  BY DEF Shape
<1>2. SUFFICES LET s == WithField(q, f, z)
           IN  /\ Shape(s) /\ SameModes(s, q) /\ s.modifier = c
               /\ s.a = IF f = "a" THEN z ELSE x
               /\ s.b = IF f = "b" THEN z ELSE y
  BY <1>1, Zenon
<1> HIDE DEF o, c, d, e, x, y
<1>3. CASE f = "a"
  BY <1>3 DEF WithField, Shape, SameModes
<1>4. CASE f = "b"
  BY <1>4 DEF WithField, Shape, SameModes
<1>5. QED
  BY <1>3, <1>4 DEF Fields

LEMMA ModifierSet ==
    ASSUME NEW r, Shape(r), NEW m
    PROVE  LET s == WithModifier(r, m)
           IN  /\ Shape(s) /\ SameModes(s, r) /\ s.modifier = m
               /\ s.a = r.a /\ s.b = r.b
<1> DEFINE s == WithModifier(r, m)
<1>1. DOMAIN r = {"opcode", "modifier", "amode", "bmode", "a", "b"}
  BY DEF Shape
<1>2. s.modifier = m /\ s.opcode = r.opcode /\ s.amode = r.amode /\ s.bmode = r.bmode /\ s.a = r.a /\ s.b = r.b
  BY <1>1 DEF WithModifier
<1>3. s = [k \in DOMAIN r |-> IF k = "modifier" THEN m ELSE r[k]]
  BY DEF WithModifier
<1>4. Shape(s)
  BY <1>1, <1>2, <1>3 DEF Shape
<1>5. QED
  BY <1>2, <1>4 DEF SameModes

LEMMA PutIs ==
    ASSUME NEW r, Shape(r), NEW new
    PROVE  LET s == Put(r, new)
           IN  /\ Shape(s) /\ SameModes(s, r) /\ s.modifier = r.modifier
               /\ s.a = IF "a" \in DOMAIN new THEN new["a"] ELSE r.a
               /\ s.b = IF "b" \in DOMAIN new THEN new["b"] ELSE r.b
<1> DEFINE x == IF "a" \in DOMAIN new THEN new["a"] ELSE r.a
           y == IF "b" \in DOMAIN new THEN new["b"] ELSE r.b
<1>1. Put(r, new) = [r EXCEPT !.a = x, !.b = y]
  BY DEF Put
<1> HIDE DEF x, y
<1> DEFINE s == [r EXCEPT !.a = x, !.b = y]
<1>2. s = WithField(WithField(r, "a", x), "b", y)
  BY DEF WithField
<1> HIDE DEF s
<1>3. "a" \in Fields /\ "b" \in Fields /\ "a" # "b"
  BY DEF Fields
<1>4. /\ Shape(s) /\ SameModes(s, r) /\ s.modifier = r.modifier
      /\ s.a = x /\ s.b = y
  BY <1>2, <1>3, FieldSet DEF SameModes
<1>5. QED
  BY <1>1, <1>4 DEF x, y, s

(* .I and .F combine every field with its like.                            *)
LEMMA MovedFields ==
    ASSUME NEW ra, NEW rb
    PROVE  /\ DOMAIN Results("MOV", "I", ra, rb) = {"a", "b"}
           /\ Results("MOV", "I", ra, rb)["a"] = ra["a"]
           /\ Results("MOV", "I", ra, rb)["b"] = ra["b"]
<1> DEFINE p == <<"a", "a">>
           q == <<"b", "b">>
           done == Pairs("I") \ Undivided("MOV", "I", ra)
           of(f) == CHOOSE r \in done : r[2] = f
<1>1. done = {p, q}
  BY DEF Pairs, Undivided
<1>2. p[1] = "a" /\ p[2] = "a" /\ q[1] = "b" /\ q[2] = "b"
  OBVIOUS
<1> HIDE DEF p, q, done
<1>3. of("a") = p /\ of("b") = q
  <2>1. /\ \A r \in done : r[2] = "a" <=> r = p
        /\ \A r \in done : r[2] = "b" <=> r = q
        /\ p \in done /\ q \in done
    BY <1>1, <1>2
  <2>2. of("a") \in done /\ of("a")[2] = "a"
    BY <1>2, <2>1
  <2>3. of("b") \in done /\ of("b")[2] = "b"
    BY <1>2, <2>1
  <2> HIDE DEF of
  <2>4. QED
    BY <2>1, <2>2, <2>3
<1>4. Results("MOV", "I", ra, rb) =
         [f \in {r[2] : r \in done} |-> Compute("MOV", ra[of(f)[1]], rb[f])]
  BY DEF Results, done
<1> HIDE DEF of
<1>5. {r[2] : r \in done} = {"a", "b"}
  BY <1>1, <1>2
<1>6. \A u, v : Compute("MOV", u, v) = u
  BY DEF Compute
<1>7. Results("MOV", "I", ra, rb) = [f \in {"a", "b"} |-> ra[of(f)[1]]]
  <2>1. Results("MOV", "I", ra, rb) =
           [f \in {"a", "b"} |-> Compute("MOV", ra[of(f)[1]], rb[f])]
    BY <1>4, <1>5
  <2>2. QED
    BY <1>6, <2>1
<1>8. ra[of("a")[1]] = ra["a"] /\ ra[of("b")[1]] = ra["b"]
  BY <1>2, <1>3
<1>9. QED
  BY <1>7, <1>8

(* A pair in the instruction whose operands are evaluated does not see its *)
(* own post-increment: registers are filled before (sim.c:565-568).        *)
THEOREM CachedTheorem == OffspringSpec => []OperandsAreCached
<1>1. OffspringInv => OperandsAreCached
  <2> SUFFICES ASSUME OffspringInv, Alone,
                      Due = [opcode |-> "MOV", modifier |-> "I", amode |-> "DIRECT",
                             bmode |-> "BPOSTINC", a |-> 0, b |-> 0]
               PROVE  Effect(Memory).core[ip] = Due
    BY DEF OperandsAreCached
  <2> DEFINE M == Memory
             at == ip
             in == Due
             A == Operand(M, at, in.amode, in.a, Values(in))
             B == Operand(A.core, at, in.bmode, in.b, Values(in))
             ra == RegisterA(A, B)
             rb == B.values
             m == B.core[A.address]
             n == B.core[B.address]
             W == Written(in, m, n, ra, rb, PSpaceSeen)
  <2>1. /\ at \in Addr /\ M \in [Addr -> Insn] /\ M[at] = in
        /\ in = [opcode |-> "MOV", modifier |-> "I", amode |-> "DIRECT",
                 bmode |-> "BPOSTINC", a |-> 0, b |-> 0]
    BY AloneInCore DEF Due
  <2>2. Effect(Memory).core[ip] = [B.core EXCEPT ![B.address] = W][at]
    BY DEF Effect, Execute, Due
  <2> HIDE DEF M, at, in
  <2>3. AddMod(0, at) = at
    BY <2>1 DEF AddMod, Addr
  <2>4. A = [address |-> at, values |-> Values(in), core |-> M]
    BY <2>1, <2>3 DEF Operand
  <2>5. A.address = at /\ A.values = Values(in) /\ A.core = M
    BY <2>4
  <2> DEFINE before == [M EXCEPT ![at]["b"] = M[at]["b"]]
             after == [before EXCEPT ![at]["b"] = IncMod(M[at]["b"])]
  <2>6. in.bmode = "BPOSTINC" /\ in.b = 0 /\ in["b"] = 0 /\ in.a = 0
    BY <2>1
  <2>7. Via("BPOSTINC") = "b"
    BY DEF Via
  <2> HIDE DEF A
  <2>8. B = [address |-> at, values |-> Values(before[at]), core |-> after]
    BY <2>1, <2>3, <2>5, <2>6, <2>7 DEF Operand
  <2>9. before[at] = in /\ before \in [Addr -> Insn]
    <3>1. before = M
      BY <2>1
    <3>2. QED
      BY <2>1, <3>1
  <2> HIDE DEF before
  <2>10. after[at] = WithField(in, "b", IncMod(0)) /\ DOMAIN after = Addr
    BY <2>1, <2>6, <2>9 DEF WithField
  <2> HIDE DEF after
  <2>11. B.address = at /\ rb = Values(in) /\ B.core = after
    BY <2>8, <2>9
  <2>12. ra = Values(in)
    BY <2>5 DEF RegisterA
  <2> HIDE DEF B, ra, rb
  <2>13. m = after[at]
    BY <2>5, <2>11
  <2>14. /\ Shape(in) /\ Shape(m) /\ SameModes(m, in) /\ m.modifier = in.modifier
    <3>1. Shape(in)
      BY <2>1 DEF Shape
    <3>2. "b" \in Fields
      BY DEF Fields
    <3>3. QED
      BY <2>10, <2>13, <3>1, <3>2, FieldSet
  <2> DEFINE R == Results("MOV", "I", ra, rb)
  <2>15. DOMAIN R = {"a", "b"} /\ R["a"] = 0 /\ R["b"] = 0
    <3>1. ra["a"] = 0 /\ ra["b"] = 0
      BY <2>6, <2>12 DEF Values
    <3>2. QED
      BY <3>1, MovedFields
  <2>16. W = Put(m, R)
    BY <2>1 DEF Written
  <2> HIDE DEF m, n, R, W
  <2>17. W = in
    <3>1. /\ Shape(W) /\ SameModes(W, m) /\ W.modifier = m.modifier
          /\ W.a = 0 /\ W.b = 0
      BY <2>14, <2>15, <2>16, PutIs
    <3>2. in.a = 0 /\ in.b = 0
      BY <2>1
    <3>3. QED
      BY <2>14, <3>1, <3>2, SameShape DEF SameModes
  <2>18. [B.core EXCEPT ![B.address] = W][at] = in
    BY <2>1, <2>10, <2>11, <2>17
  <2>19. QED
    BY <2>2, <2>18 DEF in
<1>2. QED
  BY <1>1, OffspringInvariant, PTL

-----------------------------------------------------------------------------
(* Operands.                                                               *)

Registers == [a : Addr, b : Addr]

(* The macros stay in core when their operands are in it.                  *)
LEMMA AddressArithmetic ==
    ASSUME NEW x \in Addr, NEW y \in Addr
    PROVE  /\ IncMod(x) \in Addr /\ DecMod(x) \in Addr
           /\ AddMod(x, y) \in Addr /\ SubMod(x, y) \in Addr
  BY DEF IncMod, DecMod, AddMod, SubMod, Addr

(* A field of an instruction or a register, by name.                       *)
LEMMA FieldType ==
    ASSUME NEW f \in Fields
    PROVE  /\ \A insn \in Insn : insn[f] \in Addr
           /\ \A ra \in Registers : ra[f] \in Addr
           /\ \A insn \in Insn, x \in Addr : [insn EXCEPT ![f] = x] \in Insn
<1>1. CASE f = "a"
  BY <1>1 DEF Insn, Registers
<1>2. CASE f = "b"
  BY <1>2 DEF Insn, Registers
<1>3. QED
  BY <1>1, <1>2 DEF Fields

(* An operand refers to an address in core and leaves instructions there.  *)
LEMMA OperandType ==
    ASSUME NEW c \in [Addr -> Insn], NEW at \in Addr, NEW mode \in ADDRMODE,
           NEW x \in Addr, NEW own \in Registers
    PROVE  /\ Operand(c, at, mode, x, own).address \in Addr
           /\ Operand(c, at, mode, x, own).values \in Registers
           /\ Operand(c, at, mode, x, own).core \in [Addr -> Insn]
<1> DEFINE point == AddMod(x, at)
           f == Via(mode)
           t == IF mode \in {"APREDEC", "BPREDEC"} THEN DecMod(c[point][f])
                                                   ELSE c[point][f]
           before == [c EXCEPT ![point][f] = t]
           target == AddMod(t, point)
           after == IF mode \in {"APOSTINC", "BPOSTINC"}
                    THEN [before EXCEPT ![point][f] = IncMod(t)]
                    ELSE before
<1>1. point \in Addr /\ f \in Fields
  BY AddressArithmetic DEF Via, Fields
<1>2. t \in Addr /\ IncMod(t) \in Addr
  <2>1. c[point] \in Insn
    BY <1>1
  <2> HIDE DEF point, f
  <2>2. c[point][f] \in Addr
    BY <1>1, <2>1, FieldType
  <2>3. t \in Addr
    BY <2>2, AddressArithmetic
  <2> HIDE DEF t
  <2>4. QED
    BY <2>3, AddressArithmetic
<1>3. \A d \in [Addr -> Insn], z \in Addr : [d EXCEPT ![point][f] = z] \in [Addr -> Insn]
  <2> HIDE DEF point, f
  <2> TAKE d \in [Addr -> Insn], z \in Addr
  <2>1. [d[point] EXCEPT ![f] = z] \in Insn
    BY <1>1, FieldType
  <2>2. QED
    BY <1>1, <2>1
<1>4. before \in [Addr -> Insn] /\ after \in [Addr -> Insn]
  <2> HIDE DEF point, f, t
  <2>1. before \in [Addr -> Insn]
    BY <1>2, <1>3
  <2> HIDE DEF before
  <2>2. QED
    BY <1>2, <1>3, <2>1
<1>5. target \in Addr
  <2> HIDE DEF point, t
  <2>1. QED
    BY <1>1, <1>2, AddressArithmetic
<1>6. \A insn \in Insn : Values(insn) \in Registers
  BY DEF Insn, Values, Registers
<1>7. Values(c[point]) \in Registers /\ Values(before[target]) \in Registers
  <2> HIDE DEF point, t, before, target
  <2>1. QED
    BY <1>1, <1>4, <1>5, <1>6
<1>8. Operand(c, at, mode, x, own) =
        CASE mode = "IMMEDIATE" -> [address |-> at, values |-> own, core |-> c]
          [] mode = "DIRECT" ->
               [address |-> point, values |-> Values(c[point]), core |-> c]
          [] OTHER ->
               [address |-> target, values |-> Values(before[target]), core |-> after]
  BY DEF Operand
<1> HIDE DEF point, f, t, before, target, after
<1>9. CASE mode = "IMMEDIATE"
  BY <1>8, <1>9
<1>10. CASE mode = "DIRECT"
  BY <1>1, <1>7, <1>8, <1>10
<1>11. CASE mode \notin {"IMMEDIATE", "DIRECT"}
  BY <1>4, <1>5, <1>7, <1>8, <1>11
<1>12. QED
  BY <1>9, <1>10, <1>11

(* The modifier of the instruction at an address replaced.                 *)
Chg(c, at, e) == [c EXCEPT ![at].modifier = e]
SetAt(c, p, f, z) == [c EXCEPT ![p][f] = z]

(* What the two say of every address.                                      *)
LEMMA ChgIs ==
    ASSUME NEW c, DOMAIN c = Addr, c = [k \in Addr |-> c[k]], NEW at \in Addr, NEW e
    PROVE  /\ DOMAIN Chg(c, at, e) = Addr
           /\ Chg(c, at, e) = [k \in Addr |-> Chg(c, at, e)[k]]
           /\ Chg(c, at, e)[at] = WithModifier(c[at], e)
           /\ \A k \in Addr : k # at => Chg(c, at, e)[k] = c[k]
  BY DEF Chg, WithModifier

LEMMA SetAtIs ==
    ASSUME NEW c, DOMAIN c = Addr, c = [k \in Addr |-> c[k]], NEW p \in Addr, NEW f, NEW z
    PROVE  /\ DOMAIN SetAt(c, p, f, z) = Addr
           /\ SetAt(c, p, f, z) = [k \in Addr |-> SetAt(c, p, f, z)[k]]
           /\ SetAt(c, p, f, z)[p] = WithField(c[p], f, z)
           /\ \A k \in Addr : k # p => SetAt(c, p, f, z)[k] = c[k]
  BY DEF SetAt, WithField

(* It does not matter which of the two comes first.                        *)
LEMMA FieldThenModifier ==
    ASSUME NEW r, Shape(r), NEW f \in Fields, NEW z, NEW e
    PROVE  WithField(WithModifier(r, e), f, z) = WithModifier(WithField(r, f, z), e)
<1> DEFINE p == WithModifier(r, e)
           q == WithField(r, f, z)
           s == WithField(p, f, z)
           t == WithModifier(q, e)
<1>1. /\ Shape(p) /\ SameModes(p, r) /\ p.modifier = e /\ p.a = r.a /\ p.b = r.b
  BY ModifierSet
<1>2. /\ Shape(q) /\ SameModes(q, r)
      /\ q.a = (IF f = "a" THEN z ELSE r.a) /\ q.b = (IF f = "b" THEN z ELSE r.b)
  BY FieldSet
<1> HIDE DEF p, q
<1>3. /\ Shape(s) /\ SameModes(s, p) /\ s.modifier = p.modifier
      /\ s.a = (IF f = "a" THEN z ELSE p.a) /\ s.b = (IF f = "b" THEN z ELSE p.b)
  BY <1>1, FieldSet
<1>4. /\ Shape(t) /\ SameModes(t, q) /\ t.modifier = e /\ t.a = q.a /\ t.b = q.b
  BY <1>2, ModifierSet
<1> HIDE DEF s, t
<1>5. s = t
  BY <1>1, <1>2, <1>3, <1>4, SameShape DEF SameModes
<1>6. QED
  BY <1>5 DEF s, t, p, q

LEMMA SetAtThenChg ==
    ASSUME NEW c \in [Addr -> Insn], NEW at \in Addr, NEW e, NEW p \in Addr,
           NEW f \in Fields, NEW z
    PROVE  SetAt(Chg(c, at, e), p, f, z) = Chg(SetAt(c, p, f, z), at, e)
<1> DEFINE u == Chg(c, at, e)
           v == SetAt(c, p, f, z)
           s == SetAt(u, p, f, z)
           t == Chg(v, at, e)
<1>1. DOMAIN c = Addr /\ c = [k \in Addr |-> c[k]]
  OBVIOUS
<1>2. /\ DOMAIN u = Addr /\ u = [k \in Addr |-> u[k]]
      /\ u[at] = WithModifier(c[at], e) /\ \A k \in Addr : k # at => u[k] = c[k]
  BY <1>1, ChgIs
<1>3. /\ DOMAIN v = Addr /\ v = [k \in Addr |-> v[k]]
      /\ v[p] = WithField(c[p], f, z) /\ \A k \in Addr : k # p => v[k] = c[k]
  BY <1>1, SetAtIs
<1> HIDE DEF u, v
<1>4. /\ DOMAIN s = Addr /\ s = [k \in Addr |-> s[k]]
      /\ s[p] = WithField(u[p], f, z) /\ \A k \in Addr : k # p => s[k] = u[k]
  BY <1>2, SetAtIs
<1>5. /\ DOMAIN t = Addr /\ t = [k \in Addr |-> t[k]]
      /\ t[at] = WithModifier(v[at], e) /\ \A k \in Addr : k # at => t[k] = v[k]
  BY <1>3, ChgIs
<1> HIDE DEF s, t
<1>6. ASSUME NEW k \in Addr
      PROVE  s[k] = t[k]
  <2>1. Shape(c[k])
    BY ShapeOf
  <2>2. CASE k = p /\ k = at
    <3>1. s[k] = WithField(WithModifier(c[k], e), f, z)
      BY <1>2, <1>4, <2>2
    <3>2. t[k] = WithModifier(WithField(c[k], f, z), e)
      BY <1>3, <1>5, <2>2
    <3>3. QED
      BY <2>1, <3>1, <3>2, FieldThenModifier
  <2>3. CASE k = p /\ k # at
    BY <1>2, <1>3, <1>4, <1>5, <2>3
  <2>4. CASE k # p /\ k = at
    BY <1>2, <1>3, <1>4, <1>5, <2>4
  <2>5. CASE k # p /\ k # at
    BY <1>2, <1>3, <1>4, <1>5, <2>5
  <2>6. QED
    BY <2>2, <2>3, <2>4, <2>5
<1>7. s = t
  BY <1>4, <1>5, <1>6
<1>8. QED
  BY <1>7 DEF s, t, u, v

(* Operands do not depend on modifiers.                                    *)
LEMMA FieldsOfChg ==
    ASSUME NEW c \in [Addr -> Insn], NEW at \in Addr, NEW e, NEW k \in Addr
    PROVE  /\ Chg(c, at, e)[k].a = c[k].a /\ Chg(c, at, e)[k].b = c[k].b
           /\ Values(Chg(c, at, e)[k]) = Values(c[k])
           /\ \A f \in Fields : Chg(c, at, e)[k][f] = c[k][f]
<1> DEFINE r == c[k]
           s == Chg(c, at, e)[k]
<1>1. DOMAIN c = Addr /\ c = [i \in Addr |-> c[i]]
  OBVIOUS
<1>2. s = r \/ s = WithModifier(r, e)
  BY <1>1, ChgIs
<1>3. Shape(r)
  BY ShapeOf
<1> HIDE DEF r, s
<1>4. s.a = r.a /\ s.b = r.b
  BY <1>2, <1>3, ModifierSet
<1>5. QED
  BY <1>4 DEF r, s, Values, Fields

(* The same operand, in core with another modifier, leads to the same      *)
(* address and the same values, and leaves the same core but for the       *)
(* modifier.                                                               *)
LEMMA OperandAgrees ==
    ASSUME NEW c \in [Addr -> Insn], NEW at \in Addr, NEW mode \in ADDRMODE,
           NEW x \in Addr, NEW own, NEW e
    PROVE  LET P == Operand(c, at, mode, x, own)
               Q == Operand(Chg(c, at, e), at, mode, x, own)
           IN  /\ Q.address = P.address /\ Q.values = P.values
               /\ Q.core = Chg(P.core, at, e)
<1> DEFINE d == Chg(c, at, e)
           P == Operand(c, at, mode, x, own)
           Q == Operand(d, at, mode, x, own)
           point == AddMod(x, at)
           f == Via(mode)
           down == mode \in {"APREDEC", "BPREDEC"}
           up == mode \in {"APOSTINC", "BPOSTINC"}
           t == IF down THEN DecMod(c[point][f]) ELSE c[point][f]
           before == SetAt(c, point, f, t)
           target == AddMod(t, point)
           after == IF up THEN SetAt(before, point, f, IncMod(t)) ELSE before
           t2 == IF down THEN DecMod(d[point][f]) ELSE d[point][f]
           before2 == SetAt(d, point, f, t2)
           target2 == AddMod(t2, point)
           after2 == IF up THEN SetAt(before2, point, f, IncMod(t2)) ELSE before2
<1>1. P = CASE mode = "IMMEDIATE" -> [address |-> at, values |-> own, core |-> c]
            [] mode = "DIRECT" ->
                 [address |-> point, values |-> Values(c[point]), core |-> c]
            [] OTHER ->
                 [address |-> target, values |-> Values(before[target]), core |-> after]
  BY DEF Operand, SetAt
<1>2. Q = CASE mode = "IMMEDIATE" -> [address |-> at, values |-> own, core |-> d]
            [] mode = "DIRECT" ->
                 [address |-> point, values |-> Values(d[point]), core |-> d]
            [] OTHER ->
                 [address |-> target2, values |-> Values(before2[target2]), core |-> after2]
  BY DEF Operand, SetAt
<1>3. point \in Addr /\ f \in Fields
  BY AddressArithmetic DEF Via, Fields
<1>4. d[point][f] = c[point][f] /\ Values(d[point]) = Values(c[point])
  <2> HIDE DEF point, f
  <2>1. QED
    BY <1>3, FieldsOfChg
<1>5. t2 = t
  BY <1>4
<1>6. t \in Addr
  <2>1. c[point] \in Insn
    BY <1>3
  <2> HIDE DEF point, f
  <2>2. c[point][f] \in Addr
    BY <1>3, <2>1, FieldType
  <2>3. QED
    BY <2>2, AddressArithmetic
<1>7. target \in Addr /\ target2 = target
  <2> HIDE DEF point, t, t2
  <2>1. QED
    BY <1>3, <1>5, <1>6, AddressArithmetic
<1> HIDE DEF P, Q, point, f, down, up, t, t2, target, target2
<1>8. before2 = Chg(before, at, e)
  BY <1>3, <1>5, SetAtThenChg
<1>9. \A b \in [Addr -> Insn], z \in Addr : SetAt(b, point, f, z) \in [Addr -> Insn]
  <2> TAKE b \in [Addr -> Insn], z \in Addr
  <2>1. [b[point] EXCEPT ![f] = z] \in Insn
    BY <1>3, FieldType
  <2>2. QED
    BY <1>3, <2>1 DEF SetAt
<1>10. before \in [Addr -> Insn]
  BY <1>6, <1>9
<1> HIDE DEF before, before2
<1>11. Values(before2[target2]) = Values(before[target])
  BY <1>7, <1>8, <1>10, FieldsOfChg
<1>12. after2 = Chg(after, at, e)
  <2> DEFINE z == IncMod(t)
  <2>1. SetAt(Chg(before, at, e), point, f, z) = Chg(SetAt(before, point, f, z), at, e)
    <3> HIDE DEF z
    <3>1. QED
      BY <1>3, <1>10, SetAtThenChg
  <2>2. CASE up
    BY <1>5, <1>8, <2>1, <2>2
  <2>3. CASE ~up
    BY <1>8, <2>3
  <2>4. QED
    BY <2>2, <2>3
<1> HIDE DEF after, after2
<1>13. CASE mode = "IMMEDIATE"
  BY <1>1, <1>2, <1>13 DEF P, Q, d
<1>14. CASE mode = "DIRECT"
  BY <1>1, <1>2, <1>4, <1>14 DEF P, Q, d
<1>15. CASE mode \notin {"IMMEDIATE", "DIRECT"}
  BY <1>1, <1>2, <1>7, <1>11, <1>12, <1>15 DEF P, Q, d
<1>16. QED
  BY <1>13, <1>14, <1>15

-----------------------------------------------------------------------------
(* Modifiers.                                                              *)

(* Where EffectiveModifier() names another modifier, the instruction does  *)
(* not look at it, or looks at the same fields.                            *)
NotSeen(op) == op \in {"DAT", "SPL", "JMP", "NOP"}
Tests(op)   == op \in {"DJN", "JMZ", "JMN"}
Pairwise(op) == op \in {"ADD", "SUB", "SLT", "MUL", "MODM", "DIV"}

SameFields(op, e, f) ==
    \/ NotSeen(op)
    \/ Tests(op) /\ Tested(e) = Tested(f)
    \/ Pairwise(op) /\ Pairs(e) = Pairs(f)

(* The fields that the modifiers combine, and those that the jumps test.   *)
LEMMA PairsAre ==
    /\ Pairs("A") = {<<"a", "a">>} /\ Pairs("B") = {<<"b", "b">>}
    /\ Pairs("AB") = {<<"a", "b">>} /\ Pairs("BA") = {<<"b", "a">>}
    /\ Pairs("X") = {<<"a", "b">>, <<"b", "a">>}
    /\ Pairs("F") = {<<"a", "a">>, <<"b", "b">>}
    /\ Pairs("I") = {<<"a", "a">>, <<"b", "b">>}
  BY DEF Pairs

LEMMA TestedAre ==
    /\ Tested("A") = {"a"} /\ Tested("BA") = {"a"}
    /\ Tested("B") = {"b"} /\ Tested("AB") = {"b"}
    /\ Tested("F") = {"a", "b"} /\ Tested("I") = {"a", "b"} /\ Tested("X") = {"a", "b"}
<1>1. Tested("A") = {"a"} /\ Tested("BA") = {"a"}
  BY DEF Tested, Pairs
<1>2. Tested("B") = {"b"} /\ Tested("AB") = {"b"}
  BY DEF Tested, Pairs
<1>3. Tested("X") = {"a", "b"}
  BY DEF Tested, Pairs
<1>4. Tested("F") = {"a", "b"} /\ Tested("I") = {"a", "b"}
  BY DEF Tested, Pairs
<1>5. QED
  BY <1>1, <1>2, <1>3, <1>4

(* This is so for every opcode and every modifier.                         *)
LEMMA EffectiveFields ==
    ASSUME NEW op \in OPCODE, NEW mod \in MODIFIER
    PROVE  LET e == EffectiveModifier(op, mod)
           IN  e = mod \/ SameFields(op, e, mod)
<1> DEFINE e == EffectiveModifier(op, mod)
<1>1. CASE NotSeen(op)
  BY <1>1 DEF SameFields
<1>2. CASE Tests(op)
  <2>1. e = CASE mod \in {"A", "BA"} -> "A"
              [] mod \in {"B", "AB"} -> "B"
              [] OTHER -> "F"
    BY <1>2 DEF EffectiveModifier, Tests
  <2> HIDE DEF e
  <2>2. \/ mod \in {"A", "BA"} /\ e = "A"
        \/ mod \in {"B", "AB"} /\ e = "B"
        \/ mod \in {"F", "I", "X"} /\ e = "F"
    BY <2>1 DEF MODIFIER
  <2>3. Tested(e) = Tested(mod)
    BY <2>2, TestedAre
  <2>4. QED
    BY <1>2, <2>3 DEF SameFields, e
<1>3. CASE Pairwise(op)
  <2>1. e = IF mod = "I" THEN "F" ELSE mod
    BY <1>3 DEF EffectiveModifier, Pairwise
  <2> HIDE DEF e
  <2>2. Pairs(e) = Pairs(mod)
    BY <2>1, PairsAre
  <2>3. QED
    BY <1>3, <2>2 DEF SameFields, e
<1>4. CASE ~NotSeen(op) /\ ~Tests(op) /\ ~Pairwise(op)
  BY <1>4 DEF EffectiveModifier, NotSeen, Tests, Pairwise
<1>5. QED
  BY <1>1, <1>2, <1>3, <1>4

(* The same is done to n and to n2.                                        *)
SameChange(n, v, n2, v2) ==
    \/ v = n /\ v2 = n2
    \/ \E new : v = Put(n, new) /\ v2 = Put(n2, new)

ResultsOf(op, done, ra, rb) ==
    [f \in {p[2] : p \in done} |->
        Compute(op, ra[(CHOOSE p \in done : p[2] = f)[1]], rb[f])]

(* With the same registers, the switch takes the same way for both         *)
(* modifiers and makes the same change to the instruction at db.           *)
LEMMA SwitchAgrees ==
    ASSUME NEW in, NEW in2, in2.opcode = in.opcode,
           SameFields(in.opcode, in2.modifier, in.modifier),
           NEW ra, NEW rb, NEW m, NEW m2, NEW n, NEW n2, NEW ps,
           \A f \in Fields : n2[f] = n[f]
    PROVE  /\ Dies(in2, ra) <=> Dies(in, ra)
           /\ Jumps(in2, rb) <=> Jumps(in, rb)
           /\ Skips(in2, m2, n2, ra, rb) <=> Skips(in, m, n, ra, rb)
           /\ Stored(in2, ra, rb) = Stored(in, ra, rb)
           /\ SameChange(n, Written(in, m, n, ra, rb, ps),
                         n2, Written(in2, m2, n2, ra, rb, ps))
<1> DEFINE op == in.opcode
           e == in2.modifier
           f == in.modifier
<1>1. op \in {"DAT", "SPL", "JMP", "NOP", "DJN", "JMZ", "JMN", "ADD", "SUB", "SLT",
              "MUL", "MODM", "DIV"}
  BY DEF SameFields, NotSeen, Tests, Pairwise
<1>2. Stored(in2, ra, rb) = <<>> /\ Stored(in, ra, rb) = <<>>
  BY <1>1 DEF Stored
<1>3. Pairwise(op) => Pairs(e) = Pairs(f)
  BY DEF SameFields, NotSeen, Tests, Pairwise
<1>4. Tests(op) => Tested(e) = Tested(f)
  BY DEF SameFields, NotSeen, Tests, Pairwise
<1>5. Pairwise(op) => Undivided(op, e, ra) = Undivided(op, f, ra)
  BY <1>3 DEF Undivided
<1>6. ~Pairwise(op) => Undivided(op, e, ra) = {} /\ Undivided(op, f, ra) = {}
  BY DEF Undivided, Pairwise
<1>7. Dies(in2, ra) <=> Dies(in, ra)
  BY <1>5, <1>6 DEF Dies
<1>8. Jumps(in2, rb) <=> Jumps(in, rb)
  BY <1>4 DEF Jumps, Tests
<1>9. Skips(in2, m2, n2, ra, rb) <=> Skips(in, m, n, ra, rb)
  BY <1>1, <1>3 DEF Skips, Pairwise
<1>10. CASE op \in {"ADD", "SUB", "MUL", "MODM", "DIV"}
  <2> DEFINE new == Results(op, f, ra, rb)
             new2 == Results(op, e, ra, rb)
  <2>1. Pairwise(op) /\ op # "MOV"
    BY <1>10 DEF Pairwise
  <2>2. /\ new = ResultsOf(op, Pairs(f) \ Undivided(op, f, ra), ra, rb)
        /\ new2 = ResultsOf(op, Pairs(e) \ Undivided(op, e, ra), ra, rb)
    BY DEF Results, ResultsOf
  <2> HIDE DEF new, new2
  <2>3. new2 = new
    BY <1>3, <1>5, <2>1, <2>2
  <2>4. Written(in, m, n, ra, rb, ps) = Put(n, new)
    BY <1>10, <2>1 DEF Written, new
  <2>5. Written(in2, m2, n2, ra, rb, ps) = Put(n2, new2)
    BY <1>10, <2>1 DEF Written, new2
  <2>6. QED
    BY <1>2, <1>7, <1>8, <1>9, <2>3, <2>4, <2>5 DEF SameChange
<1>11. CASE op = "DJN"
  <2> DEFINE new == [g \in Tested(f) |-> DecMod(n[g])]
             new2 == [g \in Tested(e) |-> DecMod(n2[g])]
  <2>1. Tested(e) = Tested(f) /\ Tested(f) \subseteq Fields
    <3>1. \A p \in Pairs(f) : p[2] \in Fields
      BY DEF Pairs, Fields
    <3>2. Tested(f) \subseteq Fields
      BY <3>1 DEF Tested
    <3>3. QED
      BY <1>4, <1>11, <3>2 DEF Tests
  <2>2. new2 = new
    BY <2>1
  <2>3. Written(in, m, n, ra, rb, ps) = Put(n, new)
    BY <1>11 DEF Written
  <2>4. Written(in2, m2, n2, ra, rb, ps) = Put(n2, new2)
    BY <1>11 DEF Written
  <2> HIDE DEF new, new2
  <2>5. QED
    BY <1>2, <1>7, <1>8, <1>9, <2>2, <2>3, <2>4 DEF SameChange
<1>12. CASE op \in {"DAT", "SPL", "JMP", "NOP", "JMZ", "JMN", "SLT"}
  <2>1. Written(in, m, n, ra, rb, ps) = n
    BY <1>12 DEF Written
  <2>2. Written(in2, m2, n2, ra, rb, ps) = n2
    BY <1>12 DEF Written
  <2>3. QED
    BY <1>2, <1>7, <1>8, <1>9, <2>1, <2>2 DEF SameChange
<1>13. QED
  BY <1>1, <1>10, <1>11, <1>12

(* Instructions that differ in their modifier only are the same when the   *)
(* modifier is replaced.                                                   *)
LEMMA SameModifier ==
    ASSUME NEW r, Shape(r), NEW s, Shape(s), SameModes(s, r), s.a = r.a, s.b = r.b, NEW e
    PROVE  WithModifier(s, e) = WithModifier(r, e)
<1> DEFINE p == WithModifier(r, e)
           q == WithModifier(s, e)
<1>1. /\ Shape(p) /\ SameModes(p, r) /\ p.modifier = e /\ p.a = r.a /\ p.b = r.b
  BY ModifierSet
<1>2. /\ Shape(q) /\ SameModes(q, s) /\ q.modifier = e /\ q.a = s.a /\ q.b = s.b
  BY ModifierSet
<1> HIDE DEF p, q
<1>3. q = p
  BY <1>1, <1>2, SameShape DEF SameModes
<1>4. QED
  BY <1>3 DEF p, q

LEMMA ChangeThenModifier ==
    ASSUME NEW n, Shape(n), NEW e, NEW v, NEW v2,
           SameChange(n, v, WithModifier(n, e), v2)
    PROVE  WithModifier(v2, e) = WithModifier(v, e)
<1> DEFINE n2 == WithModifier(n, e)
<1>1. /\ Shape(n2) /\ SameModes(n2, n) /\ n2.a = n.a /\ n2.b = n.b
  BY ModifierSet
<1>2. SameChange(n, v, n2, v2)
  OBVIOUS
<1> HIDE DEF n2
<1>3. CASE v = n /\ v2 = n2
  BY <1>1, <1>3, SameModifier
<1>4. CASE \E new : v = Put(n, new) /\ v2 = Put(n2, new)
  <2>1. PICK new : v = Put(n, new) /\ v2 = Put(n2, new)
    BY <1>4
  <2> DEFINE x == IF "a" \in DOMAIN new THEN new["a"] ELSE n.a
             y == IF "b" \in DOMAIN new THEN new["b"] ELSE n.b
  <2>2. Shape(v) /\ SameModes(v, n) /\ v.a = x /\ v.b = y
    BY <2>1, PutIs
  <2>3. Shape(v2) /\ SameModes(v2, n2) /\ v2.a = x /\ v2.b = y
    BY <1>1, <2>1, PutIs
  <2> HIDE DEF x, y
  <2>4. SameModes(v2, v)
    BY <1>1, <2>2, <2>3 DEF SameModes
  <2>5. QED
    BY <2>2, <2>3, <2>4, SameModifier
<1>5. QED
  BY <1>2, <1>3, <1>4 DEF SameChange

(* Core after the instruction, but for the modifier.                       *)
Stores(c, db, v) == [c EXCEPT ![db] = v]

LEMMA CoreAgrees ==
    ASSUME NEW c \in [Addr -> Insn], NEW at \in Addr, NEW e, NEW db \in Addr,
           NEW v, NEW v2, SameChange(c[db], v, Chg(c, at, e)[db], v2)
    PROVE  Chg(Stores(Chg(c, at, e), db, v2), at, e) = Chg(Stores(c, db, v), at, e)
<1> DEFINE d == Chg(c, at, e)
           c1 == Stores(c, db, v)
           d1 == Stores(d, db, v2)
           s == Chg(d1, at, e)
           t == Chg(c1, at, e)
<1>1. DOMAIN c = Addr /\ c = [k \in Addr |-> c[k]]
  OBVIOUS
<1>2. /\ DOMAIN d = Addr /\ d = [k \in Addr |-> d[k]]
      /\ d[at] = WithModifier(c[at], e) /\ \A k \in Addr : k # at => d[k] = c[k]
  BY <1>1, ChgIs
<1>3. SameChange(c[db], v, d[db], v2)
  OBVIOUS
<1> HIDE DEF d
<1>4. /\ DOMAIN c1 = Addr /\ c1 = [k \in Addr |-> c1[k]]
      /\ c1[db] = v /\ \A k \in Addr : k # db => c1[k] = c[k]
  BY <1>1 DEF Stores
<1>5. /\ DOMAIN d1 = Addr /\ d1 = [k \in Addr |-> d1[k]]
      /\ d1[db] = v2 /\ \A k \in Addr : k # db => d1[k] = d[k]
  BY <1>2 DEF Stores
<1> HIDE DEF c1, d1
<1>6. /\ DOMAIN t = Addr /\ t = [k \in Addr |-> t[k]]
      /\ t[at] = WithModifier(c1[at], e) /\ \A k \in Addr : k # at => t[k] = c1[k]
  BY <1>4, ChgIs
<1>7. /\ DOMAIN s = Addr /\ s = [k \in Addr |-> s[k]]
      /\ s[at] = WithModifier(d1[at], e) /\ \A k \in Addr : k # at => s[k] = d1[k]
  BY <1>5, ChgIs
<1> HIDE DEF s, t
<1>8. ASSUME NEW k \in Addr
      PROVE  s[k] = t[k]
  <2>1. Shape(c[k])
    BY ShapeOf
  <2>2. CASE k # at /\ k # db
    BY <1>2, <1>4, <1>5, <1>6, <1>7, <2>2
  <2>3. CASE k # at /\ k = db
    <3>1. s[k] = v2 /\ t[k] = v /\ d[db] = c[db]
      BY <1>2, <1>4, <1>5, <1>6, <1>7, <2>3
    <3>2. v2 = v
      BY <1>3, <3>1 DEF SameChange
    <3>3. QED
      BY <3>1, <3>2
  <2>4. CASE k = at /\ k # db
    <3>1. s[k] = WithModifier(WithModifier(c[k], e), e) /\ t[k] = WithModifier(c[k], e)
      BY <1>2, <1>4, <1>5, <1>6, <1>7, <2>4
    <3>2. SameChange(c[k], c[k], WithModifier(c[k], e), WithModifier(c[k], e))
      BY DEF SameChange
    <3>3. QED
      BY <2>1, <3>1, <3>2, ChangeThenModifier
  <2>5. CASE k = at /\ k = db
    <3>1. s[k] = WithModifier(v2, e) /\ t[k] = WithModifier(v, e)
      BY <1>4, <1>5, <1>6, <1>7, <2>5
    <3>2. SameChange(c[k], v, WithModifier(c[k], e), v2)
      BY <1>2, <1>3, <2>5
    <3>3. QED
      BY <2>1, <3>1, <3>2, ChangeThenModifier
  <2>6. QED
    BY <2>2, <2>3, <2>4, <2>5
<1>9. s = t
  BY <1>6, <1>7, <1>8
<1>10. QED
  BY <1>9 DEF s, t, c1, d1, d

(* The instruction at an address and the same with another modifier.       *)
LEMMA ExecuteAgrees ==
    ASSUME NEW c \in [Addr -> Insn], NEW at \in Addr, NEW e, NEW ps,
           SameFields(c[at].opcode, e, c[at].modifier)
    PROVE  LET d == Chg(c, at, e)
           IN  /\ Execute(d, at, ps).next = Execute(c, at, ps).next
               /\ Execute(d, at, ps).store = Execute(c, at, ps).store
               /\ Chg(Execute(d, at, ps).core, at, e) = Chg(Execute(c, at, ps).core, at, e)
<1> DEFINE d == Chg(c, at, e)
           in == c[at]
           A == Operand(c, at, in.amode, in.a, Values(in))
           B == Operand(A.core, at, in.bmode, in.b, Values(in))
           ra == RegisterA(A, B)
           rb == B.values
           m == B.core[A.address]
           n == B.core[B.address]
           v == Written(in, m, n, ra, rb, ps)
           in2 == d[at]
           A2 == Operand(d, at, in2.amode, in2.a, Values(in2))
           B2 == Operand(A2.core, at, in2.bmode, in2.b, Values(in2))
           ra2 == RegisterA(A2, B2)
           rb2 == B2.values
           m2 == B2.core[A2.address]
           n2 == B2.core[B2.address]
           v2 == Written(in2, m2, n2, ra2, rb2, ps)
<1>1. /\ Execute(c, at, ps).core = Stores(B.core, B.address, v)
      /\ Execute(c, at, ps).store = Stored(in, ra, rb)
      /\ Execute(c, at, ps).next = CASE Dies(in, ra) -> <<>>
                     [] in.opcode = "SPL" -> <<IncMod(at), A.address>>
                     [] Jumps(in, rb) -> <<A.address>>
                     [] Skips(in, m, n, ra, rb) -> <<Skipped(at)>>
                     [] OTHER -> <<IncMod(at)>>
  BY DEF Execute, Stores
<1>2. /\ Execute(d, at, ps).core = Stores(B2.core, B2.address, v2)
      /\ Execute(d, at, ps).store = Stored(in2, ra2, rb2)
      /\ Execute(d, at, ps).next = CASE Dies(in2, ra2) -> <<>>
                     [] in2.opcode = "SPL" -> <<IncMod(at), A2.address>>
                     [] Jumps(in2, rb2) -> <<A2.address>>
                     [] Skips(in2, m2, n2, ra2, rb2) -> <<Skipped(at)>>
                     [] OTHER -> <<IncMod(at)>>
  BY DEF Execute, Stores
<1>3. in \in Insn /\ Values(in) \in Registers /\ Shape(in)
      /\ in.amode \in ADDRMODE /\ in.bmode \in ADDRMODE /\ in.a \in Addr /\ in.b \in Addr
  <2>1. in \in Insn
    OBVIOUS
  <2> HIDE DEF in
  <2>2. QED
    BY <2>1, ShapeOf DEF Insn, Values, Registers
<1>4. in2 = WithModifier(in, e)
  BY ChgIs
<1> HIDE DEF in
<1>5. /\ in2.opcode = in.opcode /\ in2.amode = in.amode /\ in2.bmode = in.bmode
      /\ in2.a = in.a /\ in2.b = in.b /\ in2.modifier = e
  BY <1>3, <1>4, ModifierSet DEF SameModes
<1>6. Values(in2) = Values(in)
  BY <1>5 DEF Values
<1>7. A.core \in [Addr -> Insn] /\ A.address \in Addr
  BY <1>3, OperandType
<1>8. B.core \in [Addr -> Insn] /\ B.address \in Addr
  <2> HIDE DEF A
  <2>1. QED
    BY <1>3, <1>7, OperandType
<1>9. A2 = Operand(d, at, in.amode, in.a, Values(in))
  BY <1>5, <1>6
<1>10. A2.address = A.address /\ A2.values = A.values /\ A2.core = Chg(A.core, at, e)
  <2> HIDE DEF A2
  <2>1. QED
    BY <1>3, <1>9, OperandAgrees
<1>11. B2 = Operand(Chg(A.core, at, e), at, in.bmode, in.b, Values(in))
  BY <1>5, <1>6, <1>10
<1>12. B2.address = B.address /\ B2.values = B.values /\ B2.core = Chg(B.core, at, e)
  <2> HIDE DEF A, A2, B2
  <2>1. QED
    BY <1>3, <1>7, <1>11, OperandAgrees
<1> HIDE DEF A, B, A2, B2, in2
<1>13. ra2 = ra /\ rb2 = rb
  BY <1>10, <1>12 DEF RegisterA
<1>14. \A f \in Fields : n2[f] = n[f]
  BY <1>8, <1>12, FieldsOfChg
<1>15. n2 = Chg(B.core, at, e)[B.address]
  BY <1>12
<1>16. SameFields(in.opcode, in2.modifier, in.modifier)
  BY <1>5 DEF in
<1> HIDE DEF ra, rb, ra2, rb2, m, n, m2, n2
<1>17. /\ Dies(in2, ra) <=> Dies(in, ra)
       /\ Jumps(in2, rb) <=> Jumps(in, rb)
       /\ Skips(in2, m2, n2, ra, rb) <=> Skips(in, m, n, ra, rb)
       /\ Stored(in2, ra, rb) = Stored(in, ra, rb)
       /\ SameChange(n, Written(in, m, n, ra, rb, ps), n2, Written(in2, m2, n2, ra, rb, ps))
  BY <1>5, <1>14, <1>16, SwitchAgrees
<1>18. SameChange(B.core[B.address], v, Chg(B.core, at, e)[B.address], v2)
  BY <1>13, <1>15, <1>17 DEF n
<1>19. Execute(d, at, ps).next = Execute(c, at, ps).next
  BY <1>1, <1>2, <1>5, <1>10, <1>13, <1>17
<1>20. Execute(d, at, ps).store = Execute(c, at, ps).store
  BY <1>1, <1>2, <1>13, <1>17
<1> HIDE DEF v, v2
<1>21. Chg(Stores(Chg(B.core, at, e), B.address, v2), at, e)
          = Chg(Stores(B.core, B.address, v), at, e)
  BY <1>8, <1>18, CoreAgrees
<1>22. Chg(Execute(d, at, ps).core, at, e) = Chg(Execute(c, at, ps).core, at, e)
  BY <1>1, <1>2, <1>12, <1>21
<1>23. QED
  BY <1>19, <1>20, <1>22

(* EffectiveModifier() (exhaust.cpp) is right for every instruction with   *)
(* every pair of operands: sim_proper() does the same with the modifier it *)
(* names, so that the evolver loses nothing by not trying the others.      *)
LEMMA ModifierHolds == OffspringSpec => []ModifierIsEffective
<1>1. OffspringInv => ModifierIsEffective
  <2> SUFFICES ASSUME OffspringInv, Alone
               PROVE  LET e == EffectiveModifier(Due.opcode, Due.modifier)
                          d == Chg(Memory, ip, e)
                      IN  /\ Effect(Memory).next = Effect(d).next
                          /\ Effect(Memory).store = Effect(d).store
                          /\ Chg(Effect(Memory).core, ip, e) = Chg(Effect(d).core, ip, e)
    BY DEF ModifierIsEffective, Chg
  <2> DEFINE M == Memory
             at == ip
             in == M[at]
             e == EffectiveModifier(in.opcode, in.modifier)
             d == Chg(M, at, e)
  <2>1. at \in Addr /\ M \in [Addr -> Insn] /\ in = Due
    BY AloneInCore DEF Due
  <2> HIDE DEF M, at
  <2>2. in \in Insn /\ in.opcode \in OPCODE /\ in.modifier \in MODIFIER
    <3>1. in \in Insn
      BY <2>1
    <3> HIDE DEF in
    <3>2. QED
      BY <3>1 DEF Insn
  <2>3. e = in.modifier \/ SameFields(in.opcode, e, in.modifier)
    <3> HIDE DEF in
    <3>1. QED
      BY <2>2, EffectiveFields
  <2> HIDE DEF e
  <2>4. /\ Execute(d, at, PSpaceSeen).next = Execute(M, at, PSpaceSeen).next
        /\ Execute(d, at, PSpaceSeen).store = Execute(M, at, PSpaceSeen).store
        /\ Chg(Execute(d, at, PSpaceSeen).core, at, e)
             = Chg(Execute(M, at, PSpaceSeen).core, at, e)
    <3>1. CASE e = in.modifier
      <4>1. WithModifier(in, e) = in
        <5>1. Shape(in)
          BY <2>2, ShapeOf
        <5> HIDE DEF in
        <5>2. QED
          BY <3>1, <5>1, ModifierSet, SameShape DEF SameModes
      <4>2. d = M
        <5>1. /\ DOMAIN d = Addr /\ d = [k \in Addr |-> d[k]]
              /\ d[at] = in /\ \A k \in Addr : k # at => d[k] = M[k]
          BY <2>1, <4>1, ChgIs
        <5> HIDE DEF d
        <5>2. QED
          BY <2>1, <5>1
      <4>3. QED
        BY <4>2
    <3>2. CASE SameFields(in.opcode, e, in.modifier)
      BY <2>1, <3>2, ExecuteAgrees
    <3>3. QED
      BY <2>3, <3>1, <3>2
  <2>5. QED
    BY <2>1, <2>4 DEF Effect, e, M, at
<1>2. QED
  BY <1>1, OffspringInvariant, PTL

(* The tables that the evolver searches its warriors with agree with the   *)
(* switch that executes them, for every instruction in every core: OpInfo's*)
(* branches, skips, ends and effective modifiers with sim_proper().        *)
THEOREM OpInfoTheorem == OffspringSpec => []OpInfoAgrees
<1>1. BranchesAgree /\ ModifierIsEffective => OpInfoAgrees
  BY DEF OpInfoAgrees
<1>2. QED
  BY <1>1, BranchesHold, ModifierHolds, PTL

(* The operands of the instruction at an address, as Execute() evaluates   *)
(* them, and the A-register.                                               *)
OperandA(c, at) ==
    Operand(c, at, c[at].amode, c[at].a, Values(c[at]))

OperandB(c, at) ==
    Operand(OperandA(c, at).core, at, c[at].bmode, c[at].b, Values(c[at]))

Register(c, at) == RegisterA(OperandA(c, at), OperandB(c, at))

(* They are the same whatever the modifier of the instruction is.          *)
LEMMA OperandsAgree ==
    ASSUME NEW c \in [Addr -> Insn], NEW at \in Addr, NEW e
    PROVE  LET d == Chg(c, at, e)
           IN  /\ d[at].opcode = c[at].opcode /\ d[at].modifier = e
               /\ OperandB(c, at).core \in [Addr -> Insn]
               /\ OperandB(c, at).address \in Addr
               /\ Register(d, at) = Register(c, at)
               /\ OperandB(d, at).address = OperandB(c, at).address
               /\ OperandB(d, at).values = OperandB(c, at).values
               /\ OperandB(d, at).core = Chg(OperandB(c, at).core, at, e)
<1> DEFINE d == Chg(c, at, e)
           in == c[at]
           A == Operand(c, at, in.amode, in.a, Values(in))
           B == Operand(A.core, at, in.bmode, in.b, Values(in))
           in2 == d[at]
           A2 == Operand(d, at, in2.amode, in2.a, Values(in2))
           B2 == Operand(A2.core, at, in2.bmode, in2.b, Values(in2))
<1>1. in \in Insn /\ Values(in) \in Registers /\ Shape(in)
      /\ in.amode \in ADDRMODE /\ in.bmode \in ADDRMODE /\ in.a \in Addr /\ in.b \in Addr
  <2>1. in \in Insn
    OBVIOUS
  <2> HIDE DEF in
  <2>2. QED
    BY <2>1, ShapeOf DEF Insn, Values, Registers
<1>2. in2 = WithModifier(in, e)
  BY ChgIs
<1> HIDE DEF in
<1>3. /\ in2.opcode = in.opcode /\ in2.amode = in.amode /\ in2.bmode = in.bmode
      /\ in2.a = in.a /\ in2.b = in.b /\ in2.modifier = e
  BY <1>1, <1>2, ModifierSet DEF SameModes
<1>4. Values(in2) = Values(in)
  BY <1>3 DEF Values
<1>5. A.core \in [Addr -> Insn] /\ A.address \in Addr
  BY <1>1, OperandType
<1>6. B.core \in [Addr -> Insn] /\ B.address \in Addr
  <2> HIDE DEF A
  <2>1. QED
    BY <1>1, <1>5, OperandType
<1>7. A2 = Operand(d, at, in.amode, in.a, Values(in))
  BY <1>3, <1>4
<1>8. A2.address = A.address /\ A2.values = A.values /\ A2.core = Chg(A.core, at, e)
  <2> HIDE DEF A2
  <2>1. QED
    BY <1>1, <1>7, OperandAgrees
<1>9. B2 = Operand(Chg(A.core, at, e), at, in.bmode, in.b, Values(in))
  BY <1>3, <1>4, <1>8
<1>10. B2.address = B.address /\ B2.values = B.values /\ B2.core = Chg(B.core, at, e)
  <2> HIDE DEF A, A2, B2
  <2>1. QED
    BY <1>1, <1>5, <1>9, OperandAgrees
<1>11. /\ OperandA(c, at) = A /\ OperandB(c, at) = B
       /\ OperandA(d, at) = A2 /\ OperandB(d, at) = B2
  BY DEF OperandA, OperandB, in
<1> HIDE DEF A, B, A2, B2, in2, d
<1>12. Register(d, at) = Register(c, at)
  BY <1>8, <1>11 DEF Register, RegisterA
<1>13. QED
  BY <1>3, <1>6, <1>10, <1>11, <1>12 DEF in, in2, d

(* Instructions that compute, each pair of fields by itself.               *)
Computes(op) == op \in {"ADD", "SUB", "MUL", "MODM", "DIV"}

(* What such an instruction does.                                          *)
LEMMA ComputesOnly ==
    ASSUME NEW c, NEW at, NEW ps, Computes(c[at].opcode)
    PROVE  LET in == c[at]
               B  == OperandB(c, at)
               ra == Register(c, at)
           IN  /\ Execute(c, at, ps).core
                    = Stores(B.core, B.address,
                             Put(B.core[B.address],
                                 Results(in.opcode, in.modifier, ra, B.values)))
               /\ Execute(c, at, ps).next = <<>>
                    <=> Undivided(in.opcode, in.modifier, ra) # {}
<1> DEFINE in == c[at]
           A == OperandA(c, at)
           B == OperandB(c, at)
           ra == Register(c, at)
           rb == B.values
           m == B.core[A.address]
           n == B.core[B.address]
<1>1. /\ Execute(c, at, ps).core = Stores(B.core, B.address, Written(in, m, n, ra, rb, ps))
      /\ Execute(c, at, ps).next = CASE Dies(in, ra) -> <<>>
                     [] in.opcode = "SPL" -> <<IncMod(at), A.address>>
                     [] Jumps(in, rb) -> <<A.address>>
                     [] Skips(in, m, n, ra, rb) -> <<Skipped(at)>>
                     [] OTHER -> <<IncMod(at)>>
  BY DEF Execute, Stores, OperandA, OperandB, Register
<1>2. Computes(in.opcode)
  OBVIOUS
<1> HIDE DEF in, A, B, ra, rb, m, n
<1>3. in.opcode # "SPL" /\ ~Jumps(in, rb) /\ ~Skips(in, m, n, ra, rb)
  BY <1>2 DEF Computes, Jumps, Skips
<1>4. Execute(c, at, ps).next = IF Dies(in, ra) THEN <<>> ELSE <<IncMod(at)>>
  BY <1>1, <1>3
<1>5. Dies(in, ra) <=> Undivided(in.opcode, in.modifier, ra) # {}
  BY <1>2 DEF Dies, Computes
<1>6. Written(in, m, n, ra, rb, ps) = Put(n, Results(in.opcode, in.modifier, ra, rb))
  BY <1>2 DEF Written, Computes
<1>7. <<IncMod(at)>> # <<>>
  OBVIOUS
<1>8. QED
  BY <1>1, <1>4, <1>5, <1>6, <1>7 DEF in, B, ra, rb, n

(* The one pair of fields of which f is the second.                        *)
OnlyInto(mod, x, f) ==
    <<x, f>> \in Pairs(mod) /\ \A p \in Pairs(mod) : p[2] = f => p = <<x, f>>

(* new has the result of op for the fields x and f, if there is one.       *)
HasResult(new, op, x, f, ra, rb) ==
    /\ f \in DOMAIN new <=> ~(op \in {"MODM", "DIV"} /\ ra[x] = 0)
    /\ f \in DOMAIN new => new[f] = Compute(op, ra[x], rb[f])

(* With the same registers, modifiers that combine field f with the same   *)
(* one compute the same in it.                                             *)
LEMMA ResultOf ==
    ASSUME NEW op, NEW mod, NEW x, NEW f, OnlyInto(mod, x, f), NEW ra, NEW rb
    PROVE  HasResult(Results(op, mod, ra, rb), op, x, f, ra, rb)
<1> DEFINE p0 == <<x, f>>
           fails == op \in {"MODM", "DIV"} /\ ra[x] = 0
           done == Pairs(mod) \ Undivided(op, mod, ra)
           new == ResultsOf(op, done, ra, rb)
<1>1. p0 \in Pairs(mod) /\ p0[1] = x /\ p0[2] = f
      /\ \A p \in Pairs(mod) : p[2] = f => p = p0
  BY DEF OnlyInto
<1> HIDE DEF p0
<1>2. p0 \in done <=> ~fails
  BY <1>1 DEF Undivided
<1>3. Results(op, mod, ra, rb) = new
  BY DEF Results, ResultsOf
<1>4. done \subseteq Pairs(mod)
  OBVIOUS
<1> HIDE DEF done, fails
<1>5. DOMAIN new = {p[2] : p \in done}
  BY DEF ResultsOf
<1>6. f \in {p[2] : p \in done} <=> p0 \in done
  BY <1>1, <1>4
<1>7. ASSUME p0 \in done
      PROVE  new[f] = Compute(op, ra[x], rb[f])
  <2>1. (CHOOSE p \in done : p[2] = f) = p0
    BY <1>1, <1>4, <1>7
  <2>2. new[f] = Compute(op, ra[(CHOOSE p \in done : p[2] = f)[1]], rb[f])
    BY <1>6, <1>7 DEF ResultsOf
  <2>3. QED
    BY <1>1, <2>1, <2>2
<1> HIDE DEF new
<1>8. QED
  BY <1>2, <1>3, <1>5, <1>6, <1>7 DEF HasResult, fails

(* So one of them alone leaves the same in that field of every location.   *)
LEMMA HalfAgrees ==
    ASSUME NEW c \in [Addr -> Insn], NEW at \in Addr, NEW e, NEW ps,
           Computes(c[at].opcode), NEW x, NEW f \in Fields,
           OnlyInto(c[at].modifier, x, f), OnlyInto(e, x, f),
           NEW k \in Addr
    PROVE  Execute(Chg(c, at, e), at, ps).core[k][f] = Execute(c, at, ps).core[k][f]
<1> DEFINE d == Chg(c, at, e)
           op == c[at].opcode
           ra == Register(c, at)
           rb == OperandB(c, at).values
           db == OperandB(c, at).address
           b == OperandB(c, at).core
           b2 == Chg(b, at, e)
           new == Results(op, c[at].modifier, ra, rb)
           new2 == Results(op, e, ra, rb)
<1>1. /\ d[at].opcode = op /\ d[at].modifier = e
      /\ b \in [Addr -> Insn] /\ db \in Addr
      /\ Register(d, at) = ra /\ OperandB(d, at).address = db
      /\ OperandB(d, at).values = rb /\ OperandB(d, at).core = b2
  BY OperandsAgree
<1>2. Execute(c, at, ps).core = Stores(b, db, Put(b[db], new))
  BY ComputesOnly
<1>3. Execute(d, at, ps).core = Stores(b2, db, Put(b2[db], new2))
  <2>1. Computes(d[at].opcode)
    BY <1>1
  <2> HIDE DEF d, b2
  <2>2. QED
    BY <1>1, <2>1, ComputesOnly
<1>4. /\ f \in DOMAIN new2 <=> f \in DOMAIN new
      /\ f \in DOMAIN new => new2[f] = new[f]
  <2> DEFINE mod == c[at].modifier
  <2>1. OnlyInto(mod, x, f)
    OBVIOUS
  <2>2. new = Results(op, mod, ra, rb) /\ new2 = Results(op, e, ra, rb)
    OBVIOUS
  <2> HIDE DEF mod, op, ra, rb, new, new2
  <2>3. HasResult(new, op, x, f, ra, rb)
    BY <2>1, <2>2, ResultOf
  <2>4. HasResult(new2, op, x, f, ra, rb)
    BY <2>2, ResultOf
  <2>5. QED
    BY <2>3, <2>4 DEF HasResult
<1>5. \A j \in Addr : b2[j][f] = b[j][f]
  BY <1>1, FieldsOfChg
<1>6. DOMAIN b = Addr /\ DOMAIN b2 = Addr /\ Shape(b[db]) /\ Shape(b2[db])
  <2>1. DOMAIN b = Addr /\ b[db] \in Insn
    BY <1>1
  <2> HIDE DEF b, db
  <2>2. Shape(b[db])
    BY <2>1, ShapeOf
  <2>3. b = [j \in Addr |-> b[j]]
    BY <1>1
  <2>4. DOMAIN b2 = Addr /\ (b2[db] = b[db] \/ b2[db] = WithModifier(b[db], e))
    BY <1>1, <2>3, ChgIs
  <2>5. QED
    BY <2>1, <2>2, <2>4, ModifierSet
<1> HIDE DEF d, b, b2, db, new, new2
<1>7. Put(b2[db], new2)[f] = Put(b[db], new)[f]
  <2>1. CASE f = "a"
    BY <1>1, <1>4, <1>5, <1>6, <2>1, PutIs
  <2>2. CASE f = "b"
    BY <1>1, <1>4, <1>5, <1>6, <2>2, PutIs
  <2>3. QED
    BY <2>1, <2>2 DEF Fields
<1>8. CASE k = db
  BY <1>2, <1>3, <1>6, <1>7, <1>8 DEF Stores, d
<1>9. CASE k # db
  BY <1>2, <1>3, <1>5, <1>6, <1>9 DEF Stores, d
<1>10. QED
  BY <1>8, <1>9

(* ADD, SUB, MUL, MODM and DIV treat their two fields independently of     *)
(* each other, for every instruction that can be read, with every pair of  *)
(* operands: a division by zero in one field kills the process, and leaves *)
(* the other field divided (sim.c:1048-1130).                              *)
THEOREM HalvesTheorem == OffspringSpec => []HalvesAgree
<1>1. OffspringInv => HalvesAgree
  <2> DEFINE mod == Due.modifier
             op == Due.opcode
             halves == IF mod = "X" THEN {"AB", "BA"} ELSE {"A", "B"}
             half(e) == Effect(Chg(Memory, ip, e))
  <2> SUFFICES ASSUME OffspringInv, Alone, Computes(op), mod \in {"F", "X", "I"}
               PROVE  /\ Effect(Memory).next = <<>>
                           <=> \E e \in halves : half(e).next = <<>>
                      /\ \A e \in halves, f \in Fields, k \in Addr :
                            Into(f, e) => Effect(Memory).core[k][f] = half(e).core[k][f]
    BY DEF HalvesAgree, Chg, Computes
  <2> DEFINE M == Memory
             at == ip
             ra == Register(M, at)
  <2>1. at \in Addr /\ M \in [Addr -> Insn] /\ M[at] = Due
    BY AloneInCore DEF Due
  <2>2. M[at].opcode = op /\ M[at].modifier = mod
    BY <2>1
  <2> HIDE DEF M, at, op, mod
  <2>3. Effect(M).next = <<>> <=> Undivided(op, mod, ra) # {}
    BY <2>2, ComputesOnly DEF Effect, at
  <2>4. ASSUME NEW e
        PROVE  half(e).next = <<>> <=> Undivided(op, e, ra) # {}
    <3> DEFINE d == Chg(M, at, e)
    <3>1. d[at].opcode = op /\ d[at].modifier = e /\ Register(d, at) = ra
      BY <2>1, <2>2, OperandsAgree
    <3> HIDE DEF d
    <3>2. Execute(d, at, PSpaceSeen).next = <<>> <=> Undivided(op, e, ra) # {}
      BY <3>1, ComputesOnly
    <3>3. QED
      BY <3>2 DEF d, M, at, Effect
  <2>5. Pairs(mod) = UNION {Pairs(e) : e \in halves}
    BY PairsAre
  <2>6. Undivided(op, mod, ra) # {} <=> \E e \in halves : Undivided(op, e, ra) # {}
    BY <2>5 DEF Undivided
  <2>7. ASSUME NEW e \in halves, NEW f \in Fields, NEW k \in Addr, Into(f, e)
        PROVE  Effect(M).core[k][f] = half(e).core[k][f]
    <3>1. \E x : OnlyInto(mod, x, f) /\ OnlyInto(e, x, f)
      <4>1. CASE mod = "X"
        <5>1. (e = "AB" /\ f = "b") \/ (e = "BA" /\ f = "a")
          BY <2>7, <4>1, TestedAre DEF Into
        <5>2. CASE e = "AB" /\ f = "b"
          <6>1. OnlyInto("X", "a", "b") /\ OnlyInto("AB", "a", "b")
            BY PairsAre DEF OnlyInto
          <6>2. QED
            BY <4>1, <5>2, <6>1
        <5>3. CASE e = "BA" /\ f = "a"
          <6>1. OnlyInto("X", "b", "a") /\ OnlyInto("BA", "b", "a")
            BY PairsAre DEF OnlyInto
          <6>2. QED
            BY <4>1, <5>3, <6>1
        <5>4. QED
          BY <5>1, <5>2, <5>3
      <4>2. CASE mod \in {"F", "I"}
        <5>1. Pairs(mod) = {<<"a", "a">>, <<"b", "b">>}
          BY <4>2, PairsAre
        <5>2. (e = "A" /\ f = "a") \/ (e = "B" /\ f = "b")
          BY <2>7, <4>2, TestedAre DEF Into
        <5>3. CASE e = "A" /\ f = "a"
          <6>1. OnlyInto(mod, "a", "a") /\ OnlyInto("A", "a", "a")
            BY <5>1, PairsAre DEF OnlyInto
          <6>2. QED
            BY <5>3, <6>1
        <5>4. CASE e = "B" /\ f = "b"
          <6>1. OnlyInto(mod, "b", "b") /\ OnlyInto("B", "b", "b")
            BY <5>1, PairsAre DEF OnlyInto
          <6>2. QED
            BY <5>4, <6>1
        <5>5. QED
          BY <5>2, <5>3, <5>4
      <4>3. QED
        BY <4>1, <4>2
    <3>2. PICK x : OnlyInto(mod, x, f) /\ OnlyInto(e, x, f)
      BY <3>1
    <3>3. Execute(Chg(M, at, e), at, PSpaceSeen).core[k][f]
            = Execute(M, at, PSpaceSeen).core[k][f]
      BY <2>1, <2>2, <3>2, HalfAgrees
    <3>4. QED
      BY <3>3 DEF Effect, M, at
  <2>8. QED
    BY <2>3, <2>4, <2>6, <2>7 DEF M
<1>2. QED
  BY <1>1, OffspringInvariant, PTL

=============================================================================
