------------------------------- MODULE Redcode -------------------------------
(***************************************************************************)
(* The instructions of Redcode as the main loop of sim_proper() executes   *)
(* them (exhaust-1.9.2/sim.c), and what the tables of OpInfo (exhaust.cpp) *)
(* say of them.  A modifier is the set of pairs <<x, y>> for which the     *)
(* instruction combines field x of the A-instruction with field y of the   *)
(* B-instruction.  Flags are stripped from an instruction in core, as the  *)
(* build does (SIM_STRIP_FLAGS).                                           *)
(***************************************************************************)
EXTENDS Core, PSpace, Sequences

Fields == {"a", "b"}

OPCODE ==
    {"DAT", "SPL", "MOV", "DJN", "ADD", "JMZ", "SUB", "SEQ", "SNE", "SLT",
     "JMN", "JMP", "NOP", "MUL", "MODM", "DIV", "LDP", "STP"}

MODIFIER == {"F", "A", "B", "AB", "BA", "X", "I"}

ADDRMODE ==
    {"DIRECT", "IMMEDIATE", "BINDIRECT", "BPREDEC", "BPOSTINC", "AINDIRECT",
     "APREDEC", "APOSTINC"}

Insn == [opcode : OPCODE, modifier : MODIFIER, amode : ADDRMODE,
         bmode : ADDRMODE, a : Addr, b : Addr]

(* What sim_clear_core() leaves in every location.                         *)
Zeroed == [opcode |-> "DAT", modifier |-> "F", amode |-> "DIRECT",
           bmode |-> "DIRECT", a |-> 0, b |-> 0]

(* sim_load_warrior(): core with code at pos and after, wrapped around.    *)
Loaded(core, pos, code) ==
    [k \in Addr |-> LET i == (k - pos) % Coresize
                    IN  IF i < Len(code) THEN code[i + 1] ELSE core[k]]

-----------------------------------------------------------------------------
(* Effective addresses.                                                    *)

(* The field that an indirect mode goes through.                           *)
Via(mode) == IF mode \in {"AINDIRECT", "APREDEC", "APOSTINC"} THEN "a" ELSE "b"

Values(insn) == [a |-> insn.a, b |-> insn.b]

(* The operand of an instruction at ip whose value is x: the address it    *)
(* refers to, the values of the fields found there, which are read before  *)
(* a post-increment, and core after the operand has been evaluated.        *)
Operand(core, ip, mode, x, own) ==
    LET point == AddMod(x, ip)
        f == Via(mode)
        t == IF mode \in {"APREDEC", "BPREDEC"} THEN DecMod(core[point][f])
                                                ELSE core[point][f]
        before == [core EXCEPT ![point][f] = t]
        target == AddMod(t, point)
        after == IF mode \in {"APOSTINC", "BPOSTINC"}
                 THEN [before EXCEPT ![point][f] = IncMod(t)]
                 ELSE before
    IN  CASE mode = "IMMEDIATE" ->
               [address |-> ip, values |-> own, core |-> core]
          [] mode = "DIRECT" ->
               [address |-> point, values |-> Values(core[point]),
                core |-> core]
          [] OTHER ->
               [address |-> target, values |-> Values(before[target]),
                core |-> after]

-----------------------------------------------------------------------------
(* Modifiers.                                                              *)

Pairs(modifier) ==
    CASE modifier = "A"  -> {<<"a", "a">>}
      [] modifier = "B"  -> {<<"b", "b">>}
      [] modifier = "AB" -> {<<"a", "b">>}
      [] modifier = "BA" -> {<<"b", "a">>}
      [] modifier = "X"  -> {<<"a", "b">>, <<"b", "a">>}
      [] OTHER           -> {<<"a", "a">>, <<"b", "b">>}

(* The jumps look at fields of the B-instruction only.                     *)
Tested(modifier) == {p[2] : p \in Pairs(modifier)}

(* LDP and STP move one value, with .F, .X and .I as with .B.              *)
Moved(modifier) ==
    CASE modifier = "A"  -> <<"a", "a">>
      [] modifier = "AB" -> <<"a", "b">>
      [] modifier = "BA" -> <<"b", "a">>
      [] OTHER           -> <<"b", "b">>

-----------------------------------------------------------------------------
(* The switch.  ra and rb are the registers, da and db the addresses.      *)

(* The result of an instruction that computes, from value u of the         *)
(* A-instruction and value v of the B-instruction.                         *)
Compute(opcode, u, v) ==
    CASE opcode = "MOV"  -> u
      [] opcode = "ADD"  -> AddMod(u, v)
      [] opcode = "SUB"  -> SubMod(v, u)
      [] opcode = "MUL"  -> (v * u) % Coresize
      [] opcode = "MODM" -> v % u
      [] opcode = "DIV"  -> v \div u

(* Mutant of Undivided: neither field is computed if one cannot be.        *)
UndividedAtAll(opcode, modifier, ra) ==
    {p \in Pairs(modifier) :
        opcode \in {"MODM", "DIV"} /\ \E q \in Pairs(modifier) : ra[q[1]] = 0}

(* The pairs for which it divides by zero: then the process dies, though   *)
(* the other field is still computed.                                      *)
Undivided(opcode, modifier, ra) ==
    {p \in Pairs(modifier) : opcode \in {"MODM", "DIV"} /\ ra[p[1]] = 0}

(* The new values of the fields at db, for those that get one.             *)
Results(opcode, modifier, ra, rb) ==
    LET done == Pairs(modifier) \ Undivided(opcode, modifier, ra)
    IN  [f \in {p[2] : p \in done} |->
           Compute(opcode, ra[(CHOOSE p \in done : p[2] = f)[1]], rb[f])]

(* Insn with the values of those fields replaced that are in DOMAIN new.   *)
Put(insn, new) ==
    [insn EXCEPT !.a = IF "a" \in DOMAIN new THEN new["a"] ELSE @,
                 !.b = IF "b" \in DOMAIN new THEN new["b"] ELSE @]

(* The instruction at db afterwards; m is the one at da, n the one at db   *)
(* when the operands have been evaluated.  MOV.I moves all of m, and DJN   *)
(* decrements what is in core, not what it has read.                       *)
Written(in, m, n, ra, rb, ps) ==
    LET x == Moved(in.modifier)[1]
        y == Moved(in.modifier)[2]
    IN  CASE in.opcode \in {"MOV", "ADD", "SUB", "MUL", "MODM", "DIV"} ->
               Put(IF in.opcode = "MOV" /\ in.modifier = "I" THEN m ELSE n,
                   Results(in.opcode, in.modifier, ra, rb))
          [] in.opcode = "DJN" ->
               Put(n, [f \in Tested(in.modifier) |-> DecMod(n[f])])
          [] in.opcode = "LDP" ->
               Put(n, [f \in {y} |-> ps[ra[x] % PSpace_size]])
          [] OTHER -> n

(* What is written to p-space: nothing or <<location, value>>.             *)
Stored(in, ra, rb) ==
    LET x == Moved(in.modifier)[1]
        y == Moved(in.modifier)[2]
    IN  IF in.opcode = "STP" THEN <<rb[y] % PSpace_size, ra[x]>> ELSE <<>>

Dies(in, ra) ==
    in.opcode = "DAT" \/ Undivided(in.opcode, in.modifier, ra) # {}

(* Does the jump take place?                                               *)
Jumps(in, rb) ==
    \/ in.opcode = "JMP"
    \/ in.opcode = "JMZ" /\ \A f \in Tested(in.modifier) : rb[f] = 0
    \/ in.opcode = "JMN" /\ \E f \in Tested(in.modifier) : rb[f] # 0
    \/ in.opcode = "DJN" /\ \E f \in Tested(in.modifier) : rb[f] # 1

Alike(m, n) == /\ m.opcode = n.opcode /\ m.modifier = n.modifier
               /\ m.amode = n.amode /\ m.bmode = n.bmode

(* Is the next instruction skipped?  .I compares m and n as a whole, but   *)
(* SLT.I only their fields.                                                *)
Skips(in, m, n, ra, rb) ==
    \/ /\ in.opcode = "SEQ"
       /\ in.modifier = "I" => Alike(m, n)
       /\ \A p \in Pairs(in.modifier) : ra[p[1]] = rb[p[2]]
    \/ /\ in.opcode = "SNE"
       /\ \/ in.modifier = "I" /\ ~Alike(m, n)
          \/ \E p \in Pairs(in.modifier) : ra[p[1]] # rb[p[2]]
    \/ /\ in.opcode = "SLT"
       /\ \A p \in Pairs(in.modifier) : ra[p[1]] < rb[p[2]]

(* Mutant of Skipped: the second step is not taken modulo Coresize.        *)
SkippedUnwrapped(ip) == IncMod(ip) + 1

(* The address after the instruction that is skipped.                      *)
Skipped(ip) == IncMod(IncMod(ip))

(* Mutant of RegisterA: the 'in-memory' model, which looks up the A-values *)
(* when it needs them.                                                     *)
InMemoryA(A, B) == Values(B.core[A.address])

(* The A-register is filled before the B-operand is evaluated.             *)
RegisterA(A, B) == A.values

(* One instruction of a process at ip whose warrior reads p-space ps: core *)
(* afterwards, what is written to p-space, and the addresses at which the  *)
(* process goes on.                                                        *)
Execute(core, ip, ps) ==
    LET in == core[ip]
        A  == Operand(core, ip, in.amode, in.a, Values(in))
        B  == Operand(A.core, ip, in.bmode, in.b, Values(in))
        ra == RegisterA(A, B)
        rb == B.values
        m  == B.core[A.address]
        n  == B.core[B.address]
    IN  [core  |-> [B.core EXCEPT ![B.address] = Written(in, m, n, ra, rb, ps)],
         store |-> Stored(in, ra, rb),
         next  |-> CASE Dies(in, ra) -> <<>>
                     [] in.opcode = "SPL" -> <<IncMod(ip), A.address>>
                     [] Jumps(in, rb) -> <<A.address>>
                     [] Skips(in, m, n, ra, rb) -> <<Skipped(ip)>>
                     [] OTHER -> <<IncMod(ip)>>]

-----------------------------------------------------------------------------
(* OpInfo: what the evolver believes about the instructions.               *)

Branches(opcode) ==
    opcode \in {"SPL", "DJN", "JMZ", "SEQ", "SNE", "SLT", "JMN", "JMP"}

IsSkip(opcode) == opcode \in {"SEQ", "SNE", "SLT"}

(* Mutant of Continues: SPL is taken for a jump.                           *)
ContinuesNotSpl(opcode) == opcode \notin {"DAT", "JMP", "SPL"}

Continues(opcode) == opcode \notin {"DAT", "JMP"}

(* Mutant of EffectiveModifier: the jumps look at the A-field for .AB.     *)
EffectiveModifierSwapped(opcode, modifier) ==
    CASE opcode \in {"DAT", "SPL", "JMP", "NOP"} -> "F"
      [] opcode \in {"DJN", "JMZ", "JMN"} ->
           IF modifier \in {"A", "AB"} THEN "A"
           ELSE IF modifier \in {"B", "BA"} THEN "B" ELSE "F"
      [] OTHER -> modifier

(* The modifier with which the instruction does the same.                  *)
EffectiveModifier(opcode, modifier) ==
    CASE opcode \in {"DAT", "SPL", "JMP", "NOP"} -> "F"
      [] opcode \in {"DJN", "JMZ", "JMN"} ->
           CASE modifier \in {"A", "BA"} -> "A"
             [] modifier \in {"B", "AB"} -> "B"
             [] OTHER -> "F"
      [] opcode \in {"ADD", "SUB", "SLT", "MUL", "MODM", "DIV"} ->
           IF modifier = "I" THEN "F" ELSE modifier
      [] OTHER -> modifier
=============================================================================
