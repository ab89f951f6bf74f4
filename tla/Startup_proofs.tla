--------------------------- MODULE Startup_proofs ---------------------------
(***************************************************************************)
(* Proofs about the start of exhaust: for any command line, and any widths *)
(* of numbers and room in the warriors, positions are apart and nobody is  *)
(* loaded over anybody else when a round begins, as long as the numbers    *)
(* are representable.  Positions_proofs shows that positions are apart     *)
(* when there is space; that check_sanity() makes sure is shown here.      *)
(***************************************************************************)
EXTENDS Startup, Positions_proofs

(* What is known of the options and warriors that have been read.          *)
ReadInv ==
    /\ args \in Seq(Argument)
    /\ \A k \in DOMAIN args : args[k].c = "file" => args[k].n # NoNumber
    /\ len \in Seq(Nat) /\ NWarriors = Len(len)
    /\ OPT_coresize \in Nat \ {0} /\ OPT_minsep \in Nat

(* What has been done when main() is about to make a call.                 *)
CallInv ==
    /\ call # "rounds" =>
          stage = "idle" /\ pos = 1 /\ retries1 = RETRIES1 /\ retries2 = RETRIES2
    /\ call \in {"alloc", "import", "sanity", "buffers"} => NWarriors # 0
    /\ call \in {"import", "sanity", "buffers"} =>
          positions = [i \in Warriors |-> 0]
    /\ call = "rounds" => PosInv

(* What check_sanity() has let through.                                    *)
SaneInv ==
    call \in {"buffers", "rounds"} =>
        /\ \A k \in DOMAIN len : len[k] # 0
        /\ Dominates(OPT_minsep) /\ Fits(OPT_minsep)

StartInv == ReadInv /\ CallInv /\ SaneInv

LEMMA StartInitInv == StartInit => StartInv
<1> SUFFICES ASSUME StartInit PROVE StartInv
  OBVIOUS
<1>1. ReadInv
  BY CommandLinesAssumption, DefaultAssumption DEF StartInit, ReadInv
<1>2. CallInv /\ SaneInv
  BY DEF StartInit, PosInit, CallInv, SaneInv
<1>3. QED
  BY <1>1, <1>2 DEF StartInv

(* The name of a file adds a warrior, and options remain numbers.          *)
LEMMA ReadArgInv == ReadInv /\ ReadArg => ReadInv'
<1> SUFFICES ASSUME ReadInv, ReadArg PROVE ReadInv'
  OBVIOUS
<1>1. /\ args # <<>> /\ args' = Tail(args) /\ args[1] \in Argument
      /\ args[1].c = "file" => args[1].n # NoNumber
  BY DEF ReadInv, ReadArg
<1>2. args[1].n # NoNumber => args[1].n \in Nat
  BY <1>1 DEF Argument
<1>3. /\ args' \in Seq(Argument)
      /\ \A k \in DOMAIN args' : args'[k].c = "file" => args'[k].n # NoNumber
  <2>1. args' \in Seq(Argument) /\ Len(args') = Len(args) - 1
    BY <1>1 DEF ReadInv
  <2>2. ASSUME NEW k \in DOMAIN args', args'[k].c = "file"
        PROVE  args'[k].n # NoNumber
    <3>1. args'[k] = args[k + 1] /\ k + 1 \in DOMAIN args
      BY <1>1, <2>1, <2>2 DEF ReadInv
    <3>2. QED
      BY <2>2, <3>1 DEF ReadInv
  <2>3. QED
    BY <2>1, <2>2
<1>4. /\ len' \in Seq(Nat) /\ NWarriors' = Len(len')
      /\ OPT_coresize' \in Nat \ {0} /\ OPT_minsep' \in Nat
  <2>1. CASE ReadName
    BY <1>1, <1>2, <2>1 DEF ReadInv, ReadName
  <2>2. CASE ReadOption
    BY <1>2, <2>2 DEF ReadInv, ReadOption, Positive
  <2>3. CASE UNCHANGED <<options, len>>
    BY <2>3 DEF ReadInv, options
  <2>4. QED
    BY <2>1, <2>2, <2>3 DEF ReadArg, ReadFlag, RefuseOption
<1>5. QED
  BY <1>3, <1>4 DEF ReadInv

(* What is about to be called after an argument.                           *)
LEMMA ReadArgCall == ReadArg => call = "readargs" /\ call' \in {"readargs", "exited"}
  BY DEF ReadArg, ReadFlag, ReadOption, RefuseOption, ReadName

(* main() gets on, or it ends.                                             *)
LEMMA StartStepInv == StartInv /\ Start => StartInv'
<1> SUFFICES ASSUME StartInv, Start PROVE StartInv'
  OBVIOUS
<1>0. ReadInv /\ CallInv /\ SaneInv
  BY DEF StartInv
<1>1. CASE ReadArg
  <2>1. CallInv' /\ SaneInv'
    BY <1>0, <1>1, ReadArgCall DEF ReadArg, posVars, CallInv, SaneInv
  <2>2. QED
    BY <1>0, <1>1, <2>1, ReadArgInv DEF StartInv
<1>2. CASE ArgsRead
  BY <1>0, <1>2
     DEF ArgsRead, options, posVars, ReadInv, CallInv, SaneInv, StartInv
<1>3. CASE AllocRelatedMemory
  <2>1. ReadInv' /\ SaneInv'
    BY <1>0, <1>3 DEF AllocRelatedMemory, options, ReadInv, SaneInv
  <2>2. /\ call = "alloc" /\ NWarriors' = NWarriors
        /\ UNCHANGED <<pos, retries1, retries2, stage>>
        /\ \/ call' = "import" /\ positions' = [i \in Warriors |-> 0]
           \/ call' \in {"exited", "crashed"}
    BY <1>3 DEF AllocRelatedMemory, options
  <2>3. CallInv'
    BY <1>0, <2>2 DEF CallInv, Warriors
  <2>4. QED
    BY <2>1, <2>3 DEF StartInv
<1>4. CASE ImportWarriors
  BY <1>0, <1>4
     DEF ImportWarriors, options, posVars, Warriors, ReadInv, CallInv, SaneInv,
         StartInv
<1>5. CASE CheckSanity
  <2> DEFINE minsep == MinSep
  <2>1. /\ OPT_minsep' = minsep /\ UNCHANGED <<posVars, args, len>>
        /\ NWarriors' = NWarriors /\ OPT_coresize' = OPT_coresize
        /\ call = "sanity" /\ call' \in {"buffers", "exited"}
        /\ call' = "buffers" =>
              /\ \A k \in DOMAIN len : len[k] # 0
              /\ Dominates(minsep) /\ Fits(minsep)
    BY <1>5 DEF CheckSanity
  <2>2. minsep \in Nat
    <3>1. OPT_coresize \in Nat /\ NWarriors \in Nat \ {0} /\ OPT_minsep \in Nat
      BY <1>0, <2>1 DEF ReadInv, CallInv
    <3>2. OPT_coresize \div NWarriors \in Nat
      BY <3>1
    <3>3. QED
      BY <3>1, <3>2, MAXLENGTHAssumption DEF MinSep
  <2> HIDE DEF minsep
  <2>3. ReadInv'
    BY <1>0, <2>1, <2>2 DEF ReadInv
  <2>4. CallInv'
    BY <1>0, <2>1 DEF CallInv, posVars, Warriors
  <2>5. SaneInv'
    BY <2>1 DEF SaneInv, Dominates, Fits
  <2>6. QED
    BY <2>3, <2>4, <2>5 DEF StartInv
<1>6. CASE SimAllocBufs
  <2>1. /\ UNCHANGED <<options, posVars, args, len>>
        /\ call = "buffers" /\ call' \in {"rounds", "exited"}
    BY <1>6 DEF SimAllocBufs
  <2>2. ReadInv' /\ SaneInv'
    BY <1>0, <2>1 DEF options, ReadInv, SaneInv, Dominates, Fits
  <2>3. PosInit /\ NWarriors \in Nat \ {0}
    BY <1>0, <2>1 DEF ReadInv, CallInv, PosInit
  <2>4. PosInv
    BY <1>0, <2>3, InitInv DEF ReadInv
  <2>5. PosInv'
    BY <2>1, <2>4, PosNextInv
  <2>6. CallInv'
    BY <1>0, <2>1, <2>5 DEF CallInv, options, posVars
  <2>7. QED
    BY <2>2, <2>6 DEF StartInv
<1>7. QED
  BY <1>1, <1>2, <1>3, <1>4, <1>5, <1>6 DEF Start

LEMMA StartNextInv ==
    StartInv /\ [StartNext]_<<options, posVars, startVars>> => StartInv'
<1> SUFFICES ASSUME StartInv, [StartNext]_<<options, posVars, startVars>>
             PROVE  StartInv'
  OBVIOUS
<1>1. CASE Start
  BY <1>1, StartStepInv
<1>2. ASSUME BeginRound \/ Place PROVE StartInv'
  <2>1. PosNext /\ UNCHANGED <<options, startVars>> /\ call = "rounds"
    BY <1>2 DEF BeginRound, Place, PosNext
  <2>2. PosInv'
    BY <2>1, PosNextInv DEF StartInv, CallInv
  <2>3. ReadInv' /\ SaneInv'
    BY <2>1 DEF options, startVars, StartInv, ReadInv, SaneInv, Dominates, Fits
  <2>4. CallInv'
    BY <2>1, <2>2 DEF startVars, CallInv
  <2>5. QED
    BY <2>3, <2>4 DEF StartInv
<1>3. CASE UNCHANGED <<options, posVars, startVars>>
  <2>1. PosInv => PosInv'
    BY <1>3, PosNextInv
  <2>2. ReadInv' /\ SaneInv'
    BY <1>3 DEF options, startVars, StartInv, ReadInv, SaneInv, Dominates, Fits
  <2>3. CallInv'
    BY <1>3, <2>1
       DEF options, posVars, startVars, Warriors, StartInv, CallInv
  <2>4. QED
    BY <2>2, <2>3 DEF StartInv
<1>4. QED
  BY <1>1, <1>2, <1>3 DEF StartNext

(* Once a round is played there is space for all warriors, unless the      *)
(* product that check_sanity() has looked at is not representable.         *)
LEMMA SpaceIsThere ==
    ASSUME StartInv, Representable, stage # "idle"
    PROVE  PosInv /\ Sane /\ \A k \in 1 .. NWarriors : len[k] \in 1 .. OPT_minsep
<1>1. call = "rounds" /\ PosInv
  BY DEF StartInv, CallInv
<1>2. /\ len \in Seq(Nat) /\ NWarriors = Len(len) /\ NWarriors \in Nat \ {0}
      /\ OPT_coresize \in Nat \ {0} /\ OPT_minsep \in Nat
      /\ Dominates(OPT_minsep) /\ Fits(OPT_minsep)
      /\ \A k \in DOMAIN len : len[k] # 0
  BY <1>1 DEF StartInv, ReadInv, SaneInv, PosInv, Indexed
<1>3. \A k \in 1 .. NWarriors : len[k] \in 1 .. OPT_minsep
  BY <1>2 DEF Dominates
<1>4. OPT_minsep # 0
  <2>1. len[1] \in 1 .. OPT_minsep
    BY <1>2, <1>3
  <2>2. QED
    BY <1>2, <2>1
<1>5. NWarriors * OPT_minsep \in 0 .. UINT - 1
  <2>1. NWarriors * OPT_minsep \in Nat
    BY <1>2
  <2>2. QED
    BY <2>1, WidthAssumption DEF Representable
<1>6. NWarriors * OPT_minsep <= OPT_coresize
  BY <1>2, <1>5, SmallUnsigned DEF Fits
<1>7. Sane
  BY <1>2, <1>4, <1>6 DEF Sane, Representable
<1>8. QED
  BY <1>1, <1>3, <1>7

-----------------------------------------------------------------------------
(* Code that does not reach the end of core.                               *)
LEMMA Unwrapped ==
    ASSUME NEW size \in Nat \ {0}, NEW p \in Nat, NEW n \in Nat, p + n <= size
    PROVE  {(p + k) % size : k \in 0 .. n - 1} = p .. p + n - 1
<1>1. ASSUME NEW k \in 0 .. n - 1
      PROVE  (p + k) % size = p + k
  <2>1. p + k \in 0 .. size - 1
    OBVIOUS
  <2>2. QED
    BY <2>1
<1>2. {(p + k) % size : k \in 0 .. n - 1} = {p + k : k \in 0 .. n - 1}
  BY <1>1
<1>3. ASSUME NEW a \in p .. p + n - 1
      PROVE  \E k \in 0 .. n - 1 : a = p + k
  <2>1. a - p \in 0 .. n - 1 /\ a = p + (a - p)
    OBVIOUS
  <2>2. QED
    BY <2>1
<1>4. ASSUME NEW k \in 0 .. n - 1
      PROVE  p + k \in p .. p + n - 1
  OBVIOUS
<1>5. QED
  BY <1>2, <1>3, <1>4

(* One after the other.                                                    *)
LEMMA OneAfterOther ==
    ASSUME NEW d \in Nat, NEW p \in Nat, NEW m \in 1 .. d, NEW q \in Nat,
           NEW n \in 1 .. d, p + d <= q \/ q + d <= p
    PROVE  (p .. p + m - 1) \cap (q .. q + n - 1) = {}
  OBVIOUS

(* From one of two warriors to the other there is room for code.           *)
LEMMA RoomBetween ==
    ASSUME Sane, NEW p \in 0 .. OPT_coresize - 1, NEW q \in 0 .. OPT_coresize - 1,
           Gap(p, q) >= OPT_minsep, Gap(q, p) >= OPT_minsep
    PROVE  p + OPT_minsep <= q \/ q + OPT_minsep <= p
<1>0. OPT_coresize \in Nat \ {0} /\ OPT_minsep \in Nat \ {0}
  BY DEF Sane
<1>1. p # q
  <2>1. p = q => Gap(p, q) = 0
    BY <1>0 DEF Gap
  <2>2. QED
    BY <1>0, <2>1
<1>2. CASE p < q
  BY <1>0, <1>1, <1>2, GapValue
<1>3. CASE q < p
  BY <1>0, <1>1, <1>3, GapValue
<1>4. QED
  BY <1>1, <1>2, <1>3

(* A warrior's code does not reach the end of core.                        *)
LEMMA CodeIs ==
    ASSUME Sane, NEW i \in Warriors, len[i + 1] \in 1 .. OPT_minsep,
           positions[i] \in 0 .. OPT_coresize - OPT_minsep
    PROVE  Code(i) = positions[i] .. positions[i] + len[i + 1] - 1
<1> DEFINE p == positions[i]
           n == len[i + 1]
<1>1. /\ OPT_coresize \in Nat \ {0} /\ OPT_minsep \in Nat
      /\ OPT_coresize <= FIELD /\ p \in Nat /\ n \in Nat
      /\ p + n <= OPT_coresize /\ n <= OPT_coresize
  BY DEF Sane
<1> HIDE DEF p, n
<1>2. Code(i) = {Field((p + k) % OPT_coresize) : k \in 0 .. n - 1}
  BY <1>1 DEF Code, p, n
<1>3. ASSUME NEW k \in 0 .. n - 1
      PROVE  Field((p + k) % OPT_coresize) = (p + k) % OPT_coresize
  <2>1. (p + k) % OPT_coresize \in 0 .. OPT_coresize - 1
    BY <1>1
  <2>2. (p + k) % OPT_coresize \in 0 .. FIELD - 1
    BY <1>1, <2>1, WidthAssumption
  <2>3. QED
    BY <2>2, SmallField
<1>4. Code(i) = {(p + k) % OPT_coresize : k \in 0 .. n - 1}
  BY <1>2, <1>3
<1>5. QED
  BY <1>1, <1>4, Unwrapped DEF p, n

-----------------------------------------------------------------------------
(* Every variable of the search keeps its type: what is computed from the  *)
(* position or the number of a warrior stays inside of Positions, and      *)
(* inside of core when the numbers are representable.                      *)
THEOREM PosTypeTheorem == StartSpec => []PosTypeOK
<1>1. StartInv => PosTypeOK
  <2> SUFFICES ASSUME StartInv PROVE PosTypeOK
    OBVIOUS
  <2>1. CASE stage = "idle"
    <3>1. retries1 \in 0 .. RETRIES1 /\ retries2 \in 0 .. RETRIES2
      BY RetriesAssumption DEF StartInv, CallInv, PosInv, Indexed
    <3>2. QED
      BY <2>1, <3>1 DEF PosTypeOK
  <2>2. CASE stage # "idle"
    <3>1. Indexed
      BY <2>2 DEF StartInv, CallInv, PosInv
    <3>2. CASE Representable
      BY <2>2, <3>2, SpaceIsThere, TypesFromInv
    <3>3. CASE ~Representable
      BY <3>1, <3>3 DEF Indexed, PosTypeOK
    <3>4. QED
      BY <3>2, <3>3
  <2>3. QED
    BY <2>1, <2>2
<1>2. QED
  BY <1>1, StartInitInv, StartNextInv, PTL DEF StartSpec

(* Whatever the command line is and whatever rng() returns, and whether    *)
(* posit() succeeds or npos() has to take over, the warriors of a round    *)
(* are loaded at least the minimum separation apart, around the end of     *)
(* core as well.                                                           *)
THEOREM ApartTheorem == StartSpec => []Apart
<1>1. StartInv => Apart
  <2>1. ASSUME StartInv, Representable, stage = "done" PROVE Apart
    BY <2>1, SpaceIsThere, ApartFromInv
  <2>2. QED
    BY <2>1 DEF Apart
<1>2. QED
  BY <1>1, StartInitInv, StartNextInv, PTL DEF StartSpec

(* For every command line a warrior has code when a round begins, and it   *)
(* is loaded where no other is, when the numbers are representable:        *)
(* check_sanity() compares the minimum separation with all lengths and     *)
(* with the core (exhaust.c:218-229), the assembler refuses warriors       *)
(* without code, and compute_positions() keeps the separation.             *)
THEOREM CodesApartTheorem == StartSpec => []CodesApart
<1>1. StartInv => CodesApart
  <2> SUFFICES ASSUME StartInv, Representable, stage = "done",
                      NEW i \in Warriors
               PROVE  /\ Code(i) # {}
                      /\ \A j \in Warriors \ {i} : Code(i) \cap Code(j) = {}
    BY DEF CodesApart, CodesDisjoint
  <2>0. /\ PosInv /\ Sane /\ NWarriors \in Nat /\ OPT_minsep \in Nat \ {0}
        /\ OPT_coresize \in Nat
        /\ \A k \in 1 .. NWarriors : len[k] \in 1 .. OPT_minsep
    BY SpaceIsThere DEF Sane
  <2>1. ASSUME NEW j \in Warriors
        PROVE  /\ positions[j] \in 0 .. OPT_coresize - 1
               /\ len[j + 1] \in 1 .. OPT_minsep
               /\ Code(j) = positions[j] .. positions[j] + len[j + 1] - 1
    <3>1. j + 1 \in 1 .. NWarriors
      BY <2>0 DEF Warriors
    <3>2. len[j + 1] \in 1 .. OPT_minsep
      BY <2>0, <3>1
    <3>3. positions[j] \in 0 .. OPT_coresize - OPT_minsep
      BY <2>0, SpreadIsApart
    <3>4. QED
      BY <2>0, <3>2, <3>3, CodeIs
  <2>2. ASSUME NEW j \in Warriors \ {i}
        PROVE  Code(i) \cap Code(j) = {}
    <3>1. /\ Gap(positions[i], positions[j]) >= OPT_minsep
          /\ Gap(positions[j], positions[i]) >= OPT_minsep
      BY <2>0, <2>2, SpreadIsApart
    <3>2. /\ positions[i] \in 0 .. OPT_coresize - 1
          /\ positions[j] \in 0 .. OPT_coresize - 1
      BY <2>1
    <3>3. \/ positions[i] + OPT_minsep <= positions[j]
          \/ positions[j] + OPT_minsep <= positions[i]
      BY <2>0, <3>1, <3>2, RoomBetween
    <3>4. positions[i] \in Nat /\ positions[j] \in Nat
      BY <3>2
    <3>5. /\ len[i + 1] \in 1 .. OPT_minsep /\ len[j + 1] \in 1 .. OPT_minsep
          /\ Code(i) = positions[i] .. positions[i] + len[i + 1] - 1
          /\ Code(j) = positions[j] .. positions[j] + len[j + 1] - 1
      BY <2>1
    <3>6. QED
      BY <2>0, <3>3, <3>4, <3>5, OneAfterOther
  <2>3. Code(i) # {}
    <3>1. /\ positions[i] \in Int /\ len[i + 1] \in Nat \ {0}
          /\ Code(i) = positions[i] .. positions[i] + len[i + 1] - 1
      BY <2>1
    <3>2. positions[i] \in positions[i] .. positions[i] + len[i + 1] - 1
      BY <3>1
    <3>3. QED
      BY <3>1, <3>2
  <2>4. QED
    BY <2>2, <2>3
<1>2. QED
  BY <1>1, StartInitInv, StartNextInv, PTL DEF StartSpec
=============================================================================
