-------------------------- MODULE Tournament_proofs --------------------------
(***************************************************************************)
(* Proofs about the tournament, for any number of warriors and rounds and  *)
(* any core that has room for them.  The code that is executed in a slot   *)
(* of the simulator belongs to the warrior whose p-space the slot has;     *)
(* p-space is shared by PIN and loyal to it; the results add up.           *)
(***************************************************************************)
EXTENDS Tournament, DataLemmas

P == INSTANCE Positions_proofs WITH OPT_coresize <- Coresize

USE SanityAssumption, CoresizeAssumption, TournamentAssumption,
    PSpaceSizeAssumption

-----------------------------------------------------------------------------
(* What Positions_proofs says of a tournament, in which the options are    *)
(* what check_sanity() has let through.                                    *)
PosInv == P!PosInv

LEMMA IsSane == P!Sane
  BY DEF P!Sane

LEMMA PosInitInv == PosInit => PosInv
<1> SUFFICES ASSUME PosInit PROVE PosInv
  OBVIOUS
<1>1. P!PosInit
  BY DEF PosInit, P!PosInit, Warriors, P!Warriors
<1>2. QED
  BY <1>1, NumbersAssumption, P!InitInv DEF PosInv

LEMMA PosMoveInv ==
    ASSUME PosInv, ComputePositions \/ Positioning \/ UNCHANGED loadVars
    PROVE  PosInv'
<1>1. CASE ComputePositions
  <2>1. P!ComputePositions
    BY <1>1 DEF ComputePositions, P!ComputePositions, Warriors, P!Warriors, Room,
                P!Room, RngBelow, P!RngBelow, Field, P!Field, Unsigned, P!Unsigned
  <2>2. P!PosNext
    BY <2>1 DEF P!PosNext, P!options
  <2>3. QED
    BY <2>2, NumbersAssumption, P!PosNextInv DEF PosInv
<1>2. CASE Positioning
  <2>1. P!Positioning
    <3>1. /\ Drawn = P!Drawn /\ Room = P!Room /\ RoomForOne = P!RoomForOne
          /\ Warriors = P!Warriors
      BY DEF Drawn, P!Drawn, Room, P!Room, RoomForOne, P!RoomForOne, Warriors,
             P!Warriors, RngBelow, P!RngBelow, Field, P!Field, Unsigned,
             P!Unsigned
    <3>2. RngBelow(Room) = P!RngBelow(P!Room)
      BY <3>1 DEF RngBelow, P!RngBelow
    <3>3. ASSUME NEW p \in Drawn, Posit(p) \/ Redraw(p) \/ Backtrack(p) \/ GiveUp(p)
          PROVE  P!Posit(p) \/ P!Redraw(p) \/ P!Backtrack(p) \/ P!GiveUp(p)
      BY <3>3 DEF Posit, P!Posit, Redraw, P!Redraw, Backtrack, P!Backtrack,
                  GiveUp, P!GiveUp, Overlaps, P!Overlaps, Distance, P!Distance
    <3>4. ASSUME NEW temp, NEW j, Choose(temp, j)
          PROVE  P!Choose(temp, j)
      BY <3>1, <3>4 DEF Choose, P!Choose, PlaceOf, P!PlaceOf, Field, P!Field
    <3>5. Separate => P!Separate
      BY <3>1 DEF Separate, P!Separate, Field, P!Field
    <3>6. ASSUME NEW j, Permute(j) PROVE P!Permute(j)
      BY <3>6 DEF Permute, P!Permute
    <3>7. DivideByZero => P!DivideByZero
      BY <3>1 DEF DivideByZero, P!DivideByZero
    <3>8. QED
      BY <1>2, <3>1, <3>2, <3>3, <3>4, <3>5, <3>6, <3>7
         DEF Positioning, P!Positioning
  <2>2. P!PosNext
    BY <2>1 DEF P!PosNext, P!options
  <2>3. QED
    BY <2>2, NumbersAssumption, P!PosNextInv DEF PosInv
<1>3. CASE UNCHANGED loadVars
  <2>1. UNCHANGED <<P!options, P!posVars>>
    BY <1>3 DEF loadVars, P!options, P!posVars
  <2>2. QED
    BY <2>1, NumbersAssumption, P!PosNextInv DEF PosInv
<1>4. QED
  BY <1>1, <1>2, <1>3

LEMMA PosFacts ==
    ASSUME PosInv
    PROVE  /\ PosTypeOK /\ Apart
           /\ positions \in [Warriors -> Addr]
<1>1. P!PosTypeOK /\ P!Apart
  BY IsSane, NumbersAssumption, P!TypesFromInv, P!ApartFromInv DEF PosInv
<1>2. positions \in [Warriors -> Addr]
  BY IsSane DEF PosInv, P!PosInv, P!LaidOut, P!Warriors, Warriors, Addr
<1>3. PosTypeOK
  BY <1>1 DEF PosTypeOK, P!PosTypeOK, Warriors, P!Warriors, Representable,
              P!Representable
<1>4. Apart
  BY <1>1 DEF Apart, P!Apart, Warriors, P!Warriors, Representable,
              P!Representable, Gap, P!Gap
<1>5. QED
  BY <1>2, <1>3, <1>4

(* The warriors are apart, and none reaches the end of core.               *)
LEMMA Positioned ==
    ASSUME PosInv, stage = "done", NEW i \in Warriors
    PROVE  /\ positions[i] \in 0 .. Coresize - OPT_minsep
           /\ \A j \in Warriors \ {i} :
                 Gap(positions[i], positions[j]) >= OPT_minsep
<1>1. i \in P!Warriors
  BY DEF Warriors, P!Warriors
<1>2. QED
  BY <1>1, IsSane, NumbersAssumption, P!SpreadIsApart
     DEF PosInv, Warriors, P!Warriors, Gap, P!Gap

(* The way around core from one address to another.                        *)
LEMMA GapIs ==
    ASSUME NEW a \in Addr, NEW b \in Addr, a # b
    PROVE  Gap(a, b) = IF a < b THEN b - a ELSE b - a + Coresize
  BY NumbersAssumption, P!GapValue DEF Addr, Gap, P!Gap

-----------------------------------------------------------------------------
(* The rounds that have been fought.                                       *)
Fought == IF at = "accumulate" THEN round + 1 ELSE round

(* How often warrior i is the first to execute in the first n rounds.      *)
Turns(i, n) == (n \div NWarriors) + (IF i < n % NWarriors THEN 1 ELSE 0)

(* What set_starting_order() has done.                                     *)
Ordered ==
    /\ stage = "done"
    /\ slots = [s \in Warriors |-> Shifted(s, round)]
    /\ StartPositions = [s \in Warriors |->
          (positions[Shifted(s, round)] + Start) % Coresize]

(* What the next call of main() may rely on.                               *)
RoundInv ==
    /\ at \in {"positions", "order", "fight", "accumulate"}
    /\ round \in Nat
    /\ at = "fight" => Ordered
    /\ at # "accumulate" => Results = tally
    /\ at = "accumulate" =>
          tally = [i \in Warriors |->
                     [Results[i] EXCEPT ![PGet(pspaces, i, 0)] = @ + 1]]

FirstInv ==
    /\ firsts \in [Warriors -> Nat]
    /\ \A i \in Warriors : firsts[i] = Turns(i, Fought)

TournamentInv == PosInv /\ RoundInv /\ FirstInv

-----------------------------------------------------------------------------
(* Whose code is executed.                                                 *)

(* The shift of a slot is a warrior.                                       *)
LEMMA ShiftedType ==
    ASSUME NEW s \in Warriors, NEW n \in Nat
    PROVE  Shifted(s, n) \in Warriors
<1>1. s + n \in Nat
  BY DEF Warriors
<1>2. QED
  BY <1>1, DivModType DEF Shifted, Warriors

(* An address in the code of warrior k is in nobody else's.                *)
LEMMA OwnerIs ==
    ASSUME PosInv, stage = "done", NEW k \in Warriors
    PROVE  Owner((positions[k] + Start) % Coresize) = k
<1> DEFINE a == positions[k] + Start
<1>1. /\ positions[k] \in 0 .. Coresize - OPT_minsep
      /\ Start \in 0 .. OPT_minsep - 1 /\ OPT_minsep \in 1 .. Coresize
  BY IsSane, NumbersAssumption, Positioned, P!RoomType
<1>2. a \in Addr /\ a % Coresize = a /\ positions[k] \in Addr
  BY <1>1 DEF Addr
<1>3. Gap(positions[k], a) = Start
  <2>1. a - positions[k] = Start /\ Start % Coresize = Start
    BY <1>1
  <2>2. QED
    BY <2>1 DEF Gap
<1>4. ASSUME NEW i \in Warriors \ {k}
      PROVE  ~(Gap(positions[i], a) < OPT_minsep)
  <2>1. /\ positions[i] \in 0 .. Coresize - OPT_minsep
        /\ Gap(positions[i], positions[k]) >= OPT_minsep
        /\ Gap(positions[k], positions[i]) >= OPT_minsep
    BY <1>4, Positioned
  <2>2. positions[i] \in Addr
    BY <1>1, <2>1 DEF Addr
  <2>3. positions[i] # positions[k]
    <3>1. positions[i] = positions[k] => Gap(positions[k], positions[i]) = 0
      BY <1>2 DEF Gap, Addr
    <3>2. QED
      BY <1>1, <2>1, <3>1
  <2>4. CASE positions[i] < positions[k]
    <3>1. Gap(positions[i], positions[k]) = positions[k] - positions[i]
      BY <1>2, <2>2, <2>3, <2>4, GapIs
    <3>2. positions[i] < a /\ a - positions[i] >= OPT_minsep
      BY <1>1, <2>1, <3>1
    <3>3. Gap(positions[i], a) = a - positions[i]
      BY <1>2, <2>2, <3>2, GapIs DEF Addr
    <3>4. QED
      BY <1>1, <2>1, <3>2, <3>3
  <2>5. CASE positions[k] < positions[i]
    <3>1. Gap(positions[k], positions[i]) = positions[i] - positions[k]
      BY <1>2, <2>2, <2>3, <2>5, GapIs
    <3>2. a < positions[i] /\ a - positions[i] + Coresize >= OPT_minsep
      BY <1>1, <2>1, <3>1
    <3>3. Gap(positions[i], a) = a - positions[i] + Coresize
      BY <1>2, <2>2, <3>2, GapIs DEF Addr
    <3>4. QED
      BY <1>1, <1>2, <2>1, <3>2, <3>3 DEF Addr
  <2>6. QED
    BY <1>1, <2>1, <2>3, <2>4, <2>5
<1>5. {i \in Warriors : Gap(positions[i], a) < OPT_minsep} = {k}
  BY <1>1, <1>3, <1>4
<1>6. Max({k}) = k
  BY DEF Max, Warriors
<1>7. QED
  BY <1>2, <1>5, <1>6 DEF Owner

(* The code in a slot and the p-space of the slot are the same warrior's.  *)
LEMMA ExecutedIs ==
    ASSUME PosInv, Ordered, round \in Nat, NEW s \in Warriors
    PROVE  Executed(s) = slots[s] /\ slots[s] = Shifted(s, round)
<1>1. Shifted(s, round) \in Warriors
  BY ShiftedType
<1>2. QED
  BY <1>1, OwnerIs DEF Ordered, Executed

-----------------------------------------------------------------------------
(* The invariant is kept.                                                  *)

LEMMA TournamentInit == Init => TournamentInv
<1> SUFFICES ASSUME Init PROVE TournamentInv
  OBVIOUS
<1>1. PosInv
  BY PosInitInv DEF Init
<1>2. RoundInv
  BY DEF Init, RoundInv
<1>3. 0 \div NWarriors = 0 /\ 0 % NWarriors = 0
  OBVIOUS
<1>4. FirstInv
  BY <1>3 DEF Init, FirstInv, Fought, Turns, Warriors
<1>5. QED
  BY <1>1, <1>2, <1>4 DEF TournamentInv

(* sim_mw() tells what is true, and one more warrior has been the first.   *)
LEMMA SimMwInv ==
    ASSUME TournamentInv, NEW dead \in SUBSET Warriors, SimMw(dead)
    PROVE  TournamentInv'
<1>1. /\ at = "fight" /\ at' = "accumulate" /\ round' = round /\ round \in Nat
      /\ PosInv /\ Ordered /\ Results = tally /\ Results' = Results
      /\ FirstInv
  BY DEF TournamentInv, RoundInv, SimMw
<1>2. PosInv'
  BY <1>1, PosMoveInv DEF SimMw
<1>3. RoundInv'
  <2>1. \A s \in Warriors : Executed(s) = slots[s]
    BY <1>1, ExecutedIs
  <2>2. {Executed(s) : s \in dead} = {slots[s] : s \in dead}
    BY <2>1
  <2>3. 0 % PSpace_size = 0
    BY PSpaceSizeAssumption
  <2>4. \A i \in Warriors :
           PGet(pspaces', i, 0) =
              IF i \in {Executed(s) : s \in dead} THEN 0
              ELSE NWarriors - Cardinality(dead)
    BY <2>2, <2>3 DEF SimMw, Told, PGet
  <2>5. tally' = [i \in Warriors |->
                    [Results[i] EXCEPT ![PGet(pspaces', i, 0)] = @ + 1]]
    BY <1>1, <2>4 DEF SimMw
  <2>6. QED
    BY <1>1, <2>5 DEF RoundInv
<1>4. FirstInv'
  <2>1. 0 \in Warriors /\ round % NWarriors \in Warriors
    BY <1>1, DivModType DEF Warriors
  <2>2. Executed(0) = round % NWarriors
    BY <1>1, <2>1, ExecutedIs DEF Shifted
  <2>3. /\ firsts \in [Warriors -> Nat]
        /\ firsts' = [firsts EXCEPT ![round % NWarriors] = @ + 1]
        /\ \A i \in Warriors : firsts[i] = Turns(i, round)
    BY <1>1, <2>2 DEF SimMw, FirstInv, Fought
  <2>4. ASSUME NEW i \in Warriors
        PROVE  Turns(i, round + 1) =
                  Turns(i, round) + (IF i = round % NWarriors THEN 1 ELSE 0)
    <3>1. /\ round \div NWarriors \in Int /\ round % NWarriors \in Int
          /\ 0 <= round % NWarriors /\ round % NWarriors < NWarriors
      BY <1>1, DivModType
    <3>2. i \in 0 .. NWarriors - 1
      BY DEF Warriors
    <3>3. /\ (round + 1) % NWarriors =
                IF (round % NWarriors) + 1 = NWarriors THEN 0
                ELSE (round % NWarriors) + 1
          /\ (round + 1) \div NWarriors =
                IF (round % NWarriors) + 1 = NWarriors
                THEN (round \div NWarriors) + 1 ELSE round \div NWarriors
      BY <1>1, DivSuccessor
    <3>4. QED
      BY <3>1, <3>2, <3>3 DEF Turns
  <2>5. Fought' = round + 1
    BY <1>1 DEF Fought
  <2>6. \A i \in Warriors : firsts'[i] = Turns(i, round + 1)
    BY <2>1, <2>3, <2>4
  <2>7. firsts' \in [Warriors -> Nat]
    BY <2>1, <2>3
  <2>8. QED
    BY <2>5, <2>6, <2>7 DEF FirstInv, Turns
<1>5. QED
  BY <1>2, <1>3, <1>4 DEF TournamentInv

LEMMA TournamentNext == TournamentInv /\ [Next]_vars => TournamentInv'
<1> SUFFICES ASSUME TournamentInv, [Next]_vars PROVE TournamentInv'
  OBVIOUS
<1>1. PosInv /\ RoundInv /\ FirstInv
  BY DEF TournamentInv
<1>2. ASSUME ComputePositions \/ Positioning \/ UNCHANGED loadVars
      PROVE  PosInv'
  BY <1>1, <1>2, PosMoveInv
<1>3. ASSUME UNCHANGED firsts, Fought' = Fought
      PROVE  FirstInv'
  BY <1>1, <1>3 DEF FirstInv
<1>4. CASE BeginRound
  BY <1>1, <1>2, <1>3, <1>4
     DEF BeginRound, RoundInv, Fought, TournamentInv
<1>5. CASE Place
  BY <1>1, <1>2, <1>3, <1>5
     DEF Place, RoundInv, Fought, TournamentInv
<1>6. CASE SetStartingOrder
  BY <1>1, <1>2, <1>3, <1>6
     DEF SetStartingOrder, RoundInv, Ordered, Shifted, Fought, loadVars,
         TournamentInv
<1>7. ASSUME NEW s \in Warriors, NEW a \in PAddr, Store(s, a)
      PROVE  TournamentInv'
  BY <1>1, <1>2, <1>3, <1>7
     DEF Store, RoundInv, Ordered, Shifted, Fought, loadVars, TournamentInv
<1>8. ASSUME NEW dead \in SUBSET Warriors, SimMw(dead)
      PROVE  TournamentInv'
  BY <1>8, SimMwInv
<1>9. CASE AccumulateResults
  <2>1. Results' = tally /\ tally' = tally
    BY <1>1, <1>9 DEF AccumulateResults, RoundInv
  <2>2. QED
    BY <1>1, <1>2, <1>3, <1>9, <2>1
       DEF AccumulateResults, RoundInv, Fought, TournamentInv
<1>10. CASE UNCHANGED vars
  <2>1. /\ UNCHANGED loadVars /\ UNCHANGED <<pspaces, StartPositions, slots>>
        /\ UNCHANGED <<round, Results, at, tally, firsts>>
    BY <1>10 DEF vars
  <2>2. PosInv' /\ FirstInv'
    BY <1>2, <1>3, <2>1 DEF Fought
  <2>3. stage' = stage /\ positions' = positions
    BY <2>1 DEF loadVars
  <2>4. RoundInv'
    BY <1>1, <2>1, <2>3 DEF RoundInv, Ordered, Shifted, PGet
  <2>5. QED
    BY <2>2, <2>4 DEF TournamentInv
<1>11. QED
  BY <1>4, <1>5, <1>6, <1>7, <1>8, <1>9, <1>10 DEF Next

-----------------------------------------------------------------------------
(* In every round of a tournament the warriors are loaded apart.           *)
THEOREM LoadedApart == Spec => []Apart
<1>1. TournamentInv => Apart
  BY PosFacts DEF TournamentInv
<1>2. QED
  BY <1>1, TournamentInit, TournamentNext, PTL DEF Spec

(* Results that travel through location 0 of the p-space of a slot arrive  *)
(* at the warrior whose code fought in that slot, in every round, whatever *)
(* programs have stored there.                                             *)
THEOREM ResultsTheorem == Spec => []ResultsTrue
<1>1. TournamentInv => ResultsTrue
  BY DEF TournamentInv, RoundInv, ResultsTrue
<1>2. QED
  BY <1>1, TournamentInit, TournamentNext, PTL DEF Spec

(* No warrior is the first to execute twice more often than another.       *)
THEOREM StartTheorem == Spec => []StartFair
<1>1. TournamentInv => StartFair
  <2> SUFFICES ASSUME TournamentInv, NEW i \in Warriors, NEW j \in Warriors
               PROVE  firsts[i] <= firsts[j] + 1
    BY DEF StartFair
  <2>1. Fought \in Nat
    BY DEF TournamentInv, RoundInv, Fought
  <2>2. Fought \div NWarriors \in Int
    BY <2>1, DivModType
  <2>3. firsts[i] = Turns(i, Fought) /\ firsts[j] = Turns(j, Fought)
    BY DEF TournamentInv, FirstInv
  <2>4. QED
    BY <2>2, <2>3 DEF Turns
<1>2. QED
  BY <1>1, TournamentInit, TournamentNext, PTL DEF Spec

-----------------------------------------------------------------------------
(* Sharing p-space.                                                        *)

PSpaces == [last : [Warriors -> 0 .. NWarriors], mem : [Warriors -> Warriors],
            own : [Warriors -> [PAddr -> 0 .. NWarriors]]]

(* When the warriors of group use the block of warrior i.                  *)
LentTo(ps, i, group) ==
    [last |-> ps.last, own |-> ps.own,
     mem |-> [j \in Warriors |-> IF j \in group THEN ps.mem[i] ELSE ps.mem[j]]]

LEMMA LentToType ==
    ASSUME NEW ps \in PSpaces, NEW i \in Warriors, NEW group
    PROVE  LentTo(ps, i, group) \in PSpaces
<1>1. ps.mem \in [Warriors -> Warriors]
  BY DEF PSpaces
<1>2. [j \in Warriors |-> IF j \in group THEN ps.mem[i] ELSE ps.mem[j]]
         \in [Warriors -> Warriors]
  BY <1>1
<1>3. QED
  BY <1>2 DEF LentTo, PSpaces

(* The fold in amalgamate_pspaces() lends to one after the other.          *)
LEMMA LentIs ==
    ASSUME NEW ps \in PSpaces, NEW i \in Warriors,
           NEW group \in SUBSET Warriors, i \notin group
    PROVE  Lent(ps, i, group) = LentTo(ps, i, group)
<1> DEFINE G(iter) == [s \in SUBSET group |->
               IF s = {} THEN ps
               ELSE PShare(iter[s \ {Pick(s)}], i, Pick(s))]
           fold == CHOOSE iter : iter = G(iter)
           all == [s \in SUBSET group |-> LentTo(ps, i, s)]
           Bad == {s \in SUBSET group : fold[s] # LentTo(ps, i, s)}
<1>1. LentTo(ps, i, {}) = ps
  <2>1. PICK l \in [Warriors -> 0 .. NWarriors], m \in [Warriors -> Warriors],
             o \in [Warriors -> [PAddr -> 0 .. NWarriors]] :
           ps = [last |-> l, mem |-> m, own |-> o]
    BY DEF PSpaces
  <2>2. [j \in Warriors |-> m[j]] = m
    OBVIOUS
  <2>3. QED
    BY <2>1, <2>2 DEF LentTo
<1>2. ASSUME NEW s \in SUBSET group, NEW x \in s
      PROVE  PShare(LentTo(ps, i, s \ {x}), i, x) = LentTo(ps, i, s)
  <2> DEFINE m == [j \in Warriors |-> IF j \in s \ {x} THEN ps.mem[i] ELSE ps.mem[j]]
             n == [j \in Warriors |-> IF j \in s THEN ps.mem[i] ELSE ps.mem[j]]
  <2>1. [m EXCEPT ![x] = m[i]] = n
    <3>1. x \in Warriors /\ x # i /\ m[i] = ps.mem[i]
      OBVIOUS
    <3>2. QED
      BY <3>1
  <2> HIDE DEF m, n
  <2>2. LentTo(ps, i, s \ {x}) = [last |-> ps.last, own |-> ps.own, mem |-> m]
    BY DEF LentTo, m
  <2>3. LentTo(ps, i, s) = [last |-> ps.last, own |-> ps.own, mem |-> n]
    BY DEF LentTo, n
  <2>4. ASSUME NEW l, NEW o
        PROVE  PShare([last |-> l, own |-> o, mem |-> m], i, x) =
                  [last |-> l, own |-> o, mem |-> [m EXCEPT ![x] = m[i]]]
    BY DEF PShare
  <2>5. QED
    BY <2>1, <2>2, <2>3, <2>4
<1>3. \A s \in SUBSET group : s # {} => Pick(s) \in s
  BY DEF Pick
<1>4. \E iter : iter = G(iter)
  <2>1. ASSUME NEW s \in SUBSET group
        PROVE  all[s] = IF s = {} THEN ps
                        ELSE PShare(all[s \ {Pick(s)}], i, Pick(s))
    <3>1. CASE s = {}
      BY <1>1, <3>1
    <3>2. CASE s # {}
      <4> DEFINE x == Pick(s)
      <4>1. x \in s
        BY <1>3, <3>2
      <4> HIDE DEF x
      <4>2. all[s] = LentTo(ps, i, s) /\ all[s \ {x}] = LentTo(ps, i, s \ {x})
        OBVIOUS
      <4>3. PShare(LentTo(ps, i, s \ {x}), i, x) = LentTo(ps, i, s)
        BY <1>2, <4>1
      <4> HIDE DEF all
      <4>4. all[s] = PShare(all[s \ {x}], i, x)
        BY <4>2, <4>3
      <4>5. QED
        BY <3>2, <4>4 DEF x
    <3>3. QED
      BY <3>1, <3>2
  <2>2. all = [s \in SUBSET group |-> all[s]]
    OBVIOUS
  <2> HIDE DEF all
  <2>3. all = G(all)
    BY <2>1, <2>2
  <2>4. QED
    BY <2>3
<1>5. fold = G(fold)
  <2> HIDE DEF G
  <2>1. QED
    BY <1>4
<1>6. ASSUME NEW s \in Bad
      PROVE  s # {} /\ s \ {Pick(s)} \in Bad
  <2> HIDE DEF fold
  <2>1. s \in SUBSET group /\ fold[s] # LentTo(ps, i, s)
    OBVIOUS
  <2>2. fold[s] = IF s = {} THEN ps ELSE PShare(fold[s \ {Pick(s)}], i, Pick(s))
    BY <1>5, <2>1
  <2>3. s # {}
    BY <1>1, <2>1, <2>2
  <2>4. PShare(LentTo(ps, i, s \ {Pick(s)}), i, Pick(s)) = LentTo(ps, i, s)
    BY <1>2, <1>3, <2>1, <2>3
  <2>5. fold[s \ {Pick(s)}] # LentTo(ps, i, s \ {Pick(s)})
    BY <2>1, <2>2, <2>3, <2>4
  <2>6. QED
    BY <2>1, <2>3, <2>5
<1>7. Bad = {}
  <2>1. Bad \in SUBSET (SUBSET group)
    OBVIOUS
  <2>2. IsFiniteSet(group)
    <3>1. 0 \in Int /\ NWarriors - 1 \in Int
      OBVIOUS
    <3>2. IsFiniteSet(Warriors)
      BY <3>1, FS_Interval DEF Warriors
    <3>3. QED
      BY <3>2, FS_Subset
  <2> HIDE DEF Bad
  <2>3. QED
    BY <1>6, <2>1, <2>2, NoSmallestFailure
<1>8. Lent(ps, i, group) = fold[group]
  BY DEF Lent, FoldSet, MapThenFoldSet, Pick
<1> HIDE DEF fold
<1>9. QED
  BY <1>7, <1>8

(* The warriors below n have lent their blocks: those that have equal PINs *)
(* use the same one.                                                       *)
Sharing(n, mem) ==
    /\ \A j \in Warriors : IF j < n THEN mem[j] < n ELSE mem[j] = j
    /\ \A i, j \in Warriors :
          i < n /\ j < n => (mem[i] = mem[j] <=> i = j \/ Equal(i, j))

(* Those to whom warrior n lends.                                          *)
Borrowers(n) == {j \in Warriors : j < n /\ Equal(n, j)}

LEMMA SharingGrows ==
    ASSUME NEW ps \in PSpaces, NEW n \in Warriors, Sharing(n, ps.mem)
    PROVE  Sharing(n + 1, LentTo(ps, n, Borrowers(n)).mem)
<1> DEFINE m == ps.mem
           g == Borrowers(n)
           new == [j \in Warriors |-> IF j \in g THEN m[n] ELSE m[j]]
<1>1. n \in Nat /\ Warriors \subseteq Nat
  BY DEF Warriors
<1>2. m \in [Warriors -> Warriors] /\ m[n] = n
  BY <1>1 DEF PSpaces, Sharing
<1>3. \A j \in Warriors : new[j] = IF j \in g \cup {n} THEN n ELSE m[j]
  BY <1>2
<1>4. \A j \in Warriors : j < n + 1 <=> j < n \/ j = n
  BY <1>1
<1>5. \A j \in Warriors : j \in g <=> j < n /\ Equal(n, j)
  BY DEF Borrowers
<1>6. LentTo(ps, n, g).mem = new
  BY DEF LentTo
<1> HIDE DEF m, g, new
<1>7. ASSUME NEW j \in Warriors
      PROVE  IF j < n + 1 THEN new[j] < n + 1 ELSE new[j] = j
  <2>1. m[j] \in Nat /\ j \in Nat
    BY <1>1, <1>2
  <2>2. CASE j < n
    <3>1. m[j] < n
      BY <2>2 DEF Sharing, m
    <3>2. QED
      BY <1>1, <1>3, <2>1, <2>2, <3>1
  <2>3. CASE ~(j < n)
    <3>1. m[j] = j /\ j \notin g
      BY <1>5, <2>3 DEF Sharing, m
    <3>2. QED
      BY <1>1, <1>3, <2>1, <2>3, <3>1
  <2>4. QED
    BY <2>2, <2>3
<1>8. ASSUME NEW i \in Warriors, NEW j \in Warriors, i < n + 1, j < n + 1
      PROVE  new[i] = new[j] <=> i = j \/ Equal(i, j)
  <2>1. ASSUME NEW k \in Warriors, NEW l \in Warriors, k \in g \cup {n},
               l < n + 1, l \notin g \cup {n}
        PROVE  new[k] # new[l] /\ k # l /\ ~Equal(k, l) /\ ~Equal(l, k)
    <3>1. l < n /\ ~Equal(n, l)
      BY <1>4, <1>5, <2>1
    <3>2. m[l] < n /\ m[l] \in Nat
      BY <1>1, <1>2, <3>1 DEF Sharing, m
    <3>3. new[k] = n /\ new[l] = m[l]
      BY <1>3, <2>1
    <3>4. k = n \/ Equal(n, k)
      BY <1>5, <2>1
    <3>5. QED
      BY <1>1, <2>1, <3>1, <3>2, <3>3, <3>4 DEF Equal
  <2>2. CASE i \in g \cup {n} /\ j \in g \cup {n}
    <3>1. new[i] = new[j]
      BY <1>3, <2>2
    <3>2. (i = n \/ Equal(n, i)) /\ (j = n \/ Equal(n, j))
      BY <1>5, <2>2
    <3>3. QED
      BY <3>1, <3>2 DEF Equal
  <2>3. CASE i \notin g \cup {n} /\ j \notin g \cup {n}
    <3>1. i < n /\ j < n
      BY <1>4, <1>8, <2>3
    <3>2. m[i] = m[j] <=> i = j \/ Equal(i, j)
      BY <3>1 DEF Sharing, m
    <3>3. QED
      BY <1>3, <2>3, <3>2
  <2>4. CASE i \in g \cup {n} /\ j \notin g \cup {n}
    BY <1>8, <2>1, <2>4
  <2>5. CASE i \notin g \cup {n} /\ j \in g \cup {n}
    BY <1>8, <2>1, <2>5
  <2>6. QED
    BY <2>2, <2>3, <2>4, <2>5
<1>9. Sharing(n + 1, new)
  BY <1>7, <1>8 DEF Sharing
<1>10. QED
  BY <1>6, <1>9 DEF g

(* Amalgamation changes nothing but whose block a warrior uses.            *)
LEMMA AmalgamatedIs ==
    ASSUME NEW ps \in PSpaces, ps.mem = [j \in Warriors |-> j]
    PROVE  /\ Amalgamated(ps) \in PSpaces
           /\ Amalgamated(ps).last = ps.last /\ Amalgamated(ps).own = ps.own
           /\ Sharing(NWarriors, Amalgamated(ps).mem)
<1> DEFINE lent(q, k) == Lent(q, k - 1, {j \in Warriors : j < k - 1 /\ Equal(k - 1, j)})
           F(step) == [k \in 0 .. NWarriors |-> IF k = 0 THEN ps ELSE lent(step[k - 1], k)]
           step == CHOOSE s : s = F(s)
           after(q, k) == LentTo(q, k - 1, Borrowers(k - 1))
<1>1. ASSUME NEW q \in PSpaces, NEW k \in 1 .. NWarriors
      PROVE  lent(q, k) = after(q, k) /\ after(q, k) \in PSpaces
  <2>1. k - 1 \in Warriors /\ Borrowers(k - 1) \in SUBSET Warriors
        /\ k - 1 \notin Borrowers(k - 1)
    BY DEF Warriors, Borrowers
  <2>2. Lent(q, k - 1, Borrowers(k - 1)) = after(q, k)
    BY <2>1, LentIs
  <2>3. Borrowers(k - 1) = {j \in Warriors : j < k - 1 /\ Equal(k - 1, j)}
    BY DEF Borrowers
  <2>4. lent(q, k) = Lent(q, k - 1, Borrowers(k - 1))
    BY <2>3
  <2> HIDE DEF lent
  <2>5. QED
    BY <2>1, <2>2, <2>4, LentToType
<1>2. Amalgamated(ps) = step[NWarriors]
  BY DEF Amalgamated
<1> HIDE DEF lent, after
<1>3. \E s \in [0 .. NWarriors -> PSpaces] : s = F(s)
  <2> DEFINE next == [p \in (1 .. NWarriors) \X PSpaces |-> after(p[2], p[1])]
  <2>1. /\ next \in [(1 .. NWarriors) \X PSpaces -> PSpaces]
        /\ \A k \in 1 .. NWarriors, q \in PSpaces : next[<<k, q>>] = lent(q, k)
    BY <1>1
  <2> HIDE DEF next
  <2>2. PICK chain \in [0 .. NWarriors -> PSpaces] :
           IsChain(chain, NWarriors, ps, next)
    <3>1. NWarriors \in Nat
      OBVIOUS
    <3>2. QED
      BY <2>1, <3>1, ChainExists
  <2>3. ASSUME NEW k \in 0 .. NWarriors
        PROVE  chain[k] = IF k = 0 THEN ps ELSE lent(chain[k - 1], k)
    <3>1. k # 0 => k \in 1 .. NWarriors /\ k - 1 \in 0 .. NWarriors
      OBVIOUS
    <3>2. QED
      BY <2>1, <2>2, <3>1 DEF IsChain
  <2>4. chain = F(chain)
    BY <2>3
  <2>5. QED
    BY <2>4
<1>4. step = F(step)
  <2> HIDE DEF F
  <2>1. QED
    BY <1>3
<1> HIDE DEF step
<1> DEFINE Fine(k) == /\ step[k] \in PSpaces /\ Sharing(k, step[k].mem)
                      /\ step[k].last = ps.last /\ step[k].own = ps.own
           Bad == {k \in 0 .. NWarriors : ~Fine(k)}
<1>5. Fine(0)
  <2>1. step[0] = ps
    BY <1>4
  <2>2. Sharing(0, ps.mem)
    BY DEF Sharing, Warriors
  <2>3. QED
    BY <2>1, <2>2
<1>6. ASSUME NEW k \in 1 .. NWarriors, Fine(k - 1)
      PROVE  Fine(k)
  <2>1. step[k] = lent(step[k - 1], k)
    BY <1>4
  <2>2. step[k] = after(step[k - 1], k) /\ step[k] \in PSpaces
    BY <1>1, <1>6, <2>1
  <2>3. k - 1 \in Warriors /\ (k - 1) + 1 = k
    BY DEF Warriors
  <2>4. Sharing(k, step[k].mem)
    BY <1>6, <2>2, <2>3, SharingGrows DEF after
  <2>5. step[k].last = step[k - 1].last /\ step[k].own = step[k - 1].own
    BY <2>2 DEF after, LentTo
  <2>6. QED
    BY <1>6, <2>2, <2>4, <2>5
<1> HIDE DEF Fine
<1>7. Bad = {}
  <2>1. Bad \in SUBSET Nat
    OBVIOUS
  <2>2. ASSUME NEW k \in Bad
        PROVE  k # 0 /\ k - 1 \in Bad
    <3>1. k \in 0 .. NWarriors /\ ~Fine(k) /\ k # 0
      BY <1>5
    <3>2. k \in 1 .. NWarriors /\ k - 1 \in 0 .. NWarriors
      BY <3>1
    <3>3. QED
      BY <1>6, <3>1, <3>2
  <2> HIDE DEF Bad
  <2>3. QED
    BY <2>1, <2>2, NoLeastFailure
<1>8. NWarriors \in 0 .. NWarriors
  OBVIOUS
<1>9. Fine(NWarriors)
  BY <1>7, <1>8
<1>10. QED
  BY <1>2, <1>9 DEF Fine

-----------------------------------------------------------------------------
(* What p-spaces contain.                                                  *)

MemoryInv ==
    /\ pin \in [Warriors -> Pins \cup {NoPin}]
    /\ pspaces \in PSpaces
    /\ PinsShare /\ PSpaceLoyal

BookInv ==
    /\ StartPositions \in [Warriors -> Addr] /\ slots \in [Warriors -> Warriors]
    /\ round \in 0 .. OPT_rounds /\ (at # "positions" => round < OPT_rounds)
    /\ Results \in Counts /\ tally \in Counts

LEMMA SharingIsPinsShare ==
    ASSUME Sharing(NWarriors, pspaces.mem)
    PROVE  PinsShare
<1>1. \A j \in Warriors : j < NWarriors
  BY DEF Warriors
<1>2. QED
  BY <1>1 DEF Sharing, PinsShare

(* The blocks that sim_alloc_bufs() has cleared are shared by PIN.         *)
LEMMA MemoryInit ==
    ASSUME Init
    PROVE  MemoryInv
<1> DEFINE zeros == [a \in PAddr |-> 0]
           bare == [last |-> [i \in Warriors |-> 0], mem |-> [i \in Warriors |-> i],
                    own |-> [i \in Warriors |-> <<>>]]
           ps == [last |-> [i \in Warriors |-> NWarriors],
                  mem |-> [i \in Warriors |-> i], own |-> [i \in Warriors |-> zeros]]
<1>1. Allocated = ps
  <2>1. Allocated = PCleared(bare, NWarriors)
    BY DEF Allocated
  <2>2. ASSUME NEW l, NEW m, NEW o
        PROVE  PCleared([last |-> l, mem |-> m, own |-> o], NWarriors) =
                  [last |-> [i \in DOMAIN l |-> NWarriors], mem |-> m,
                   own |-> [i \in DOMAIN o |->
                      IF \E j \in DOMAIN m : m[j] = i THEN zeros ELSE o[i]]]
    <3> DEFINE r == [last |-> l, mem |-> m, own |-> o]
               u == [i \in DOMAIN r.last |-> NWarriors]
               v == [i \in DOMAIN r.own |->
                       IF \E j \in DOMAIN r.mem : r.mem[j] = i THEN zeros
                       ELSE r.own[i]]
    <3>1. PCleared(r, NWarriors) = [r EXCEPT !.last = u, !.own = v]
      BY Zenon DEF PCleared
    <3>2. r.last = l /\ r.mem = m /\ r.own = o
      OBVIOUS
    <3> HIDE DEF u, v
    <3>3. PCleared(r, NWarriors) = [last |-> u, mem |-> m, own |-> v]
      BY <3>1
    <3> USE DEF u, v
    <3>4. u = [i \in DOMAIN l |-> NWarriors]
      BY <3>2, Zenon
    <3>5. v = [i \in DOMAIN o |->
                 IF \E j \in DOMAIN m : m[j] = i THEN zeros ELSE o[i]]
      BY <3>2, Zenon
    <3> HIDE DEF u, v
    <3>6. QED
      BY <3>3, <3>4, <3>5
  <2> DEFINE l == [i \in Warriors |-> 0]
             m == [i \in Warriors |-> i]
             o == [i \in Warriors |-> <<>>]
  <2>3. [i \in DOMAIN l |-> NWarriors] = ps.last
    OBVIOUS
  <2>4. [i \in DOMAIN o |-> IF \E j \in DOMAIN m : m[j] = i THEN zeros ELSE o[i]]
           = ps.own
    <3>1. DOMAIN o = Warriors /\ \A i \in Warriors : \E j \in DOMAIN m : m[j] = i
      OBVIOUS
    <3> HIDE DEF zeros, m, o
    <3>2. QED
      BY <3>1
  <2>5. bare = [last |-> l, mem |-> m, own |-> o]
        /\ ps = [last |-> ps.last, mem |-> m, own |-> ps.own]
    OBVIOUS
  <2> HIDE DEF l, m, o, bare, ps, zeros
  <2>6. QED
    BY <2>1, <2>2, <2>3, <2>4, <2>5 DEF zeros
<1>2. ps \in PSpaces /\ ps.mem = [i \in Warriors |-> i]
  <2>1. zeros \in [PAddr -> 0 .. NWarriors] /\ NWarriors \in 0 .. NWarriors
    OBVIOUS
  <2> HIDE DEF zeros
  <2>2. QED
    BY <2>1 DEF PSpaces
<1>3. \A i \in Warriors, a \in PAddr : ps.own[i][a] = 0
  OBVIOUS
<1> HIDE DEF ps
<1>4. pspaces = Amalgamated(ps)
  BY <1>1 DEF Init
<1>5. /\ pspaces \in PSpaces /\ pspaces.own = ps.own
      /\ Sharing(NWarriors, pspaces.mem)
  BY <1>2, <1>4, AmalgamatedIs
<1>6. PinsShare
  BY <1>5, SharingIsPinsShare
<1>7. ASSUME NEW i \in Warriors, NEW a \in PAddr \ {0}
      PROVE  PGet(pspaces, i, a) = 0
  <2>1. a % PSpace_size = a
    BY DEF PAddr
  <2>2. pspaces.mem[i] \in Warriors
    BY <1>5 DEF PSpaces
  <2>3. QED
    BY <1>3, <1>5, <2>1, <2>2 DEF PGet
<1>8. PSpaceLoyal
  BY <1>7 DEF PSpaceLoyal
<1>9. QED
  BY <1>5, <1>6, <1>8 DEF MemoryInv, Init

(* A program finds the block of its warrior wherever it is executed.       *)
LEMMA StoreMemory ==
    ASSUME MemoryInv, NEW w \in Warriors, NEW a \in PAddr,
           pspaces' = PSet(pspaces, w, a, Name(w)), UNCHANGED pin
    PROVE  MemoryInv'
<1>1. /\ pspaces \in PSpaces /\ pin \in [Warriors -> Pins \cup {NoPin}]
      /\ PinsShare /\ PSpaceLoyal
  BY DEF MemoryInv
<1>2. Name(w) \in 0 .. NWarriors
  BY DEF Name, Warriors
<1>3. \A b \in PAddr : b % PSpace_size = b
  BY DEF PAddr
<1>4. PICK l \in [Warriors -> 0 .. NWarriors], m \in [Warriors -> Warriors],
           o \in [Warriors -> [PAddr -> 0 .. NWarriors]] :
         pspaces = [last |-> l, mem |-> m, own |-> o]
  BY <1>1 DEF PSpaces
<1>5. \A i \in Warriors, j \in Warriors : m[i] = m[j] <=> i = j \/ Equal(i, j)
  BY <1>1, <1>4 DEF PinsShare
<1>6. \A i \in Warriors, b \in PAddr \ {0} :
         \/ o[m[i]][b] \in {0, Name(i)}
         \/ \E j \in Warriors : Equal(i, j) /\ o[m[i]][b] = Name(j)
  BY <1>1, <1>3, <1>4 DEF PSpaceLoyal, PGet
<1>7. \A i, j : Equal(i, j)' <=> Equal(i, j)
  BY DEF Equal
<1>8. CASE a = 0
  <2>1. PSet(pspaces, w, a, Name(w)) = [pspaces EXCEPT !.last[w] = Name(w)]
    BY <1>3, <1>8 DEF PSet
  <2>2. pspaces' = [last |-> [l EXCEPT ![w] = Name(w)], mem |-> m, own |-> o]
    BY <1>4, <2>1
  <2>3. pspaces' \in PSpaces
    BY <1>2, <2>2 DEF PSpaces
  <2>4. PinsShare'
    BY <1>5, <1>7, <2>2 DEF PinsShare
  <2>5. \A i \in Warriors, b \in PAddr \ {0} : PGet(pspaces', i, b) = o[m[i]][b]
    BY <1>3, <2>2 DEF PGet
  <2>6. PSpaceLoyal'
    BY <1>6, <1>7, <2>5 DEF PSpaceLoyal
  <2>7. QED
    BY <1>1, <2>3, <2>4, <2>6 DEF MemoryInv
<1>9. CASE a # 0
  <2> DEFINE new == [o EXCEPT ![m[w]][a] = Name(w)]
  <2>1. PSet(pspaces, w, a, Name(w)) =
           [pspaces EXCEPT !.own[pspaces.mem[w]][a] = Name(w)]
    BY <1>3, <1>9 DEF PSet
  <2>2. pspaces' = [last |-> l, mem |-> m, own |-> new]
    BY <1>4, <2>1
  <2>3. new \in [Warriors -> [PAddr -> 0 .. NWarriors]]
    BY <1>2
  <2>4. \A i \in Warriors, b \in PAddr :
           new[m[i]][b] = IF m[i] = m[w] /\ b = a THEN Name(w) ELSE o[m[i]][b]
    OBVIOUS
  <2> HIDE DEF new
  <2>5. pspaces' \in PSpaces
    BY <2>2, <2>3 DEF PSpaces
  <2>6. PinsShare'
    BY <1>5, <1>7, <2>2 DEF PinsShare
  <2>7. \A i \in Warriors, b \in PAddr \ {0} : PGet(pspaces', i, b) = new[m[i]][b]
    BY <1>3, <2>2 DEF PGet
  <2>8. ASSUME NEW i \in Warriors, NEW b \in PAddr \ {0}
        PROVE  \/ new[m[i]][b] \in {0, Name(i)}
               \/ \E j \in Warriors : Equal(i, j) /\ new[m[i]][b] = Name(j)
    <3>1. CASE m[i] = m[w] /\ b = a
      <4>1. new[m[i]][b] = Name(w) /\ (i = w \/ Equal(i, w))
        BY <1>5, <2>4, <3>1
      <4>2. QED
        BY <4>1
    <3>2. CASE ~(m[i] = m[w] /\ b = a)
      <4>1. new[m[i]][b] = o[m[i]][b]
        BY <2>4, <3>2
      <4>2. QED
        BY <1>6, <4>1
    <3>3. QED
      BY <3>1, <3>2
  <2>9. ASSUME NEW i \in Warriors, NEW b \in PAddr \ {0}
        PROVE  \/ PGet(pspaces', i, b) \in {0, Name(i)}
               \/ \E j \in Warriors :
                     Equal(i, j)' /\ PGet(pspaces', i, b) = Name(j)
    <3>1. PGet(pspaces', i, b) = new[m[i]][b]
      BY <2>7
    <3>2. \A j \in Warriors : Equal(i, j)' <=> Equal(i, j)
      BY <1>7
    <3>3. QED
      BY <2>8, <3>1, <3>2
  <2>10. PSpaceLoyal'
    BY <2>9 DEF PSpaceLoyal, Warriors
  <2>11. QED
    BY <1>1, <2>5, <2>6, <2>10 DEF MemoryInv
<1>10. QED
  BY <1>8, <1>9

(* The dead are counted.                                                   *)
LEMMA FallenCount ==
    ASSUME NEW dead \in SUBSET Warriors
    PROVE  /\ IsFiniteSet(dead) /\ IsFiniteSet(Warriors)
           /\ Cardinality(dead) \in Nat /\ Cardinality(Warriors) = NWarriors
           /\ NWarriors - Cardinality(dead) \in 0 .. NWarriors
<1>1. 0 \in Int /\ NWarriors - 1 \in Int /\ ~(0 > NWarriors - 1)
  OBVIOUS
<1>2. /\ IsFiniteSet(0 .. NWarriors - 1)
      /\ Cardinality(0 .. NWarriors - 1) = (NWarriors - 1) - 0 + 1
  BY <1>1, FS_Interval
<1>3. IsFiniteSet(Warriors) /\ Cardinality(Warriors) = NWarriors
  BY <1>1, <1>2 DEF Warriors
<1>4. /\ IsFiniteSet(dead) /\ Cardinality(dead) \in Nat
      /\ Cardinality(dead) <= NWarriors
  BY <1>3, FS_Subset, FS_CardinalityType
<1>5. QED
  BY <1>3, <1>4

(* sim_mw() touches location 0 only.                                       *)
LEMMA ToldMemory ==
    ASSUME MemoryInv, NEW dead \in SUBSET Warriors,
           pspaces' = Told(pspaces, dead), UNCHANGED pin
    PROVE  MemoryInv'
<1>1. /\ pspaces \in PSpaces /\ pin \in [Warriors -> Pins \cup {NoPin}]
      /\ PinsShare /\ PSpaceLoyal
  BY DEF MemoryInv
<1>2. NWarriors - Cardinality(dead) \in 0 .. NWarriors
  BY FallenCount
<1>3. pspaces' \in PSpaces
  <2> DEFINE l == [i \in Warriors |-> IF i \in {slots[s] : s \in dead} THEN 0
                                      ELSE NWarriors - Cardinality(dead)]
  <2>1. l \in [Warriors -> 0 .. NWarriors]
    BY <1>2
  <2> HIDE DEF l
  <2>2. [last |-> l, mem |-> pspaces.mem, own |-> pspaces.own] \in PSpaces
    BY <1>1, <2>1 DEF PSpaces
  <2>3. QED
    BY <2>2 DEF Told, l
<1>4. pspaces'.mem = pspaces.mem /\ pspaces'.own = pspaces.own
  BY DEF Told
<1>5. \A i, j : Equal(i, j)' <=> Equal(i, j)
  BY DEF Equal
<1>6. PinsShare'
  BY <1>1, <1>4, <1>5 DEF PinsShare
<1>7. \A i \in Warriors, b \in PAddr \ {0} : PGet(pspaces', i, b) = PGet(pspaces, i, b)
  <2>1. \A b \in PAddr \ {0} : b % PSpace_size # 0
    BY DEF PAddr
  <2>2. QED
    BY <1>4, <2>1 DEF PGet
<1>8. PSpaceLoyal'
  BY <1>1, <1>5, <1>7 DEF PSpaceLoyal
<1>9. QED
  BY <1>1, <1>3, <1>6, <1>8 DEF MemoryInv

-----------------------------------------------------------------------------
(* The sums of the results.                                                *)

Column(t, k) == [i \in Warriors |-> t[i][k]]

SumInv ==
    /\ \A i \in Warriors : SumOf(tally[i], 0 .. NWarriors) = Fought
    /\ \A k \in 1 .. NWarriors : SumOf(Column(tally, k), Warriors) % k = 0

(* Different slots have different warriors.                                *)
LEMMA SlotsDiffer ==
    ASSUME Ordered, round \in Nat, NEW s \in Warriors, NEW t \in Warriors, s # t
    PROVE  slots[s] # slots[t]
<1>1. s \in 0 .. NWarriors - 1 /\ t \in 0 .. NWarriors - 1
  BY DEF Warriors
<1> DEFINE x == s + round
           y == t + round
<1>2. /\ x \in Nat /\ y \in Nat /\ x # y
      /\ x < y + NWarriors /\ y < x + NWarriors
  BY <1>1
<1>3. slots[s] = x % NWarriors /\ slots[t] = y % NWarriors
  BY DEF Ordered, Shifted
<1> HIDE DEF x, y
<1>4. x < y \/ y < x
  BY <1>2
<1>5. x % NWarriors # y % NWarriors
  <2>1. CASE x < y
    BY <1>2, <2>1, ModDiffer
  <2>2. CASE y < x
    BY <1>2, <2>2, ModDiffer
  <2>3. QED
    BY <1>4, <2>1, <2>2
<1>6. QED
  BY <1>3, <1>5

(* The warriors in the slots in dead.                                      *)
Fallen(dead) == {slots[s] : s \in dead}

LEMMA FallenSize ==
    ASSUME Ordered, round \in Nat, NEW dead \in SUBSET Warriors
    PROVE  /\ Fallen(dead) \in SUBSET Warriors
           /\ Cardinality(Warriors \ Fallen(dead)) = NWarriors - Cardinality(dead)
<1> DEFINE T == Fallen(dead)
           f == [s \in dead |-> slots[s]]
<1>1. T \in SUBSET Warriors
  <2>1. \A s \in Warriors : slots[s] \in Warriors
    BY ShiftedType DEF Ordered
  <2>2. QED
    BY <2>1 DEF Fallen
<1>2. f \in Bijection(dead, T)
  <2>1. \A s, t \in dead : s # t => slots[s] # slots[t]
    BY SlotsDiffer
  <2>2. QED
    BY <2>1 DEF Fallen, Bijection, Injection, Surjection, IsInjective
<1>3. ExistsBijection(dead, T)
  <2> HIDE DEF f, T
  <2>1. QED
    BY <1>2 DEF ExistsBijection
<1>4. /\ IsFiniteSet(dead) /\ IsFiniteSet(Warriors)
      /\ Cardinality(Warriors) = NWarriors
  BY FallenCount
<1> HIDE DEF T, f
<1>5. Cardinality(T) = Cardinality(dead)
  BY <1>3, <1>4, FS_Bijection
<1>6. Cardinality(Warriors \ T) = Cardinality(Warriors) - Cardinality(Warriors \cap T)
  BY <1>4, FS_Difference
<1>7. Warriors \cap T = T
  BY <1>1
<1>8. QED
  BY <1>1, <1>4, <1>5, <1>6, <1>7 DEF T

(* A battle that k warriors survive counts once for each warrior, and k    *)
(* times as one that k warriors survive.                                   *)
Counted(t, A, k0) ==
    [i \in Warriors |-> LET k == IF i \in A THEN k0 ELSE 0
                        IN  [t[i] EXCEPT ![k] = @ + 1]]

LEMMA TallyGrows ==
    ASSUME NEW t \in Counts, NEW A \in SUBSET Warriors, NEW k0 \in 0 .. NWarriors,
           NEW u, u = Counted(t, A, k0)
    PROVE  /\ u \in Counts
           /\ \A i \in Warriors : SumOf(u[i], 0 .. NWarriors) =
                                     SumOf(t[i], 0 .. NWarriors) + 1
           /\ \A k \in 1 .. NWarriors :
                 SumOf(Column(u, k), Warriors) =
                    SumOf(Column(t, k), Warriors)
                       + (IF k = k0 THEN Cardinality(A) ELSE 0)
<1> DEFINE K(i) == IF i \in A THEN k0 ELSE 0
<1>1. /\ \A i \in Warriors : t[i] \in [0 .. NWarriors -> Nat]
      /\ \A i \in Warriors : K(i) \in 0 .. NWarriors
  BY DEF Counts
<1>2. u = [i \in Warriors |-> [t[i] EXCEPT ![K(i)] = @ + 1]]
  BY DEF Counted
<1> HIDE DEF K
<1>3. /\ \A i \in Warriors : u[i] \in [0 .. NWarriors -> Nat]
      /\ \A i \in Warriors, k \in 0 .. NWarriors :
            u[i][k] = IF k = K(i) THEN t[i][k] + 1 ELSE t[i][k]
  <2>1. ASSUME NEW i \in Warriors
        PROVE  /\ u[i] \in [0 .. NWarriors -> Nat]
               /\ \A k \in 0 .. NWarriors :
                     u[i][k] = IF k = K(i) THEN t[i][k] + 1 ELSE t[i][k]
    <3> DEFINE f == t[i]
               g == u[i]
               c == K(i)
    <3>1. f \in [0 .. NWarriors -> Nat] /\ c \in 0 .. NWarriors
      BY <1>1
    <3>2. g = [f EXCEPT ![c] = f[c] + 1]
      BY <1>2
    <3> HIDE DEF f, g, c
    <3>3. /\ g \in [0 .. NWarriors -> Nat]
          /\ \A k \in 0 .. NWarriors : g[k] = IF k = c THEN f[k] + 1 ELSE f[k]
      BY <3>1, <3>2
    <3>4. QED
      BY <3>3 DEF f, g, c
  <2>2. QED
    BY <2>1
<1>4. u \in Counts
  BY <1>2, <1>3 DEF Counts
<1>5. IsFiniteSet(0 .. NWarriors) /\ IsFiniteSet(Warriors)
  <2>1. 0 \in Int /\ NWarriors \in Int
    OBVIOUS
  <2>2. QED
    BY <2>1, FS_Interval, FallenCount
<1>6. ASSUME NEW i \in Warriors
      PROVE  SumOf(u[i], 0 .. NWarriors) = SumOf(t[i], 0 .. NWarriors) + 1
  <2> DEFINE S == 0 .. NWarriors
             f == t[i]
             g == u[i]
             B == {K(i)}
  <2>1. /\ f \in [S -> Nat] /\ g \in [S -> Nat] /\ B \in SUBSET S
        /\ \A x \in S : g[x] = IF x \in B THEN f[x] + 1 ELSE f[x]
    BY <1>1, <1>3
  <2>2. Cardinality(B) = 1
    BY FS_Singleton
  <2>3. IsFiniteSet(S)
    BY <1>5
  <2> HIDE DEF S, f, g, B
  <2>4. SumOf(g, S) = SumOf(f, S) + Cardinality(B)
    BY <2>1, <2>3, SumGrows
  <2>5. QED
    BY <2>2, <2>4 DEF S, f, g
<1>7. ASSUME NEW k \in 1 .. NWarriors
      PROVE  SumOf(Column(u, k), Warriors) =
                SumOf(Column(t, k), Warriors)
                   + (IF k = k0 THEN Cardinality(A) ELSE 0)
  <2> DEFINE S == Warriors
             f == Column(t, k)
             g == Column(u, k)
             B == IF k = k0 THEN A ELSE {}
  <2>1. k \in 0 .. NWarriors /\ k # 0
    OBVIOUS
  <2>2. f \in [S -> Nat] /\ g \in [S -> Nat]
    BY <1>1, <1>3, <2>1 DEF Column
  <2>3. \A i \in S : k = K(i) <=> i \in B
    BY <2>1 DEF K
  <2>4. \A i \in S : g[i] = IF i \in B THEN f[i] + 1 ELSE f[i]
    BY <1>3, <2>1, <2>3 DEF Column
  <2>5. B \in SUBSET S /\ Cardinality(B) = IF k = k0 THEN Cardinality(A) ELSE 0
    BY FS_EmptySet
  <2>6. IsFiniteSet(S)
    BY <1>5
  <2> HIDE DEF S, f, g, B
  <2>7. SumOf(g, S) = SumOf(f, S) + Cardinality(B)
    BY <2>2, <2>4, <2>5, <2>6, SumGrows
  <2>8. QED
    BY <2>5, <2>7 DEF S, f, g
<1>8. QED
  BY <1>4, <1>6, <1>7

LEMMA SumsInit ==
    ASSUME Init
    PROVE  SumInv /\ Zero \in Counts
<1>1. Zero \in Counts
  BY DEF Zero, Counts
<1>2. IsFiniteSet(0 .. NWarriors) /\ IsFiniteSet(Warriors)
  <2>1. 0 \in Int /\ NWarriors \in Int
    OBVIOUS
  <2>2. QED
    BY <2>1, FS_Interval, FallenCount
<1>3. ASSUME NEW i \in Warriors
      PROVE  SumOf(Zero[i], 0 .. NWarriors) = 0
  <2> DEFINE S == 0 .. NWarriors
             f == Zero[i]
  <2>1. f \in [S -> Nat] /\ \A x \in S : f[x] = 0
    BY DEF Zero
  <2>2. IsFiniteSet(S)
    BY <1>2
  <2> HIDE DEF S, f
  <2>3. SumOf(f, S) = 0
    BY <2>1, <2>2, SumZero
  <2>4. QED
    BY <2>3 DEF S, f
<1>4. ASSUME NEW k \in 1 .. NWarriors
      PROVE  SumOf(Column(Zero, k), Warriors) = 0
  <2> DEFINE f == Column(Zero, k)
  <2>1. f \in [Warriors -> Nat] /\ \A x \in Warriors : f[x] = 0
    BY DEF Zero, Column
  <2> HIDE DEF f
  <2>2. SumOf(f, Warriors) = 0
    BY <1>2, <2>1, SumZero
  <2>3. QED
    BY <2>2 DEF f
<1>5. \A k \in 1 .. NWarriors : 0 % k = 0
  OBVIOUS
<1>6. tally = Zero /\ Fought = 0
  BY DEF Init, Fought
<1>7. QED
  BY <1>1, <1>3, <1>4, <1>5, <1>6 DEF SumInv

(* What sim_mw() adds.                                                     *)
LEMMA SimMwSums ==
    ASSUME TournamentInv, BookInv, SumInv, NEW dead \in SUBSET Warriors, SimMw(dead)
    PROVE  SumInv' /\ tally' \in Counts
<1>1. /\ at = "fight" /\ at' = "accumulate" /\ round' = round /\ round \in Nat
      /\ PosInv /\ Ordered /\ tally \in Counts
  BY DEF TournamentInv, RoundInv, SimMw, BookInv
<1> DEFINE k0 == NWarriors - Cardinality(dead)
           A == Warriors \ Fallen(dead)
<1>2. A \in SUBSET Warriors /\ k0 \in 0 .. NWarriors /\ Cardinality(A) = k0
  BY <1>1, FallenSize, FallenCount
<1>3. tally' = Counted(tally, A, k0)
  <2>1. \A s \in Warriors : Executed(s) = slots[s]
    BY <1>1, ExecutedIs
  <2>2. {Executed(s) : s \in dead} = Fallen(dead)
    BY <2>1 DEF Fallen
  <2>3. tally' = [i \in Warriors |->
                    LET k == IF i \in Fallen(dead) THEN 0 ELSE k0
                    IN  [tally[i] EXCEPT ![k] = @ + 1]]
    BY <2>2 DEF SimMw
  <2> HIDE DEF k0
  <2>4. QED
    BY <2>3 DEF Counted
<1> HIDE DEF k0, A
<1>4. /\ tally' \in Counts
      /\ \A i \in Warriors : SumOf(tally'[i], 0 .. NWarriors) =
                                SumOf(tally[i], 0 .. NWarriors) + 1
      /\ \A k \in 1 .. NWarriors :
            SumOf(Column(tally', k), Warriors) =
               SumOf(Column(tally, k), Warriors)
                  + (IF k = k0 THEN Cardinality(A) ELSE 0)
  BY <1>1, <1>2, <1>3, TallyGrows
<1>5. Fought = round /\ Fought' = round + 1
  BY <1>1 DEF Fought
<1>6. ASSUME NEW k \in 1 .. NWarriors
      PROVE  SumOf(Column(tally', k), Warriors) % k = 0
  <2> DEFINE x == SumOf(Column(tally, k), Warriors)
  <2>1. x \in Nat /\ x % k = 0
    <3>1. Column(tally, k) \in [Warriors -> Nat]
      BY <1>1 DEF Counts, Column
    <3>2. QED
      BY <3>1, FallenCount, SumType DEF SumInv
  <2>2. SumOf(Column(tally', k), Warriors) = x + (IF k = k0 THEN k ELSE 0)
    BY <1>2, <1>4
  <2> HIDE DEF x
  <2>3. k \in Nat \ {0}
    OBVIOUS
  <2>4. (0 + k) % k = (x + k) % k
    BY <2>1, <2>3, ModSum
  <2>5. k % k = 0
    BY <2>3, ModUnique
  <2>6. QED
    BY <2>1, <2>2, <2>3, <2>4, <2>5
<1>7. QED
  BY <1>4, <1>5, <1>6 DEF SumInv, Column

-----------------------------------------------------------------------------
(* All of it together.                                                     *)

LedgerInv == TournamentInv /\ MemoryInv /\ BookInv /\ SumInv

LEMMA LedgerInit == Init => LedgerInv
<1> SUFFICES ASSUME Init PROVE LedgerInv
  OBVIOUS
<1>1. TournamentInv /\ MemoryInv /\ SumInv /\ Zero \in Counts
  BY TournamentInit, MemoryInit, SumsInit
<1>2. 0 \in Addr /\ 0 \in 0 .. OPT_rounds
  BY DEF Addr
<1>3. BookInv
  BY <1>1, <1>2 DEF Init, BookInv
<1>4. QED
  BY <1>1, <1>3 DEF LedgerInv

(* What the steps that leave p-space and results alone need not do.        *)
LEMMA MemorySame ==
    ASSUME MemoryInv, UNCHANGED <<pin, pspaces>>
    PROVE  MemoryInv'
  BY DEF MemoryInv, PinsShare, PSpaceLoyal, PGet, Equal

LEMMA SumsSame ==
    ASSUME SumInv, UNCHANGED tally, Fought' = Fought
    PROVE  SumInv'
  BY DEF SumInv, Column

LEMMA LedgerNext == LedgerInv /\ [Next]_vars => LedgerInv'
<1> SUFFICES ASSUME LedgerInv, [Next]_vars PROVE LedgerInv'
  OBVIOUS
<1>1. TournamentInv /\ MemoryInv /\ BookInv /\ SumInv
  BY DEF LedgerInv
<1>2. TournamentInv'
  BY <1>1, TournamentNext
<1>3. CASE BeginRound
  <2>1. MemoryInv'
    BY <1>1, <1>3, MemorySame DEF BeginRound
  <2>2. SumInv'
    BY <1>1, <1>3, SumsSame DEF BeginRound, Fought
  <2>3. BookInv'
    BY <1>1, <1>3 DEF BeginRound, BookInv
  <2>4. QED
    BY <1>2, <2>1, <2>2, <2>3 DEF LedgerInv
<1>4. CASE Place
  <2>1. MemoryInv'
    BY <1>1, <1>4, MemorySame DEF Place
  <2>2. SumInv'
    BY <1>1, <1>4, SumsSame DEF Place, Fought
  <2>3. BookInv'
    BY <1>1, <1>4 DEF Place, BookInv
  <2>4. QED
    BY <1>2, <2>1, <2>2, <2>3 DEF LedgerInv
<1>5. CASE SetStartingOrder
  <2>1. MemoryInv'
    BY <1>1, <1>5, MemorySame DEF SetStartingOrder
  <2>2. SumInv'
    BY <1>1, <1>5, SumsSame DEF SetStartingOrder, Fought
  <2>3. BookInv'
    <3>1. round \in Nat /\ positions \in [Warriors -> Addr]
      BY <1>1, PosFacts DEF TournamentInv, RoundInv
    <3>2. \A s \in Warriors : Shifted(s, round) \in Warriors
      BY <3>1, ShiftedType
    <3>3. ASSUME NEW s \in Warriors
          PROVE  (positions[Shifted(s, round)] + Start) % Coresize \in Addr
      <4> DEFINE p == positions[Shifted(s, round)]
      <4>1. p \in Addr
        BY <3>1, <3>2
      <4> HIDE DEF p
      <4>2. p + Start \in Nat
        BY <4>1 DEF Addr
      <4>3. (p + Start) % Coresize \in Addr
        BY <4>2, DivModType DEF Addr
      <4>4. QED
        BY <4>3 DEF p
    <3>4. /\ StartPositions' \in [Warriors -> Addr]
          /\ slots' \in [Warriors -> Warriors]
      BY <1>5, <3>2, <3>3 DEF SetStartingOrder
    <3>5. QED
      BY <1>1, <1>5, <3>4 DEF SetStartingOrder, BookInv
  <2>4. QED
    BY <1>2, <2>1, <2>2, <2>3 DEF LedgerInv
<1>6. CASE AccumulateResults
  <2>1. MemoryInv'
    BY <1>1, <1>6, MemorySame DEF AccumulateResults
  <2>2. SumInv'
    BY <1>1, <1>6, SumsSame DEF AccumulateResults, Fought
  <2>3. BookInv'
    <3>1. Results' = tally /\ tally' = tally
      BY <1>1, <1>6 DEF AccumulateResults, TournamentInv, RoundInv
    <3>2. round + 1 \in 0 .. OPT_rounds
      BY <1>1, <1>6 DEF AccumulateResults, BookInv
    <3>3. QED
      BY <1>1, <1>6, <3>1, <3>2 DEF AccumulateResults, BookInv
  <2>4. QED
    BY <1>2, <2>1, <2>2, <2>3 DEF LedgerInv
<1>7. ASSUME NEW s \in Warriors, NEW a \in PAddr, Store(s, a)
      PROVE  LedgerInv'
  <2>1. MemoryInv'
    <3>1. Executed(s) = slots[s]
      BY <1>1, <1>7, ExecutedIs DEF Store, TournamentInv, RoundInv
    <3>2. pspaces' = PSet(pspaces, slots[s], a, Name(slots[s])) /\ UNCHANGED pin
      BY <1>7, <3>1 DEF Store
    <3>3. slots[s] \in Warriors
      BY <1>1 DEF BookInv
    <3>4. QED
      BY <1>1, <3>2, <3>3, StoreMemory
  <2>2. SumInv'
    BY <1>1, <1>7, SumsSame DEF Store, Fought
  <2>3. BookInv'
    BY <1>1, <1>7 DEF Store, BookInv
  <2>4. QED
    BY <1>2, <2>1, <2>2, <2>3 DEF LedgerInv
<1>8. ASSUME NEW dead \in SUBSET Warriors, SimMw(dead)
      PROVE  LedgerInv'
  <2>1. MemoryInv'
    BY <1>1, <1>8, ToldMemory DEF SimMw
  <2>2. SumInv' /\ tally' \in Counts
    BY <1>1, <1>8, SimMwSums
  <2>3. BookInv'
    BY <1>1, <1>8, <2>2 DEF SimMw, BookInv
  <2>4. QED
    BY <1>2, <2>1, <2>2, <2>3 DEF LedgerInv
<1>9. CASE UNCHANGED vars
  <2>1. /\ UNCHANGED <<pin, pspaces, StartPositions, slots>>
        /\ UNCHANGED <<round, Results, at, tally>>
    BY <1>9 DEF vars
  <2>2. MemoryInv'
    BY <1>1, <2>1, MemorySame
  <2>3. SumInv'
    BY <1>1, <2>1, SumsSame DEF Fought
  <2>4. BookInv'
    BY <1>1, <2>1 DEF BookInv
  <2>5. QED
    BY <1>2, <2>2, <2>3, <2>4 DEF LedgerInv
<1>10. QED
  BY <1>3, <1>4, <1>5, <1>6, <1>7, <1>8, <1>9 DEF Next

LEMMA Ledger == Spec => []LedgerInv
  BY LedgerInit, LedgerNext, PTL DEF Spec

(* The sum over a column of Results is the sum of the column's values.     *)
LEMMA ColumnSum ==
    ASSUME NEW k
    PROVE  MapThenSumSet(LAMBDA i : Results[i][k], Warriors)
              = SumOf(Column(Results, k), Warriors)
<1> DEFINE f == Column(Results, k)
           F(iter) == [s \in SUBSET Warriors |-> IF s = {} THEN 0
                        ELSE Results[Pick(s)][k] + iter[s \ {Pick(s)}]]
           G(iter) == [s \in SUBSET Warriors |-> IF s = {} THEN 0
                        ELSE f[Pick(s)] + iter[s \ {Pick(s)}]]
<1>1. \A s \in SUBSET Warriors : s # {} => Pick(s) \in s
  BY DEF Pick
<1>2. \A iter : F(iter) = G(iter)
  <2>1. \A i \in Warriors : f[i] = Results[i][k]
    BY DEF Column
  <2> HIDE DEF f
  <2>2. QED
    BY <1>1, <2>1
<1>3. MapThenSumSet(LAMBDA i : Results[i][k], Warriors)
         = (CHOOSE iter : iter = F(iter))[Warriors]
  BY DEF MapThenSumSet, MapThenFoldSet, Pick
<1>4. SumOf(f, Warriors) = (CHOOSE iter : iter = G(iter))[Warriors]
  BY DEF SumOf, MapThenSumSet, MapThenFoldSet, Pick
<1>5. QED
  <2> HIDE DEF F, G, f
  <2>1. (CHOOSE iter : iter = F(iter)) = (CHOOSE iter : iter = G(iter))
    BY <1>2
  <2>2. MapThenSumSet(LAMBDA i : Results[i][k], Warriors) = SumOf(f, Warriors)
    BY <1>3, <1>4, <2>1
  <2>3. QED
    BY <2>2 DEF f

(* Every variable keeps its type: no round is fought beyond the last, and  *)
(* no location of a p-space holds a number that is not a warrior's name or *)
(* a number of survivors.                                                  *)
THEOREM TournamentTypes == Spec => []TypeOK
<1>1. LedgerInv => TypeOK
  BY PosFacts DEF LedgerInv, TournamentInv, RoundInv, FirstInv, MemoryInv, BookInv,
         PSpaces, TypeOK
<1>2. QED
  BY <1>1, Ledger, PTL

(* amalgamate_pspaces() makes warriors share a block exactly when they     *)
(* have equal PINs, for any number of warriors and any PINs, and nothing   *)
(* that happens in a tournament undoes it.                                 *)
THEOREM ShareTheorem == Spec => []PinsShare
<1>1. LedgerInv => PinsShare
  BY DEF LedgerInv, MemoryInv
<1>2. QED
  BY <1>1, Ledger, PTL

(* What a warrior finds in p-space was left there by itself or by one that *)
(* has its PIN, although the slot in which it fights changes every round.  *)
THEOREM LoyalTheorem == Spec => []PSpaceLoyal
<1>1. LedgerInv => PSpaceLoyal
  BY DEF LedgerInv, MemoryInv
<1>2. QED
  BY <1>1, Ledger, PTL

(* Each round counts once in the results of every warrior, and a round     *)
(* that k warriors survive is counted k times as such.                     *)
THEOREM SumsTheorem == Spec => []ResultsAddUp
<1>1. LedgerInv => ResultsAddUp
  <2> SUFFICES ASSUME LedgerInv, at = "positions" PROVE
        /\ \A i \in Warriors :
              MapThenSumSet(LAMBDA k : Results[i][k], 0 .. NWarriors) = round
        /\ \A k \in 1 .. NWarriors :
              MapThenSumSet(LAMBDA i : Results[i][k], Warriors) % k = 0
    BY DEF ResultsAddUp
  <2>1. Results = tally /\ Fought = round /\ SumInv
    BY DEF LedgerInv, TournamentInv, RoundInv, Fought
  <2>2. ASSUME NEW i \in Warriors
        PROVE  MapThenSumSet(LAMBDA k : Results[i][k], 0 .. NWarriors) = round
    <3>1. SumOf(Results[i], 0 .. NWarriors) = round
      BY <2>1 DEF SumInv
    <3>2. QED
      BY <3>1 DEF SumOf
  <2>3. ASSUME NEW k \in 1 .. NWarriors
        PROVE  MapThenSumSet(LAMBDA i : Results[i][k], Warriors) % k = 0
    <3>1. SumOf(Column(Results, k), Warriors) % k = 0
      BY <2>1 DEF SumInv
    <3>2. QED
      BY <3>1, ColumnSum
  <2>4. QED
    BY <2>2, <2>3
<1>2. QED
  BY <1>1, Ledger, PTL
=============================================================================
