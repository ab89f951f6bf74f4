--------------------------- MODULE Positions_proofs ---------------------------
(***************************************************************************)
(* Lemmas about the positions of warriors: for any number of warriors that *)
(* fits into core, any separation and any numbers of retries, they are     *)
(* loaded apart from each other.  Startup_proofs and Tournament_proofs     *)
(* draw the conclusions for those who call compute_positions().            *)
(***************************************************************************)
EXTENDS Positions, TLAPS

USE RetriesAssumption, WidthAssumption

(* There is space for all warriors, and core has addresses that fit into a *)
(* field.                                                                  *)
Sane ==
    /\ NWarriors \in Nat \ {0} /\ OPT_minsep \in Nat \ {0}
    /\ OPT_coresize \in Nat \ {0}
    /\ NWarriors * OPT_minsep <= OPT_coresize /\ OPT_coresize <= FIELD

-----------------------------------------------------------------------------
(* Arithmetic.                                                             *)

(* Small numbers are stored as they are.                                   *)
LEMMA SmallField == ASSUME NEW n \in 0 .. FIELD - 1 PROVE Field(n) = n
  BY DEF Field

LEMMA SmallUnsigned == ASSUME NEW n \in 0 .. UINT - 1 PROVE Unsigned(n) = n
  BY DEF Unsigned

LEMMA FieldRange == ASSUME NEW n \in Int PROVE Field(n) \in 0 .. FIELD - 1
  BY DEF Field

LEMMA RngRange ==
    ASSUME NEW n \in Int, NEW x \in RngBelow(n)
    PROVE  x \in 0 .. n - 1
  BY DEF RngBelow

LEMMA RngNatural == ASSUME NEW n, NEW x \in RngBelow(n) PROVE x \in Nat
  BY DEF RngBelow

(* There is room for all warriors, and more than one position for each.    *)
LEMMA RoomType ==
    ASSUME Sane
    PROVE  /\ Room \in Nat \ {0}
           /\ Room - 1 + OPT_minsep * NWarriors = OPT_coresize
           /\ Room <= OPT_coresize
           /\ OPT_minsep \in 1 .. OPT_coresize
<1> DEFINE room == OPT_coresize - OPT_minsep * NWarriors + 1
<1>1. /\ NWarriors \in Nat \ {0} /\ OPT_minsep \in Nat \ {0}
      /\ OPT_coresize \in Nat \ {0} /\ OPT_coresize <= FIELD
      /\ OPT_minsep * NWarriors <= OPT_coresize
  BY DEF Sane
<1>2. OPT_minsep * NWarriors \in Nat \ {0} /\ OPT_minsep <= OPT_minsep * NWarriors
  BY <1>1
<1>3. room \in 0 .. UINT - 1 /\ room >= 1 /\ room <= OPT_coresize
  BY <1>1, <1>2
<1>4. Room = room
  BY <1>3, SmallUnsigned DEF Room
<1>5. QED
  BY <1>1, <1>2, <1>3, <1>4

(* Neither the first location nor the last have room for another warrior   *)
(* beside the one at 0.                                                    *)
LEMMA DrawnRange ==
    ASSUME Sane, NWarriors > 1, NEW p \in Drawn
    PROVE  p \in OPT_minsep .. OPT_coresize - OPT_minsep
<1> DEFINE room == OPT_coresize - 2 * OPT_minsep + 1
<1>1. /\ NWarriors \in Nat /\ NWarriors >= 2 /\ OPT_minsep \in Nat \ {0}
      /\ OPT_coresize \in Nat \ {0} /\ OPT_coresize <= FIELD
      /\ NWarriors * OPT_minsep <= OPT_coresize
  BY DEF Sane
<1>2. 2 * OPT_minsep <= NWarriors * OPT_minsep
  BY <1>1
<1>3. 2 * OPT_minsep <= OPT_coresize
  BY <1>1, <1>2
<1>4. room \in 0 .. UINT - 1
  BY <1>1, <1>3
<1>5. RoomForOne = room
  BY <1>4, SmallUnsigned DEF RoomForOne
<1>6. PICK x \in RngBelow(RoomForOne) : p = Field(x + OPT_minsep)
  BY DEF Drawn
<1>7. x \in 0 .. room - 1
  BY <1>4, <1>5, RngRange
<1>8. x + OPT_minsep \in 0 .. FIELD - 1
  BY <1>1, <1>7
<1>9. p = x + OPT_minsep
  BY <1>6, <1>8, SmallField
<1>10. QED
  BY <1>1, <1>7, <1>9

(* Warrior i + k is moved k times OPT_minsep further than warrior i.       *)
LEMMA Moved ==
    ASSUME NEW i \in Nat, NEW j \in Nat, i < j, OPT_minsep \in Nat
    PROVE  /\ i * OPT_minsep \in Nat /\ j * OPT_minsep \in Nat
           /\ i * OPT_minsep + OPT_minsep <= j * OPT_minsep
<1>1. j - i - 1 \in Nat /\ (j - i - 1) * OPT_minsep \in Nat
  OBVIOUS
<1>2. (j - i - 1) * OPT_minsep = j * OPT_minsep - i * OPT_minsep - OPT_minsep
  OBVIOUS
<1>3. QED
  BY <1>1, <1>2

(* The way around core from one address to another.                        *)
LEMMA GapValue ==
    ASSUME OPT_coresize \in Nat \ {0},
           NEW a \in 0 .. OPT_coresize - 1, NEW b \in 0 .. OPT_coresize - 1,
           a # b
    PROVE  Gap(a, b) = IF a < b THEN b - a ELSE b - a + OPT_coresize
<1>1. CASE a < b
  BY <1>1 DEF Gap
<1>2. CASE ~(a < b)
  BY <1>2 DEF Gap
<1>3. QED
  BY <1>1, <1>2

-----------------------------------------------------------------------------
(* The invariant.                                                          *)

(* What holds of the indices whatever the options are.                     *)
Indexed ==
    /\ NWarriors \in Nat \ {0} /\ OPT_minsep \in Nat /\ OPT_coresize \in Nat
    /\ positions \in [Warriors -> 0 .. FIELD - 1]
    /\ pos \in 1 .. NWarriors
    /\ retries1 \in 0 .. RETRIES1 /\ retries2 \in 0 .. RETRIES2
    /\ stage \in {"idle", "posit", "choose", "separate", "permute", "done",
                  "crashed"}
    /\ stage \in {"posit", "choose", "permute"} => pos < NWarriors
    /\ stage \in {"posit", "separate"} => NWarriors > 1

(* The first n of ps besides 0 are apart from each other, and from the     *)
(* warrior at 0 on both sides.                                             *)
Spread(ps, n) ==
    \A i \in 1 .. n :
        /\ ps[i] \in OPT_minsep .. OPT_coresize - OPT_minsep
        /\ \A j \in (1 .. n) \ {i} : Distance(ps[i], ps[j]) >= OPT_minsep

(* The first n of ps besides 0 are sorted and still without separation.    *)
Sorted(ps, n) ==
    \A i \in 1 .. n :
        /\ ps[i] \in 0 .. Room - 1
        /\ \A j \in 1 .. i : ps[j] <= ps[i]

(* What each loop may rely on when there is space for all.                 *)
LaidOut ==
    /\ positions \in [Warriors -> 0 .. OPT_coresize - 1]
    /\ positions[0] = 0
    /\ stage = "posit" => Spread(positions, pos - 1)
    /\ stage = "choose" => Sorted(positions, pos - 1)
    /\ stage = "separate" => Sorted(positions, NWarriors - 1)
    /\ stage \in {"permute", "done"} => Spread(positions, NWarriors - 1)

PosInv == Indexed /\ (Sane => LaidOut)

LEMMA InitInv ==
    ASSUME PosInit, NWarriors \in Nat \ {0}, OPT_minsep \in Nat,
           OPT_coresize \in Nat
    PROVE  PosInv
<1>1. Indexed
  BY DEF PosInit, Indexed, Warriors
<1>2. Sane => LaidOut
  BY DEF PosInit, Sane, LaidOut, Warriors
<1>3. QED
  BY <1>1, <1>2 DEF PosInv

(* Indices stay inside of Positions, and fields are fields.                *)
LEMMA IndexedNext == Indexed /\ PosNext => Indexed'
<1> SUFFICES ASSUME Indexed, PosNext PROVE Indexed'
  OBVIOUS
<1>1. /\ NWarriors' = NWarriors /\ OPT_minsep' = OPT_minsep
      /\ OPT_coresize' = OPT_coresize /\ Warriors' = Warriors
  BY DEF PosNext, options, Warriors
<1>2. /\ NWarriors \in Nat \ {0} /\ OPT_minsep \in Nat
      /\ positions \in [Warriors -> 0 .. FIELD - 1]
      /\ pos \in 1 .. NWarriors
      /\ stage \in {"posit", "choose", "permute"} =>
            pos < NWarriors /\ pos \in Warriors
  BY DEF Indexed, Warriors
<1>3. CASE ComputePositions
  <2>1. positions' \in [Warriors -> 0 .. FIELD - 1]
    <3>1. CASE NWarriors = 2
      <4>1. PICK temp \in RngBelow(Room) :
               positions' = [i \in Warriors |-> Field(i * (OPT_minsep + temp))]
        BY <1>3, <3>1 DEF ComputePositions
      <4>2. \A i \in Warriors : i * (OPT_minsep + temp) \in Int
        BY <1>2, RngNatural DEF Warriors
      <4>3. QED
        BY <4>1, <4>2, FieldRange
    <3>2. CASE NWarriors # 2
      BY <1>2, <1>3, <3>2 DEF ComputePositions
    <3>3. QED
      BY <3>1, <3>2
  <2>2. QED
    BY <1>1, <1>2, <1>3, <2>1 DEF ComputePositions, Indexed
<1>4. ASSUME NEW p \in Drawn, Posit(p) \/ Redraw(p) \/ Backtrack(p) \/ GiveUp(p)
      PROVE  Indexed'
  <2>1. p \in 0 .. FIELD - 1
    <3>1. PICK x \in RngBelow(RoomForOne) : p = Field(x + OPT_minsep)
      BY DEF Drawn
    <3>2. x + OPT_minsep \in Int
      BY <1>2, RngNatural
    <3>3. QED
      BY <3>1, <3>2, FieldRange
  <2>2. /\ stage = "posit"
        /\ positions' = [positions EXCEPT ![pos] = p]
    BY <1>4 DEF Posit, Redraw, Backtrack, GiveUp
  <2>3. positions' \in [Warriors -> 0 .. FIELD - 1]
    BY <1>2, <2>1, <2>2
  <2>4. CASE Posit(p)
    BY <1>1, <1>2, <2>3, <2>4 DEF Posit, Indexed
  <2>5. CASE Redraw(p)
    BY <1>1, <1>2, <2>3, <2>5 DEF Redraw, Indexed
  <2>6. CASE Backtrack(p)
    <3>1. pos' \in 1 .. pos - 1
      BY <2>6 DEF Backtrack, Overlaps
    <3>2. QED
      BY <1>1, <1>2, <2>3, <2>6, <3>1 DEF Backtrack, Indexed
  <2>7. CASE GiveUp(p)
    BY <1>1, <1>2, <2>3, <2>7 DEF GiveUp, Indexed
  <2>8. QED
    BY <1>4, <2>4, <2>5, <2>6, <2>7
<1>5. ASSUME NEW temp \in RngBelow(Room), NEW j \in Warriors, Choose(temp, j)
      PROVE  Indexed'
  <2>1. Field(temp) \in 0 .. FIELD - 1
    BY FieldRange, RngNatural
  <2>2. \A i \in Warriors : i > 0 => i - 1 \in Warriors
    BY <1>2 DEF Warriors
  <2>3. j \in Nat /\ pos < NWarriors
    BY <1>2, <1>5 DEF Warriors, Choose
  <2>4. positions' \in [Warriors -> 0 .. FIELD - 1]
    BY <1>2, <1>5, <2>1, <2>2, <2>3 DEF Choose, Warriors
  <2>5. QED
    BY <1>1, <1>2, <1>5, <2>3, <2>4 DEF Choose, Indexed
<1>6. CASE Separate
  <2>1. \A i \in Warriors : positions[i] + i * OPT_minsep \in Int
    BY <1>2 DEF Warriors
  <2>2. positions' \in [Warriors -> 0 .. FIELD - 1]
    BY <1>6, <2>1, FieldRange DEF Separate
  <2>3. QED
    BY <1>1, <1>2, <1>6, <2>2 DEF Separate, Indexed
<1>7. ASSUME NEW j \in Warriors, Permute(j)
      PROVE  Indexed'
  <2>1. positions' \in [Warriors -> 0 .. FIELD - 1]
    BY <1>2, <1>7 DEF Permute
  <2>2. QED
    BY <1>1, <1>2, <1>7, <2>1 DEF Permute, Indexed
<1>8. CASE DivideByZero
  BY <1>1, <1>8 DEF DivideByZero, Indexed
<1>9. QED
  BY <1>3, <1>4, <1>5, <1>6, <1>7, <1>8 DEF PosNext, Positioning

-----------------------------------------------------------------------------
(* There is space for all warriors, and positions keep their separation.   *)

(* compute_positions() begins.                                             *)
LEMMA ComputePositionsLaid ==
    ASSUME Sane, Indexed, LaidOut, UNCHANGED options, ComputePositions
    PROVE  LaidOut'
<1>0. /\ NWarriors' = NWarriors /\ OPT_minsep' = OPT_minsep
      /\ OPT_coresize' = OPT_coresize /\ Warriors' = Warriors
      /\ NWarriors \in Nat \ {0} /\ 0 \in Warriors
      /\ OPT_coresize \in Nat \ {0} /\ OPT_minsep \in Nat \ {0}
      /\ positions \in [Warriors -> 0 .. OPT_coresize - 1]
  BY DEF options, Warriors, Sane, LaidOut
<1>1. CASE NWarriors > 2
  <2>1. positions' = [positions EXCEPT ![0] = 0] /\ stage' = "posit" /\ pos' = 1
    BY <1>0, <1>1 DEF ComputePositions
  <2>2. QED
    BY <1>0, <2>1 DEF LaidOut, Spread
<1>2. CASE NWarriors = 2
  <2>1. PICK temp \in RngBelow(Room) :
           positions' = [i \in Warriors |-> Field(i * (OPT_minsep + temp))]
    BY <1>2 DEF ComputePositions
  <2>2. temp \in 0 .. Room - 1
    BY <2>1, RoomType, RngRange
  <2>3. OPT_minsep + temp \in OPT_minsep .. OPT_coresize - OPT_minsep
    BY <1>2, <2>2, RoomType
  <2>4. /\ Field(0 * (OPT_minsep + temp)) = 0
        /\ Field(1 * (OPT_minsep + temp)) = OPT_minsep + temp
    BY <1>0, <2>3, SmallField DEF Sane
  <2>5. Warriors = {0, 1}
    BY <1>2 DEF Warriors
  <2>6. /\ positions' \in [Warriors -> 0 .. OPT_coresize - 1]
        /\ positions'[0] = 0 /\ positions'[1] = OPT_minsep + temp
    BY <1>0, <2>1, <2>3, <2>4, <2>5
  <2>7. Spread(positions', NWarriors - 1)
    BY <1>2, <2>3, <2>6 DEF Spread
  <2>8. stage' = "done"
    BY <1>2 DEF ComputePositions
  <2>9. QED
    BY <1>0, <2>6, <2>7, <2>8 DEF LaidOut, Spread
<1>3. CASE NWarriors = 1
  <2>1. positions' = [positions EXCEPT ![0] = 0] /\ stage' = "done"
    BY <1>3 DEF ComputePositions
  <2>2. QED
    BY <1>0, <1>3, <2>1 DEF LaidOut, Spread
<1>4. QED
  BY <1>0, <1>1, <1>2, <1>3

(* A position that posit() has accepted.                                   *)
LEMMA PositLaid ==
    ASSUME Sane, Indexed, LaidOut, UNCHANGED options, NEW p \in Drawn, Posit(p)
    PROVE  LaidOut'
<1>0. /\ NWarriors' = NWarriors /\ OPT_minsep' = OPT_minsep
      /\ OPT_coresize' = OPT_coresize /\ Warriors' = Warriors
  BY DEF options, Warriors
<1>1. /\ pos \in 1 .. NWarriors - 1 /\ pos \in Warriors /\ NWarriors > 1
      /\ NWarriors \in Nat /\ OPT_minsep \in Nat \ {0}
      /\ OPT_coresize \in Nat \ {0} /\ 0 \in Warriors
      /\ positions \in [Warriors -> 0 .. OPT_coresize - 1] /\ positions[0] = 0
      /\ positions' = [positions EXCEPT ![pos] = p]
      /\ Spread(positions, pos - 1)
  BY DEF Sane, Indexed, LaidOut, Posit, Warriors
<1>2. p \in OPT_minsep .. OPT_coresize - OPT_minsep
  BY <1>1, DrawnRange
<1>3. \A i \in 1 .. pos - 1 : Distance(p, positions[i]) >= OPT_minsep
  <2> SUFFICES ASSUME NEW i \in 1 .. pos - 1
               PROVE  Distance(p, positions[i]) >= OPT_minsep
    OBVIOUS
  <2>1. positions[i] \in Int
    BY <1>1 DEF Warriors
  <2>2. ~(Distance(p, positions[i]) < OPT_minsep)
    BY DEF Posit, Overlaps
  <2>3. QED
    BY <1>1, <1>2, <2>1, <2>2 DEF Distance
<1>4. Spread(positions', pos)
  <2> SUFFICES ASSUME NEW i \in 1 .. pos
               PROVE  /\ positions'[i] \in OPT_minsep .. OPT_coresize - OPT_minsep
                      /\ \A j \in (1 .. pos) \ {i} :
                            Distance(positions'[i], positions'[j]) >= OPT_minsep
    BY DEF Spread
  <2>1. \A j \in 1 .. pos :
           j \in Warriors /\ positions'[j] = IF j = pos THEN p ELSE positions[j]
    BY <1>1 DEF Warriors
  <2>2. \A j \in 1 .. pos - 1 : positions[j] \in Int
    BY <1>1 DEF Warriors
  <2>3. CASE i = pos
    BY <1>1, <1>2, <1>3, <2>1, <2>3
  <2>4. CASE i # pos
    <3>1. i \in 1 .. pos - 1
      BY <1>1, <2>4
    <3>2. Distance(positions[i], p) >= OPT_minsep
      BY <1>2, <1>3, <2>2, <3>1 DEF Distance
    <3>3. QED
      BY <1>1, <2>1, <2>4, <3>1, <3>2 DEF Spread
  <2>5. QED
    BY <2>3, <2>4
<1>5. positions' \in [Warriors -> 0 .. OPT_coresize - 1] /\ positions'[0] = 0
  BY <1>1, <1>2
<1>6. /\ pos' = pos + 1
      /\ stage' = IF pos + 1 < NWarriors THEN "posit" ELSE "done"
  BY DEF Posit
<1>7. pos + 1 < NWarriors \/ pos = NWarriors - 1
  BY <1>1
<1>8. pos' - 1 = pos
  BY <1>1, <1>6
<1>9. QED
  BY <1>0, <1>4, <1>5, <1>6, <1>7, <1>8 DEF LaidOut, Spread

(* The three ways to go on after an overlap.                               *)
LEMMA OverlapLaid ==
    ASSUME Sane, Indexed, LaidOut, UNCHANGED options, NEW p \in Drawn,
           Redraw(p) \/ Backtrack(p) \/ GiveUp(p)
    PROVE  LaidOut'
<1>0. /\ NWarriors' = NWarriors /\ OPT_minsep' = OPT_minsep
      /\ OPT_coresize' = OPT_coresize /\ Warriors' = Warriors
  BY DEF options, Warriors
<1>1. /\ pos \in 1 .. NWarriors - 1 /\ pos \in Warriors /\ NWarriors > 1
      /\ OPT_minsep \in Nat \ {0} /\ OPT_coresize \in Nat \ {0}
      /\ positions \in [Warriors -> 0 .. OPT_coresize - 1] /\ positions[0] = 0
      /\ positions' = [positions EXCEPT ![pos] = p]
      /\ Spread(positions, pos - 1)
  BY DEF Sane, Indexed, LaidOut, Redraw, Backtrack, GiveUp, Warriors
<1>2. p \in OPT_minsep .. OPT_coresize - OPT_minsep
  BY <1>1, DrawnRange
<1>3. positions' \in [Warriors -> 0 .. OPT_coresize - 1] /\ positions'[0] = 0
  BY <1>1, <1>2 DEF Warriors
<1>4. \A i \in 1 .. pos - 1 : positions'[i] = positions[i]
  BY <1>1 DEF Warriors
<1>5. ASSUME NEW n \in 1 .. pos
      PROVE  Spread(positions', n - 1)
  BY <1>1, <1>4 DEF Spread
<1>6. CASE Redraw(p)
  <2>1. stage' = "posit" /\ pos' = pos
    BY <1>6 DEF Redraw
  <2>2. pos' \in 1 .. pos
    BY <1>1, <2>1
  <2>3. Spread(positions', pos' - 1)
    BY <1>5, <2>2
  <2>4. QED
    BY <1>0, <1>3, <2>1, <2>3 DEF LaidOut, Spread
<1>7. CASE Backtrack(p)
  <2>1. pos' \in 1 .. pos - 1 /\ stage' = "posit"
    BY <1>7 DEF Backtrack, Overlaps
  <2>2. pos' \in 1 .. pos
    BY <1>1, <2>1
  <2>3. Spread(positions', pos' - 1)
    BY <1>5, <2>2
  <2>4. QED
    BY <1>0, <1>3, <2>1, <2>3 DEF LaidOut, Spread
<1>8. CASE GiveUp(p)
  <2>1. pos' = 1 /\ stage' = "choose"
    BY <1>8 DEF GiveUp
  <2>2. QED
    BY <1>0, <1>3, <2>1 DEF LaidOut, Sorted
<1>9. QED
  BY <1>6, <1>7, <1>8

(* npos() inserts a number in its place.                                   *)
LEMMA ChooseLaid ==
    ASSUME Sane, Indexed, LaidOut, UNCHANGED options,
           NEW temp \in RngBelow(Room), NEW j \in Warriors, Choose(temp, j)
    PROVE  LaidOut'
<1>0. /\ NWarriors' = NWarriors /\ OPT_minsep' = OPT_minsep
      /\ OPT_coresize' = OPT_coresize /\ Warriors' = Warriors /\ Room' = Room
  BY DEF options, Warriors, Room
<1>1. temp \in 0 .. Room - 1 /\ Field(temp) = temp
  <2>1. temp \in 0 .. Room - 1
    BY RoomType, RngRange
  <2>2. temp \in 0 .. FIELD - 1
    <3>1. /\ Room \in Nat \ {0} /\ OPT_minsep \in Nat \ {0}
          /\ NWarriors \in Nat \ {0}
          /\ Room - 1 + OPT_minsep * NWarriors = OPT_coresize
          /\ OPT_coresize \in Nat /\ OPT_coresize <= FIELD
      BY RoomType DEF Sane
    <3>2. OPT_minsep * NWarriors \in Nat \ {0}
      BY <3>1
    <3>3. QED
      BY <2>1, <3>1, <3>2
  <2>3. QED
    BY <2>1, <2>2, SmallField
<1>2. temp \in 0 .. OPT_coresize - 1
  <2>1. /\ Room \in Nat \ {0} /\ OPT_minsep \in Nat \ {0}
        /\ NWarriors \in Nat \ {0} /\ OPT_coresize \in Nat
        /\ Room - 1 + OPT_minsep * NWarriors = OPT_coresize
    BY RoomType DEF Sane
  <2>2. OPT_minsep * NWarriors \in Nat \ {0}
    BY <2>1
  <2>3. QED
    BY <1>1, <2>1, <2>2
<1>3. /\ pos \in 1 .. NWarriors - 1 /\ pos \in Warriors /\ NWarriors \in Nat
      /\ positions \in [Warriors -> 0 .. OPT_coresize - 1] /\ positions[0] = 0
      /\ OPT_coresize \in Nat /\ Room \in Nat /\ temp \in Int
      /\ j \in 0 .. pos - 1 /\ PlaceOf(temp, j)
      /\ positions' = [i \in Warriors |->
                         IF i = j + 1 THEN temp
                         ELSE IF j + 1 < i /\ i <= pos THEN positions[i - 1]
                         ELSE positions[i]]
  BY <1>1, RoomType DEF Sane, Indexed, LaidOut, Choose, Warriors
<1>4. Sorted(positions, pos - 1)
  BY DEF LaidOut, Choose
<1>5. positions' \in [Warriors -> 0 .. OPT_coresize - 1] /\ positions'[0] = 0
  <2>1. \A i \in Warriors : i > 0 => i - 1 \in Warriors
    BY <1>3 DEF Warriors
  <2>2. positions' \in [Warriors -> 0 .. OPT_coresize - 1]
    BY <1>2, <1>3, <2>1 DEF Warriors
  <2>3. positions'[0] = positions[0]
    BY <1>3 DEF Warriors
  <2>4. QED
    BY <1>3, <2>2, <2>3
<1>6. Sorted(positions', pos)
  <2> SUFFICES ASSUME NEW i \in 1 .. pos
               PROVE  /\ positions'[i] \in 0 .. Room - 1
                      /\ \A k \in 1 .. i : positions'[k] <= positions'[i]
    BY DEF Sorted
  <2>1. \A k \in 1 .. pos :
           positions'[k] = IF k = j + 1 THEN temp
                           ELSE IF j + 1 < k THEN positions[k - 1]
                           ELSE positions[k]
    BY <1>3 DEF Warriors
  <2>2. \A k \in 1 .. pos - 1 : positions[k] \in 0 .. Room - 1
    BY <1>4 DEF Sorted
  <2>3. \A k, l \in 1 .. pos - 1 : k <= l => positions[k] <= positions[l]
    BY <1>4 DEF Sorted
  <2>4. \A k \in 1 .. j : positions[k] <= temp
    <3>1. CASE j = 0
      BY <3>1
    <3>2. CASE j > 0
      BY <1>3, <2>2, <2>3, <3>2 DEF PlaceOf
    <3>3. QED
      BY <1>3, <3>1, <3>2
  <2>5. \A k \in j + 1 .. pos - 1 : temp <= positions[k]
    BY <1>3 DEF PlaceOf
  <2>6. positions'[i] \in 0 .. Room - 1
    BY <1>1, <1>3, <2>1, <2>2
  <2>7. ASSUME NEW k \in 1 .. i
        PROVE  positions'[k] <= positions'[i]
    <3>1. k \in 1 .. pos
      BY <1>3
    <3>2. CASE i <= j
      BY <1>3, <2>1, <2>3, <3>1, <3>2
    <3>3. CASE i = j + 1
      BY <1>3, <2>1, <2>4, <3>1, <3>3
    <3>4. CASE i > j + 1
      <4>1. positions'[i] = positions[i - 1] /\ i - 1 \in j + 1 .. pos - 1
        BY <1>3, <2>1, <3>4
      <4>2. CASE k <= j
        BY <1>3, <2>1, <2>3, <3>1, <4>1, <4>2
      <4>3. CASE k = j + 1
        BY <1>3, <2>1, <2>5, <3>1, <4>1, <4>3
      <4>4. CASE k > j + 1
        BY <1>3, <2>1, <2>3, <3>1, <4>1, <4>4
      <4>5. QED
        BY <1>3, <3>1, <4>2, <4>3, <4>4
    <3>5. QED
      BY <1>3, <3>2, <3>3, <3>4
  <2>8. QED
    BY <2>6, <2>7
<1>7. /\ pos' = pos + 1
      /\ stage' = IF pos + 1 < NWarriors THEN "choose" ELSE "separate"
  BY DEF Choose
<1>8. pos + 1 < NWarriors \/ pos = NWarriors - 1
  BY <1>3
<1>9. pos' - 1 = pos
  BY <1>3, <1>7
<1>10. QED
  BY <1>0, <1>5, <1>6, <1>7, <1>8, <1>9 DEF LaidOut, Sorted

(* npos() has separated the sorted numbers.                                *)
LEMMA SeparateLaid ==
    ASSUME Sane, Indexed, LaidOut, UNCHANGED options, Separate
    PROVE  LaidOut'
<1>0. /\ NWarriors' = NWarriors /\ OPT_minsep' = OPT_minsep
      /\ OPT_coresize' = OPT_coresize /\ Warriors' = Warriors
  BY DEF options, Warriors
<1>1. /\ positions \in [Warriors -> 0 .. OPT_coresize - 1] /\ positions[0] = 0
      /\ Sorted(positions, NWarriors - 1)
      /\ NWarriors \in Nat /\ NWarriors > 1 /\ OPT_minsep \in Nat \ {0}
      /\ OPT_coresize \in Nat \ {0} /\ OPT_coresize <= FIELD /\ Room \in Nat
  BY RoomType DEF Sane, Indexed, LaidOut, Separate
<1>2. ASSUME NEW i \in 1 .. NWarriors - 1
      PROVE  /\ i \in Warriors /\ positions[i] \in 0 .. Room - 1
             /\ i * OPT_minsep \in Nat
             /\ positions'[i] = positions[i] + i * OPT_minsep
             /\ positions'[i] \in OPT_minsep .. OPT_coresize - OPT_minsep
  <2>1. positions[i] \in 0 .. Room - 1 /\ i \in Warriors
    BY <1>1 DEF Sorted, Warriors
  <2>2. /\ i * OPT_minsep \in Nat /\ OPT_minsep <= i * OPT_minsep
        /\ i * OPT_minsep + OPT_minsep <= NWarriors * OPT_minsep
    BY <1>1, Moved
  <2>3. OPT_minsep * NWarriors = NWarriors * OPT_minsep
    BY <1>1
  <2>4. positions[i] + i * OPT_minsep \in OPT_minsep .. OPT_coresize - OPT_minsep
    BY <1>1, <2>1, <2>2, <2>3, RoomType
  <2>5. positions[i] + i * OPT_minsep \in 0 .. FIELD - 1
    BY <1>1, <2>4
  <2>6. positions'[i] = Field(positions[i] + i * OPT_minsep)
    BY <2>1 DEF Separate
  <2>7. QED
    BY <2>1, <2>2, <2>4, <2>5, <2>6, SmallField
<1>3. ASSUME NEW i \in 1 .. NWarriors - 1, NEW j \in 1 .. NWarriors - 1, i < j
      PROVE  /\ Distance(positions'[i], positions'[j]) >= OPT_minsep
             /\ Distance(positions'[j], positions'[i]) >= OPT_minsep
  <2>1. /\ positions[i] \in Int /\ positions[j] \in Int
        /\ positions[i] <= positions[j]
    BY <1>1, <1>2, <1>3 DEF Sorted
  <2>2. /\ i * OPT_minsep \in Nat /\ j * OPT_minsep \in Nat
        /\ i * OPT_minsep + OPT_minsep <= j * OPT_minsep
    BY <1>1, <1>3, Moved
  <2>3. /\ positions'[i] = positions[i] + i * OPT_minsep
        /\ positions'[j] = positions[j] + j * OPT_minsep
    BY <1>2
  <2>4. QED
    BY <1>1, <2>1, <2>2, <2>3 DEF Distance
<1>4. Spread(positions', NWarriors - 1)
  BY <1>2, <1>3 DEF Spread
<1>5. positions'[0] = 0
  <2>1. positions'[0] = Field(0 + 0 * OPT_minsep)
    BY <1>1 DEF Separate, Warriors
  <2>2. QED
    BY <1>1, <2>1, SmallField
<1>6. positions' \in [Warriors -> 0 .. OPT_coresize - 1]
  <2>1. \A i \in Warriors : i = 0 \/ i \in 1 .. NWarriors - 1
    BY <1>1 DEF Warriors
  <2>2. \A i \in Warriors : positions'[i] \in 0 .. OPT_coresize - 1
    BY <1>1, <1>2, <1>5, <2>1
  <2>3. QED
    BY <2>2 DEF Separate
<1>7. stage' = "permute"
  BY DEF Separate
<1>8. QED
  BY <1>0, <1>4, <1>5, <1>6, <1>7 DEF LaidOut, Spread

(* An exchange of two positions.                                           *)
LEMMA PermuteLaid ==
    ASSUME Sane, Indexed, LaidOut, UNCHANGED options, NEW j \in Warriors,
           Permute(j)
    PROVE  LaidOut'
<1>0. /\ NWarriors' = NWarriors /\ OPT_minsep' = OPT_minsep
      /\ OPT_coresize' = OPT_coresize /\ Warriors' = Warriors
  BY DEF options, Warriors
<1>1. /\ pos \in 1 .. NWarriors - 1 /\ pos \in Warriors /\ NWarriors \in Nat
      /\ j \in 1 .. NWarriors - 1 /\ 0 \in Warriors
      /\ positions \in [Warriors -> 0 .. OPT_coresize - 1] /\ positions[0] = 0
      /\ Spread(positions, NWarriors - 1)
      /\ positions' = [positions EXCEPT ![pos] = positions[j],
                                        ![j] = positions[pos]]
  BY DEF Indexed, LaidOut, Permute, Warriors
<1>2. positions' \in [Warriors -> 0 .. OPT_coresize - 1] /\ positions'[0] = 0
  BY <1>1 DEF Warriors
<1>3. Spread(positions', NWarriors - 1)
  <2> DEFINE other(i) == IF i = pos THEN j ELSE IF i = j THEN pos ELSE i
  <2>1. \A i \in 1 .. NWarriors - 1 :
           /\ positions'[i] = positions[other(i)]
           /\ other(i) \in 1 .. NWarriors - 1
    BY <1>1 DEF Warriors
  <2>2. \A i, k \in 1 .. NWarriors - 1 : i # k => other(i) # other(k)
    OBVIOUS
  <2> HIDE DEF other
  <2> SUFFICES ASSUME NEW i \in 1 .. NWarriors - 1
               PROVE  /\ positions'[i] \in OPT_minsep .. OPT_coresize - OPT_minsep
                      /\ \A k \in (1 .. NWarriors - 1) \ {i} :
                            Distance(positions'[i], positions'[k]) >= OPT_minsep
    BY DEF Spread
  <2>3. positions[other(i)] \in OPT_minsep .. OPT_coresize - OPT_minsep
    BY <1>1, <2>1 DEF Spread
  <2>4. ASSUME NEW k \in (1 .. NWarriors - 1) \ {i}
        PROVE  Distance(positions[other(i)], positions[other(k)]) >= OPT_minsep
    <3>1. /\ other(i) \in 1 .. NWarriors - 1
          /\ other(k) \in (1 .. NWarriors - 1) \ {other(i)}
      BY <2>1, <2>2
    <3>2. QED
      BY <1>1, <3>1 DEF Spread
  <2>5. QED
    BY <2>1, <2>3, <2>4
<1>4. stage' \in {"permute", "done"}
  BY DEF Permute
<1>5. QED
  BY <1>0, <1>2, <1>3, <1>4 DEF LaidOut, Spread

(* Every iteration keeps the invariant, and so does everybody else.        *)
LEMMA PosNextInv == PosInv /\ [PosNext]_<<options, posVars>> => PosInv'
<1> SUFFICES ASSUME PosInv, [PosNext]_<<options, posVars>> PROVE PosInv'
  OBVIOUS
<1>1. CASE PosNext
  <2>1. Indexed' /\ Indexed /\ UNCHANGED options
    BY <1>1, IndexedNext DEF PosInv, PosNext
  <2>2. Sane' => Sane
    BY <2>1 DEF options, Sane
  <2>3. ASSUME Sane PROVE LaidOut'
    <3>1. LaidOut
      BY <2>3 DEF PosInv
    <3>2. CASE ComputePositions
      BY <2>1, <2>3, <3>1, <3>2, ComputePositionsLaid
    <3>3. ASSUME NEW p \in Drawn,
                 Posit(p) \/ Redraw(p) \/ Backtrack(p) \/ GiveUp(p)
          PROVE  LaidOut'
      BY <2>1, <2>3, <3>1, <3>3, PositLaid, OverlapLaid
    <3>4. ASSUME NEW temp \in RngBelow(Room), NEW j \in Warriors,
                 Choose(temp, j)
          PROVE  LaidOut'
      BY <2>1, <2>3, <3>1, <3>4, ChooseLaid
    <3>5. CASE Separate
      BY <2>1, <2>3, <3>1, <3>5, SeparateLaid
    <3>6. ASSUME NEW j \in Warriors, Permute(j)
          PROVE  LaidOut'
      BY <2>1, <2>3, <3>1, <3>6, PermuteLaid
    <3>7. CASE DivideByZero
      BY <2>1, <3>1, <3>7 DEF DivideByZero, LaidOut, options, Warriors
    <3>8. QED
      BY <1>1, <3>2, <3>3, <3>4, <3>5, <3>6, <3>7 DEF PosNext, Positioning
  <2>4. QED
    BY <2>1, <2>2, <2>3 DEF PosInv
<1>2. CASE UNCHANGED <<options, posVars>>
  BY <1>2 DEF options, posVars, PosInv, Indexed, Sane, LaidOut, Spread, Sorted,
              Room, Warriors
<1>3. QED
  BY <1>1, <1>2

(* What has been spread is apart around core in both directions.           *)
LEMMA SpreadIsApart ==
    ASSUME PosInv, Sane, stage = "done", NEW i \in Warriors
    PROVE  /\ positions[i] \in 0 .. OPT_coresize - OPT_minsep
           /\ \A j \in Warriors \ {i} :
                 Gap(positions[i], positions[j]) >= OPT_minsep
<1>1. /\ positions \in [Warriors -> 0 .. OPT_coresize - 1] /\ positions[0] = 0
      /\ Spread(positions, NWarriors - 1) /\ NWarriors \in Nat
      /\ OPT_coresize \in Nat \ {0} /\ OPT_minsep \in 1 .. OPT_coresize
  BY RoomType DEF PosInv, LaidOut, Sane
<1>2. \A k \in Warriors \ {0} :
         /\ k \in 1 .. NWarriors - 1
         /\ positions[k] \in OPT_minsep .. OPT_coresize - OPT_minsep
  BY <1>1 DEF Spread, Warriors
<1>3. ASSUME NEW j \in Warriors \ {i}
      PROVE  Gap(positions[i], positions[j]) >= OPT_minsep
  <2>1. /\ positions[i] \in 0 .. OPT_coresize - 1
        /\ positions[j] \in 0 .. OPT_coresize - 1
    BY <1>1
  <2>2. CASE i = 0
    BY <1>1, <1>2, <1>3, <2>1, <2>2, GapValue
  <2>3. CASE j = 0
    BY <1>1, <1>2, <1>3, <2>1, <2>3, GapValue
  <2>4. CASE i # 0 /\ j # 0
    <3>1. Distance(positions[i], positions[j]) >= OPT_minsep
      BY <1>1, <1>2, <1>3, <2>4 DEF Spread
    <3>2. /\ positions[i] \in OPT_minsep .. OPT_coresize - OPT_minsep
          /\ positions[j] \in OPT_minsep .. OPT_coresize - OPT_minsep
      BY <1>2, <1>3, <2>4
    <3>3. QED
      BY <1>1, <2>1, <3>1, <3>2, GapValue DEF Distance
  <2>5. QED
    BY <2>2, <2>3, <2>4
<1>4. positions[i] \in 0 .. OPT_coresize - OPT_minsep
  BY <1>1, <1>2
<1>5. QED
  BY <1>3, <1>4

(* What the properties of positions say, of those who keep the invariant.  *)
LEMMA TypesFromInv ==
    ASSUME PosInv, Sane
    PROVE  PosTypeOK
  BY DEF PosInv, Indexed, LaidOut, PosTypeOK

LEMMA ApartFromInv ==
    ASSUME PosInv, Sane
    PROVE  Apart
<1>1. OPT_minsep \in Nat \ {0} /\ OPT_coresize \in Nat
  BY DEF Sane
<1>2. QED
  BY <1>1, SpreadIsApart DEF Apart
=============================================================================
