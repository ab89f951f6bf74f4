------------------------------ MODULE Positions ------------------------------
(***************************************************************************)
(* Where the warriors of a round are loaded: compute_positions(), posit()  *)
(* and npos() of exhaust-1.9.2/exhaust.c.  posit() draws one position      *)
(* after the other and draws again when two overlap; after too many        *)
(* attempts npos() distributes the room that is left.  A number from rng() *)
(* is any number: the generator is taken from another program.             *)
(***************************************************************************)
EXTENDS Integers

CONSTANTS
    RETRIES1,      \* how many times to try generating one position; 20
    RETRIES2,      \* how many times to start backtracking; 4
    UINT,          \* 2^32, where unsigned numbers start at 0 again
    FIELD          \* 2^16, where numbers of type field_t do

ASSUME RetriesAssumption == RETRIES1 \in Nat /\ RETRIES2 \in Nat
ASSUME WidthAssumption ==
    UINT \in Nat /\ FIELD \in Nat \ {0} /\ FIELD < UINT /\ UINT % FIELD = 0

VARIABLES
    NWarriors,            \* warriors on the command line
    OPT_minsep,           \* minimum separation of their positions
    OPT_coresize,         \* size of core
    positions,            \* Positions
    pos,                  \* the position that is being generated
    retries1, retries2,   \* attempts left in posit()
    stage                 \* the loop that is being executed

(* What main() has found out before the first round.                       *)
options == <<NWarriors, OPT_minsep, OPT_coresize>>
posVars == <<positions, pos, retries1, retries2, stage>>

Warriors == 0 .. NWarriors - 1

(* What is left of a number that is stored.                                *)
Unsigned(n) == n % UINT
Field(n)    == n % FIELD

(* The values of rng() % n.                                                *)
RngBelow(n) == {x \in 0 .. (UINT \div 2) - 1 : x < n}

(* Positions is not initialised; nothing is read before it is written.     *)
PosInit ==
    /\ positions = [i \in Warriors |-> 0]
    /\ pos = 1 /\ retries1 = RETRIES1 /\ retries2 = RETRIES2
    /\ stage = "idle"

(* The number of positions that one warrior may have when all others are   *)
(* to fit as well, ...                                                     *)
Room == Unsigned(OPT_coresize - OPT_minsep * NWarriors + 1)

(* ... and when only warrior 0 is.                                         *)
RoomForOne == Unsigned(OPT_coresize - 2 * OPT_minsep + 1)

(* compute_positions() is called: a second warrior is placed directly,     *)
(* more than two by posit().                                               *)
ComputePositions ==
    /\ stage \in {"idle", "done"}
    /\ IF NWarriors = 2
       THEN \E temp \in RngBelow(Room) :
               positions' = [i \in Warriors |-> Field(i * (OPT_minsep + temp))]
       ELSE positions' = [positions EXCEPT ![0] = 0]
    /\ stage' = IF NWarriors > 2 THEN "posit" ELSE "done"
    /\ pos' = 1 /\ retries1' = RETRIES1 /\ retries2' = RETRIES2

Distance(a, b) == IF a < b THEN b - a ELSE a - b

(* The positions that posit() draws from.                                  *)
Drawn == {Field(x + OPT_minsep) : x \in RngBelow(RoomForOne)}

(* The earlier positions that are too close to p.  Warrior 0 at 0 needs no *)
(* test, p is not drawn too close to it.                                   *)
Overlaps(p) ==
    {i \in 1 .. pos - 1 : Distance(p, positions[i]) < OPT_minsep}

(* posit() draws the position of warrior pos, and all is well ...          *)
Posit(p) ==
    /\ stage = "posit" /\ Overlaps(p) = {}
    /\ positions' = [positions EXCEPT ![pos] = p]
    /\ pos' = pos + 1
    /\ stage' = IF pos + 1 < NWarriors THEN "posit" ELSE "done"
    /\ UNCHANGED <<retries1, retries2>>

(* ... or it is too close to an earlier one.  Then it is drawn again, ...  *)
Redraw(p) ==
    /\ stage = "posit" /\ Overlaps(p) # {} /\ retries2 > 0 /\ retries1 > 0
    /\ positions' = [positions EXCEPT ![pos] = p]
    /\ retries1' = retries1 - 1
    /\ UNCHANGED <<pos, retries2, stage>>

(* Mutant of Backtrack: it is not counted.                                 *)
BacktrackForever(p) ==
    /\ stage = "posit" /\ Overlaps(p) # {} /\ retries2 > 0 /\ retries1 = 0
    /\ positions' = [positions EXCEPT ![pos] = p]
    /\ \E i \in Overlaps(p) : pos' = i /\ \A k \in Overlaps(p) : i <= k
    /\ retries1' = RETRIES1
    /\ UNCHANGED <<retries2, stage>>

(* ... or the one it is too close to is, and all after it, ...             *)
Backtrack(p) ==
    /\ stage = "posit" /\ Overlaps(p) # {} /\ retries2 > 0 /\ retries1 = 0
    /\ positions' = [positions EXCEPT ![pos] = p]
    /\ \E i \in Overlaps(p) : pos' = i /\ \A k \in Overlaps(p) : i <= k
    /\ retries1' = RETRIES1 /\ retries2' = retries2 - 1
    /\ UNCHANGED stage

(* Mutant of GiveUp: after too many attempts the position is accepted.     *)
GiveUpAccepts(p) ==
    /\ stage = "posit" /\ Overlaps(p) # {} /\ retries2 = 0
    /\ positions' = [positions EXCEPT ![pos] = p]
    /\ pos' = pos + 1
    /\ stage' = IF pos + 1 < NWarriors THEN "posit" ELSE "done"
    /\ UNCHANGED <<retries1, retries2>>

(* ... or posit() fails and npos() starts.                                 *)
GiveUp(p) ==
    /\ stage = "posit" /\ Overlaps(p) # {} /\ retries2 = 0
    /\ positions' = [positions EXCEPT ![pos] = p]
    /\ pos' = 1 /\ stage' = "choose"
    /\ UNCHANGED <<retries1, retries2>>

(* Where the loop that looks for the place of temp among the first pos - 1  *)
(* stops, counting down.                                                   *)
PlaceOf(temp, j) ==
    /\ j > 0 => temp > positions[j]
    /\ \A k \in j + 1 .. pos - 1 : temp <= positions[k]

(* npos() chooses a position from the available room and inserts it, ...   *)
Choose(temp, j) ==
    /\ stage = "choose" /\ j < pos /\ PlaceOf(temp, j)
    /\ positions' = [i \in Warriors |->
          IF i = j + 1 THEN Field(temp)
          ELSE IF j + 1 < i /\ i <= pos THEN positions[i - 1]
          ELSE positions[i]]
    /\ pos' = pos + 1
    /\ stage' = IF pos + 1 < NWarriors THEN "choose" ELSE "separate"
    /\ UNCHANGED <<retries1, retries2>>

(* Mutant of Separate: every position is moved by one minsep more.         *)
SeparateOneMore ==
    /\ stage = "separate"
    /\ positions' = [i \in Warriors |->
                       IF i = 0 THEN 0
                       ELSE Field(positions[i] + (i + 1) * OPT_minsep)]
    /\ pos' = 1 /\ stage' = "permute"
    /\ UNCHANGED <<retries1, retries2>>

(* ... separates the positions by OPT_minsep cells, ...                    *)
Separate ==
    /\ stage = "separate"
    /\ positions' = [i \in Warriors |-> Field(positions[i] + i * OPT_minsep)]
    /\ pos' = 1 /\ stage' = "permute"
    /\ UNCHANGED <<retries1, retries2>>

(* ... and makes a random permutation of them.                             *)
Permute(j) ==
    /\ stage = "permute" /\ j >= pos
    /\ positions' = [positions EXCEPT ![pos] = positions[j],
                                      ![j] = positions[pos]]
    /\ pos' = pos + 1
    /\ stage' = IF pos + 1 < NWarriors THEN "permute" ELSE "done"
    /\ UNCHANGED <<retries1, retries2>>

(* posit() divides by zero.                                                *)
DivideByZero ==
    /\ stage = "posit" /\ RoomForOne = 0
    /\ stage' = "crashed"
    /\ UNCHANGED <<positions, pos, retries1, retries2>>

(* The next iteration of the loop that is being executed.                  *)
Positioning ==
    \/ \E p \in Drawn : Posit(p) \/ Redraw(p) \/ Backtrack(p) \/ GiveUp(p)
    \/ \E temp \in RngBelow(Room), j \in Warriors : Choose(temp, j)
    \/ Separate
    \/ \E j \in Warriors : Permute(j)
    \/ DivideByZero

PosNext == (ComputePositions \/ Positioning) /\ UNCHANGED options

-----------------------------------------------------------------------------
(* Properties.                                                             *)

(* What the types of the code have room for: the product in check_sanity() *)
(* does not wrap, and "In a field_t variable we hold unsigned integers in  *)
(* 0..CORESIZE-1" (exhaust.h:42).                                          *)
Representable == NWarriors * OPT_minsep < UINT /\ OPT_coresize <= FIELD

(* Every variable keeps its type.  Positions are in core.                  *)
PosTypeOK ==
    /\ retries1 \in 0 .. RETRIES1 /\ retries2 \in 0 .. RETRIES2
    /\ stage \in {"idle", "posit", "choose", "separate", "permute", "done",
                  "crashed"}
    /\ stage # "idle" =>
          /\ positions \in [Warriors -> 0 .. FIELD - 1]
          /\ pos \in 1 .. NWarriors
          /\ Representable => \A i \in Warriors : positions[i] < OPT_coresize

(* From a to b, up core and around its end.                                *)
Gap(a, b) == (b - a) % OPT_coresize

(* However posit() has retried and backtracked, or npos() has taken over,  *)
(* the warriors are loaded at addresses of core, and between two of them   *)
(* there is room for code of the minimum separation, in both directions    *)
(* around core: nobody is loaded over anybody else (exhaust.c:218, "Make   *)
(* sure minsep dominates the lengths of all warriors").  The numbers must  *)
(* be representable.                                                       *)
Apart ==
    stage = "done" /\ Representable =>
        \A i \in Warriors :
            /\ positions[i] \in 0 .. OPT_coresize - 1
            /\ \A j \in Warriors \ {i} :
                  Gap(positions[i], positions[j]) >= OPT_minsep

(* The search for positions comes to an end, whatever the numbers that     *)
(* rng() returns: retries and backtracking are bounded (exhaust.c:239-241).*)
(* Numbers that wrap may end the program.                                  *)
PositionsFound ==
    stage = "posit" ~> stage = "done" \/ (~Representable /\ stage = "crashed")
=============================================================================
