----------------------------- MODULE Tournament -----------------------------
(***************************************************************************)
(* The stand-alone program: main() of exhaust-1.9.2/exhaust.c plays rounds *)
(* between the warriors of the command line.  In each round they are       *)
(* loaded at new positions and the order of execution is shifted by one;   *)
(* p-space is carried over and shared between warriors of equal PIN, and   *)
(* the result of a round is read from location 0.  A battle is abstract    *)
(* here: some of the slots of the simulator die, and programs write into   *)
(* the p-space they are given.                                             *)
(***************************************************************************)
EXTENDS Core, PSpace, FiniteSets, FiniteSetsExt

CONSTANTS
    NWarriors, OPT_minsep,              \* see Positions.tla; they stay what
    RETRIES1, RETRIES2, UINT, FIELD,    \* they are once rounds are played
    OPT_rounds,    \* rounds to be played
    Start,         \* where in its code a warrior starts; all have the same
    Pins,          \* possible values of a PIN
    NoPin          \* what pin is of a warrior that has none

(* check_sanity() has made sure, and the numbers are representable;        *)
(* Startup.tla has the command lines for which they are not.               *)
ASSUME SanityAssumption ==
    /\ NWarriors \in Nat \ {0} /\ OPT_minsep \in Nat \ {0}
    /\ NWarriors * OPT_minsep <= Coresize /\ Coresize <= FIELD
ASSUME NumbersAssumption ==
    /\ RETRIES1 \in Nat /\ RETRIES2 \in Nat
    /\ UINT \in Nat /\ FIELD \in Nat \ {0} /\ FIELD < UINT /\ UINT % FIELD = 0

(* All codes are as long as check_sanity() admits.                         *)
ASSUME TournamentAssumption ==
    /\ OPT_rounds \in Nat /\ Start \in 0 .. OPT_minsep - 1
    /\ NoPin \notin Pins

VARIABLES
    positions, pos, retries1, retries2, stage,    \* see Positions.tla
    pin,             \* have_pin and pin of each warrior
    pspaces,         \* PSpaces and what they point to
    StartPositions,  \* the address at which a slot of the simulator starts
    slots,           \* whose p-space it is given
    round,           \* the round, n in main()
    Results,         \* Results[i][k]: rounds that i survived with k alive
    at,              \* the call that main() is about to make
    tally, firsts    \* history: Results as they ought to be, and how often
                     \* each warrior was the first to execute

INSTANCE Positions WITH OPT_coresize <- Coresize

loadVars == <<positions, pos, retries1, retries2, stage>>
vars == <<loadVars, pin, pspaces, StartPositions, slots, round, Results, at,
          tally, firsts>>

Counts == [Warriors -> [0 .. NWarriors -> Nat]]
Zero   == [i \in Warriors |-> [k \in 0 .. NWarriors |-> 0]]

Equal(i, j) == pin[i] # NoPin /\ pin[i] = pin[j]

(* Warrior i lends its block of p-space to the warriors in group.          *)
Lent(ps, i, group) ==
    FoldSet(LAMBDA j, q : PShare(q, i, j), ps, group)

(* Mutant of Amalgamated: a warrior lends to its neighbour only.           *)
AmalgamatedNeighbours(ps) ==
    LET step[i \in 0 .. NWarriors] ==
            IF i = 0 THEN ps
            ELSE Lent(step[i - 1], i - 1,
                      {j \in Warriors : j = i - 2 /\ Equal(i - 1, j)})
    IN  step[NWarriors]

(* amalgamate_pspaces(): each warrior in its turn lends to all before it   *)
(* that have its PIN.                                                      *)
Amalgamated(ps) ==
    LET step[i \in 0 .. NWarriors] ==
            IF i = 0 THEN ps
            ELSE Lent(step[i - 1], i - 1,
                      {j \in Warriors : j < i - 1 /\ Equal(i - 1, j)})
    IN  step[NWarriors]

(* A program that writes into its p-space leaves its name there, so that 0 *)
(* is what has never been written.                                         *)
Name(i) == i + 1

(* The p-spaces of sim_alloc_bufs(): each warrior has its own, cleared.    *)
(* Coresize - 1 at location 0 is told apart from no other value here.      *)
Allocated ==
    PCleared([last |-> [i \in Warriors |-> 0],
              mem  |-> [i \in Warriors |-> i],
              own  |-> [i \in Warriors |-> <<>>]], NWarriors)

Init ==
    /\ PosInit
    /\ pin \in [Warriors -> Pins \cup {NoPin}]
    /\ pspaces = Amalgamated(Allocated)
    /\ StartPositions = [s \in Warriors |-> 0]
    /\ slots = [s \in Warriors |-> s]
    /\ round = 0 /\ Results = Zero /\ at = "positions"
    /\ tally = Zero /\ firsts = [i \in Warriors |-> 0]

(* The next round begins: compute_positions() is called, ...               *)
BeginRound ==
    /\ at = "positions" /\ round < OPT_rounds
    /\ ComputePositions
    /\ at' = "order"
    /\ UNCHANGED <<pin, pspaces, StartPositions, slots, round, Results, tally,
                   firsts>>

(* ... and does its work.                                                  *)
Place ==
    /\ at = "order"
    /\ Positioning
    /\ UNCHANGED <<pin, pspaces, StartPositions, slots, round, Results, at,
                   tally, firsts>>

(* Mutant of Shifted: everybody keeps its slot.                            *)
Unshifted(s, n) == s

(* The cyclic shift of set_starting_order().                               *)
Shifted(s, n) == (s + n) % NWarriors

(* Mutant of SetStartingOrder: the p-spaces lag one round behind.          *)
StartingOrderOfPositions ==
    /\ at = "order" /\ stage = "done"
    /\ StartPositions' = [s \in Warriors |->
          (positions[Shifted(s, round)] + Start) % Coresize]
    /\ slots' = [s \in Warriors |->
          IF round = 0 THEN s ELSE Shifted(s, round - 1)]
    /\ at' = "fight"
    /\ UNCHANGED <<loadVars, pin, pspaces, round, Results, tally, firsts>>

(* The warriors are loaded; set_starting_order(n) shifts start positions   *)
(* and p-spaces alike.                                                     *)
SetStartingOrder ==
    /\ at = "order" /\ stage = "done"
    /\ StartPositions' = [s \in Warriors |->
          (positions[Shifted(s, round)] + Start) % Coresize]
    /\ slots' = [s \in Warriors |-> Shifted(s, round)]
    /\ at' = "fight"
    /\ UNCHANGED <<loadVars, pin, pspaces, round, Results, tally, firsts>>

(* The warrior whose code is at a; load_warriors() loads the last one over *)
(* the others.                                                             *)
Owner(a) == Max({i \in Warriors : Gap(positions[i], a) < OPT_minsep})

(* The warrior whose code is executed at slot s.                           *)
Executed(s) == Owner(StartPositions[s])

(* A program at slot s stores its name at a.                               *)
Store(s, a) ==
    /\ at = "fight"
    /\ pspaces' = PSet(pspaces, slots[s], a, Name(Executed(s)))
    /\ UNCHANGED <<loadVars, pin, StartPositions, slots, round, Results, at,
                   tally, firsts>>

(* Mutants of Told: the dead are told the number of survivors, too; the    *)
(* survivors are counted before the last death.                            *)
ToldAll(ps, dead) ==
    [last |-> [i \in Warriors |-> NWarriors - Cardinality(dead)],
     mem  |-> ps.mem, own |-> ps.own]
ToldOneMore(ps, dead) ==
    [last |-> [i \in Warriors |-> NWarriors - Cardinality(dead) + 1],
     mem  |-> ps.mem, own |-> ps.own]

(* The update of location 0 by sim_mw(): first everybody is told how many  *)
(* are alive, then the slots in death_tab that they are dead.              *)
Told(ps, dead) ==
    [last |-> [i \in Warriors |-> IF i \in {slots[s] : s \in dead} THEN 0
                                 ELSE NWarriors - Cardinality(dead)],
     mem  |-> ps.mem, own |-> ps.own]

(* sim_mw(): the slots in dead have died.  A battle ends when one warrior  *)
(* is left at most, and only a single warrior may leave none.              *)
SimMw(dead) ==
    /\ at = "fight"
    /\ dead # Warriors \/ NWarriors = 1
    /\ pspaces' = Told(pspaces, dead)
    /\ tally' = [i \in Warriors |->
          LET k == IF i \in {Executed(s) : s \in dead} THEN 0
                   ELSE NWarriors - Cardinality(dead)
          IN  [tally[i] EXCEPT ![k] = @ + 1]]
    /\ firsts' = [firsts EXCEPT ![Executed(0)] = @ + 1]
    /\ at' = "accumulate"
    /\ UNCHANGED <<loadVars, pin, StartPositions, slots, round, Results>>

(* accumulate_results(), and on to the next round.                         *)
AccumulateResults ==
    /\ at = "accumulate"
    /\ Results' = [i \in Warriors |->
                     [Results[i] EXCEPT ![PGet(pspaces, i, 0)] = @ + 1]]
    /\ round' = round + 1
    /\ at' = "positions"
    /\ UNCHANGED <<loadVars, pin, pspaces, StartPositions, slots, tally, firsts>>

Next ==
    \/ BeginRound \/ Place \/ SetStartingOrder \/ AccumulateResults
    \/ \E s \in Warriors, a \in PAddr : Store(s, a)
    \/ \E dead \in SUBSET Warriors : SimMw(dead)

Spec == Init /\ [][Next]_vars

-----------------------------------------------------------------------------
(* Properties.                                                             *)

(* Every variable keeps its type.                                          *)
TypeOK ==
    /\ PosTypeOK
    /\ pin \in [Warriors -> Pins \cup {NoPin}]
    /\ pspaces.last \in [Warriors -> 0 .. NWarriors]
    /\ pspaces.mem \in [Warriors -> Warriors]
    /\ pspaces.own \in [Warriors -> [PAddr -> 0 .. NWarriors]]
    /\ StartPositions \in [Warriors -> Addr]
    /\ slots \in [Warriors -> Warriors]
    /\ round \in 0 .. OPT_rounds
    /\ Results \in Counts /\ tally \in Counts
    /\ firsts \in [Warriors -> Nat]
    /\ at \in {"positions", "order", "fight", "accumulate"}

(* A warrior's results tell how its own code fared, wherever it was loaded *)
(* and in whatever slot it fought, although they travel through location 0 *)
(* of a p-space that programs write to and others share                    *)
(* (exhaust.c:417-429).                                                    *)
ResultsTrue == at = "positions" => Results = tally

(* Each round counts once for every warrior, and k survivors of a round    *)
(* are k times counted as such.                                            *)
ResultsAddUp ==
    at = "positions" =>
        /\ \A i \in Warriors :
              MapThenSumSet(LAMBDA k : Results[i][k], 0 .. NWarriors) = round
        /\ \A k \in 1 .. NWarriors :
              MapThenSumSet(LAMBDA i : Results[i][k], Warriors) % k = 0

(* Warriors use the same block exactly when they have equal PINs           *)
(* (exhaust.c:361, "Share p-space according to PINs").                     *)
PinsShare ==
    \A i, j \in Warriors :
        pspaces.mem[i] = pspaces.mem[j] <=> i = j \/ Equal(i, j)

(* What a warrior finds in its p-space, round after round, was left there  *)
(* by itself or by one that has its PIN, though its slot has changed and   *)
(* the simulator knows slots only.                                         *)
PSpaceLoyal ==
    \A i \in Warriors, a \in PAddr \ {0} :
        LET found == PGet(pspaces, i, a)
        IN  \/ found \in {0, Name(i)}
            \/ \E j \in Warriors : Equal(i, j) /\ found = Name(j)

(* Being the first to execute is an advantage; it comes around to everyone *)
(* before it comes to anyone again.                                        *)
StartFair == \A i, j \in Warriors : firsts[i] <= firsts[j] + 1
=============================================================================
