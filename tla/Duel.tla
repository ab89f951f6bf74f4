-------------------------------- MODULE Duel --------------------------------
(***************************************************************************)
(* Duels of the evolver: CBattleSchedulerExhaust (battle.cpp) on top of    *)
(* sim() and the buffers of the simulator.  A battle of two warriors has   *)
(* several rounds.  Before each of them the warriors are loaded afresh, but*)
(* their p-spaces last for the battle.  What the warriors do in a round is *)
(* left open here: they write to core and p-space, and none or one dies    *)
(* (Mars.tla has the instructions).                                        *)
(***************************************************************************)
EXTENDS Buffers, Redcode

CONSTANTS
    minsep,       \* CWorld::minsep()
    maxlength,    \* CWorld::maxlength()
    AllRounds,    \* what rounds may be set to; the constructor takes one
    Codes,        \* the warriors, records of a code and its start
    Sizes,        \* the numbers of warriors that buffers are allocated for
    Bomb,         \* what warriors leave in core
    MaxBattles    \* bound of the model: battles

ASSUME MinsepAssumption == minsep \in Nat /\ 2 * minsep < Coresize
ASSUME MaxlengthAssumption == maxlength \in 1 .. minsep
ASSUME AllRoundsAssumption == AllRounds # {} /\ AllRounds \subseteq Nat
ASSUME SizesAssumption == Sizes \subseteq Nat \ {0}
ASSUME CodesAssumption ==
    \A c \in Codes : /\ Len(c.code) \in 1 .. maxlength
                     /\ c.start \in 0 .. Len(c.code) - 1

VARIABLES
    core,         \* what Core_Mem points to
    rounds,       \* CWorld::_rounds
    static,       \* the static variable rounds of fight(), or Unset
    battles,      \* the battles so far
    warriors,     \* those of the current battle, at 0 and 1
    results,      \* and their results
    i,            \* the round
    enemypos      \* where the second warrior has been loaded

battleVars == <<battles, warriors, results, i, enemypos>>
duelVars == <<bufVars, at, core, rounds, static, battleVars>>

Unset == -1
Two == {0, 1}

NoResults == [s \in Two |-> [win |-> 0, loss |-> 0, tie |-> 0]]

DuelInit ==
    /\ BufInit /\ at = "idle"
    /\ core = [a \in Addr |-> Zeroed]
    /\ rounds \in AllRounds /\ static = Unset
    /\ battles = 0 /\ warriors \in [Two -> Codes]
    /\ results = NoResults /\ i = 0 /\ enemypos = 0

(* The constructor, and other programs that use the simulator.             *)
Alloc(nwars) ==
    /\ at = "idle"
    /\ SimAllocBufs2(nwars)
    /\ UNCHANGED <<core, rounds, static, battleVars>>

(* main() sets the rounds when the world has been made.                    *)
SetRounds ==
    /\ at = "idle" /\ allocs > 0 /\ battles = 0
    /\ rounds' \in AllRounds
    /\ UNCHANGED <<bufVars, at, core, static, battleVars>>

(* Mutant of StaticRounds: the rounds of the first world that there is.    *)
StaticRoundsTooSoon == IF static = Unset THEN CHOOSE r \in AllRounds : TRUE
                       ELSE static

(* The static variable is set by the first battle, for all others.         *)
StaticRounds == IF static = Unset THEN rounds ELSE static

(* Mutant of FreshPspaces: p-spaces are cleared when they are allocated.   *)
StalePspaces(ps) == ps

(* The p-spaces at the beginning of a battle.                              *)
FreshPspaces(ps) == ResetPspaces(ps)

(* schedule() calls fight(): the battle begins.  The buffers are for two,  *)
(* or missing, which the constructor has not noticed.                      *)
Schedule ==
    /\ at = "idle" /\ allocs > 0 /\ NWarriors \in {0, 2}
    /\ battles < MaxBattles
    /\ battles' = battles + 1
    /\ warriors' \in [Two -> Codes]
    /\ results' = NoResults /\ i' = 0
    /\ static' = StaticRounds
    /\ pspaces' = IF NWarriors = 0 THEN pspaces ELSE FreshPspaces(pspaces)
    /\ at' = "fighting"
    /\ UNCHANGED <<heap, pointers, NWarriors, allocs, core, rounds, enemypos>>

(* Mutant of EnemyPositions: the enemy may be close behind.                *)
EnemyPositionsClose == {minsep + r : r \in 0 .. Coresize - minsep - 1}

(* startpos + CRand::irand(range)                                          *)
EnemyPositions == {minsep + r : r \in 0 .. Coresize - 2 * minsep - 1}

(* sim_clear_core()                                                        *)
Cleared == [a \in Addr |-> Zeroed]

(* The warriors are loaded, and sim() is called.                           *)
BeginRound ==
    /\ at = "fighting" /\ i < static /\ pointers = Tables
    /\ enemypos' \in EnemyPositions
    /\ core' = Loaded(Loaded(Cleared, 0, warriors[0].code),
                      enemypos', warriors[1].code)
    /\ at' = "round"
    /\ UNCHANGED <<bufVars, rounds, static, battles, warriors, results, i>>

(* Without buffers sim_load_warrior() and sim() return -1; fight() notices *)
(* the latter.                                                             *)
Panic ==
    /\ at = "fighting" /\ i < static /\ pointers # Tables
    /\ at' = "thrown"
    /\ UNCHANGED <<bufVars, core, rounds, static, battleVars>>

(* A value that tells in which battle it was stored by which warrior.      *)
Stamp(s) == 2 * battles + s + 2

(* A warrior writes to p-space.                                            *)
Store(s, a) ==
    /\ at = "round"
    /\ pspaces' = PSet(pspaces, s, a, Stamp(s))
    /\ UNCHANGED <<heap, pointers, NWarriors, allocs, at, core, rounds, static,
                   battleVars>>

(* Location 0 after a round: how many survived, for those who did.         *)
Told(ps, dead) ==
    [ps EXCEPT !.last = [s \in DOMAIN @ |->
        CASE s \notin Two -> @[s] [] s \in dead -> 0
          [] OTHER -> 2 - Cardinality(dead)]]

(* What sim() returns.                                                     *)
Result(dead) == IF dead = {} THEN 2 ELSE IF 0 \in dead THEN 1 ELSE 0

(* The switch of fight().                                                  *)
Counted(res, outcome) ==
    CASE outcome = 0 -> [res EXCEPT ![0].win = @ + 1, ![1].loss = @ + 1]
      [] outcome = 1 -> [res EXCEPT ![0].loss = @ + 1, ![1].win = @ + 1]
      [] outcome = 2 -> [res EXCEPT ![0].tie = @ + 1, ![1].tie = @ + 1]

(* The round is over: sim() returns.                                       *)
EndRound ==
    /\ at = "round"
    /\ \E dead \in {{}, {0}, {1}}, a \in Addr :
          /\ pspaces' = Told(pspaces, dead)
          /\ results' = Counted(results, Result(dead))
          /\ core' = [core EXCEPT ![a] = Bomb]
    /\ i' = i + 1 /\ at' = "fighting"
    /\ UNCHANGED <<heap, pointers, NWarriors, allocs, rounds, static, battles,
                   warriors, enemypos>>

(* fight() returns, and the battle waits to be told to its owner.          *)
EndBattle ==
    /\ at = "fighting" /\ i = static
    /\ at' = "idle"
    /\ UNCHANGED <<bufVars, core, rounds, static, battleVars>>

(* ~CWorld(), also when an exception leaves main()'s try block.            *)
Destroy ==
    /\ at \in {"idle", "thrown"}
    /\ SimFreeBufs
    /\ at' = "exited"
    /\ UNCHANGED <<core, rounds, static, battleVars>>

DuelNext ==
    \/ \E nwars \in Sizes : Alloc(nwars)
    \/ SetRounds \/ Schedule \/ BeginRound \/ Panic
    \/ \E s \in Two, a \in PAddr : Store(s, a)
    \/ EndRound \/ EndBattle \/ Destroy

DuelSpec == DuelInit /\ [][DuelNext]_duelVars

-----------------------------------------------------------------------------
(* Properties.                                                             *)

(* No step of a program that uses the simulator loses memory, but for an   *)
(* allocation that fails.                                                  *)
LostByFailureOnly == [][LostInFailure]_duelVars

(* "Beware not to load warriors so that their code overlaps" (sim.c:187):  *)
(* when a round begins, core holds both warriors as a whole and nothing    *)
(* else, and the addresses at which they start, which battle.cpp:155 does  *)
(* not reduce, are addresses of their code.                                *)
LoadedWhole ==
    at = "round" =>
        LET position == [s \in Two |-> IF s = 0 THEN 0 ELSE enemypos]
            part(s) == {(position[s] + k) % Coresize :
                           k \in 0 .. Len(warriors[s].code) - 1}
        IN  /\ part(0) \cap part(1) = {}
            /\ \A s \in Two :
                  /\ position[s] + warriors[s].start \in part(s)
                  /\ \A k \in 0 .. Len(warriors[s].code) - 1 :
                        core[(position[s] + k) % Coresize]
                            = warriors[s].code[k + 1]
            /\ \A a \in Addr \ (part(0) \cup part(1)) : core[a] = Zeroed

(* A warrior finds in its p-space what it stored in this battle, or what   *)
(* sim.c:309-310 and 366-368 promise: no trace of an earlier battle or of  *)
(* the other warrior.                                                      *)
PSpaceFresh ==
    at \in {"round", "fighting"} /\ NWarriors = 2 =>
        \A s \in Two :
            /\ PGet(pspaces, s, 0)
                  \in {Stamp(s)} \cup (IF i = 0 THEN {Coresize - 1} ELSE 0 .. 2)
            /\ \A a \in PAddr \ {0} : PGet(pspaces, s, a) \in {0, Stamp(s)}

(* After a battle there is one result for each of the rounds that the world*)
(* asks for, by which CBenchmark scales the score, a win of one is a loss  *)
(* of the other, and who survived alone in the last round has won it.      *)
ResultsAddUp ==
    battles > 0 =>
        /\ results[0].win = results[1].loss /\ results[0].loss = results[1].win
        /\ results[0].tie = results[1].tie
        /\ results[0].win + results[0].loss + results[0].tie = i
        /\ at = "idle" => i = rounds
        /\ at = "fighting" /\ i > 0 /\ NWarriors = 2 =>
              \A s \in Two : pspaces.last[s] = 1 => results[s].win > 0
=============================================================================
