# Species-Blossom: a verification project

TLA+ models of the two programs of this repository, the TLC runs that check
them and the proofs, checked by TLAPS, of what matters most. Paths are relative
to `src/`; `sim.c`, `pspace.c`, `exhaust.c`, `asm.c` and `insn.h` are in
`exhaust-1.9.2/`.

* The **evolver** (`blossom.cpp` and the other C++ files) keeps a population of
  Core War warriors, scores them in battles against benchmark warriors and
  breeds the next generation.
* The **MARS** (`sim.c`, `pspace.c`) executes the battles: warriors written in
  Redcode take turns in a circular memory. The evolver calls it as a library;
  the stand-alone program **exhaust** (`exhaust.c`, `asm.c`) uses it for
  tournaments of any number of warriors.

Both programs have one thread and keep nothing on disk. What is hard about them
is not concurrency of the implementation but that of the machine it simulates
(warriors and their processes), bookkeeping that spans many steps (queues that
share a ring buffer, a clock corrected at deaths, results that travel through
memory the programs can write to, battles scheduled now and reported later),
and loops whose end depends on random numbers.

## 1. Inventory

| part | state it keeps | operations | what makes it correct |
|---|---|---|---|
| MARS scheduler, `sim_proper()` | process queues as slices of one circular buffer, doubly linked cycle of survivors, clock, table of deaths | one turn of the main loop: fetch, then fall through, jump, split or die | queues never overlap; the cycle holds exactly the survivors, in order; everyone gets the same number of turns |
| Redcode, the `switch` | core | operand evaluation, 18 opcodes × 7 modifiers | operands read before other effects; fields stay in range; the tables of `OpInfo` say the same |
| p-space, `pspace.c` | per warrior: location 0, own block, block in use | get, set, clear, share, privatise, alloc, free | location 0 is private, blocks are shared by equal PINs only |
| simulator's entry points | the buffers as globals | allocate, free, clear, load, `sim_mw`, `sim` | outcome told in location 0; `sim` names the winner; allocation all or nothing |
| start of a tournament, `exhaust.c` | options, warriors | read the command line, allocate, read warriors, check sanity | what is let through can be loaded |
| tournament, `main()` of `exhaust.c` | results, PINs, p-space pointers by warrior, load and start positions | compute positions, load, rotate slots, fight, accumulate | results and p-space follow the warrior, not the slot; the start is fair; code does not overlap |
| assembler, `asm.c` | lines of a warrior, start, PIN | `asm_line`, `asm_file`, `dis1` | a file is assembled as it reads; what is disassembled assembles to the same |
| battle scheduler, `battle.cpp` | battles that wait to be told, rounds as a static variable | `schedule()`, `fight()`, `loop()` | warriors are loaded as a whole, p-space is fresh, every round is counted, every result told once |
| population, world, warriors | warriors and retired warriors, heritage, child counts, scores with pending battles | `loop()`s, `fight()`, `battle_done()`, `breed()` | no result lost or counted twice; breeding on complete grades; child counts exact; breeding ends and lets the worst go |
| reproduction | parents, child | `Create()`: crossover until `might_execute()` | it ends; children can have children |
| Markov model | a tree of counts | load, suggest | (loaded, and never consulted) |
| random numbers, gnuplot, utilities | generator state, a pipe | `irand()`, `pl_emit()` | (third-party code, output) |

How they interact. `main()` of `blossom.cpp` calls `CWorld::loop()` until it
returns false, then `CPopulation::breed()`, forever. `CWorld::loop()` calls
`CPopulation::loop()`, which calls `fight()` of every warrior that is not graded;
this schedules battles. The scheduler runs each of them at once with `sim()` and
keeps the result; `CBattleSchedulerExhaust::loop()` then calls back
`battle_done()` of the owner. The founders are files for the assembler of `exhaust`,
and a warrior that is printed (`to_red()`) is such a file again. `exhaust.c` calls `sim_mw()` once a round and
communicates with it through arrays: start positions and p-space pointers by slot
going in, location 0 of p-space coming out.

The hazards this leads to are listed, each at its line, in `PROJECT.json`, with
the properties that would notice.

## 2. Modules

| module | models | composed of |
|---|---|---|
| `Core` | addresses, `INCMOD` .. `SUBMOD` | |
| `AbstractBattle` | what a battle promises, without any machinery | |
| `MarsSched` | `sim_proper()` as a scheduler | `Core`; implements `AbstractBattle` |
| `PSpace` | `pspace.c` | |
| `Redcode` | the `switch` of `sim_proper()`, `OpInfo` | `Core`, `PSpace` |
| `Mars`, `MCMars` | a battle: `sim_mw()`, `sim_proper()` executing code | `MarsSched`, `Redcode`; implements `MarsSched` |
| `Buffers` | `sim_alloc_bufs2()`, `sim_free_bufs()`, `pspace_alloc()`, with mallocs that fail | `Core`, `PSpace` |
| `Duel`, `MCDuel` | `CBattleSchedulerExhaust`: a battle round by round | `Buffers`, `Redcode` |
| `Asm` | `asm.c`, and the files that `to_red()` writes | `Redcode` |
| `Reproduce` | `CReproductionRandomCrossover` | `Redcode` |
| `Offspring`, `MCOffspring` | the life of a warrior: read, crossed, written, read, executed | `Asm`, `Reproduce` |
| `Positions` | `compute_positions()`, `posit()`, `npos()` | |
| `Startup`, `MCStartup` | `main()` of `exhaust.c` up to the rounds | `Positions` |
| `Tournament` | `main()` of `exhaust.c` | `Core`, `PSpace`, `Positions` (by INSTANCE) |
| `Evolver`, `MCEvolver` | the evolver's loops, grading and `breed()` | |
| `DataLemmas` | lemmas on quotients and remainders, induction, counting and folds | |
| `Mars_proofs` | proofs about `MarsSched` and `Mars`, and that they implement `AbstractBattle` and `MarsSched` | `Mars`, `DataLemmas` |
| `Offspring_proofs` | proofs about `Offspring`: the assembler, `to_red()`, children, and `OpInfo` against the `switch` | `Offspring`, `DataLemmas` |
| `Evolver_proofs` | proofs about `Evolver` | `Evolver`, `DataLemmas` |
| `Positions_proofs` | lemmas about `Positions` | `Positions` |
| `Tournament_proofs` | proofs about `Tournament` | `Tournament`, `Positions_proofs` (by INSTANCE), `DataLemmas` |
| `Startup_proofs` | proofs about `Startup` | `Startup`, `Positions_proofs` |
| `Duel_proofs` | proofs about `Duel` and `Buffers` | `Duel` |

**MarsSched.** A warrior is named by its id. `queue` is `Queue_Mem` with its
`NWarriors * Processes + 1` slots; `head`, `tail`, `nprocs`, `succ` and `pred` are
the fields of `w_t`; `w`, `deaths`, `cycles`, `alive_cnt` are the locals of
`sim_proper()`; `over` says that the label `out` has been reached. An action is one
turn of the main loop, from the fetch to the `while`: `Continue` (fall through or
jump), `Split` and `SplitFull` (SPL below and at the limit), `ProcessDies` and
`WarriorDies` (the label `die`). Each contains the fetch, what it queues and the
end of the loop. `turns` is a history variable. The target of a jump is any
address, so the module allows more than real code would do.

**AbstractBattle** has one first-in first-out queue of processes per warrior, a
set of survivors, and whose turn it is. `MarsSched` maps to it by reading the
queues off the ring buffer (`ProcsOf`). The abstract battle promises everyone
`Cycles` turns, with the exception the code really has: one instruction of one survivor (see the limits in §4).

**Redcode** turns the `switch` into a function from core, instruction pointer and
a p-space to core, a store and the list of addresses the process goes on at. A
modifier is the set of pairs of fields it combines, so that `ADD.X` and
`MOV.X` are the same line of the model. **Mars** lets the action of `MarsSched` that
fits that list happen, writes core and p-space, and adds `sim_mw()`'s `Report`.
The property `Spec` of its run says that a battle of real code is a behaviour of the
scheduler.

**Positions** has one action per iteration of each loop; `stage` says which loop is
being executed, `pos` is its variable. An iteration of `posit()` draws a number and
accepts it (`Posit`), draws again (`Redraw`), goes back to the first position it
collides with (`Backtrack`) or fails (`GiveUp`); then `npos()` sorts numbers
(`Choose`), moves them apart (`Separate`) and shuffles them (`Permute`). `npos()`
starts from what `posit()` has left in `Positions`, and so does the next round.
Arithmetic is unsigned and wraps at `UINT`, and an address is kept in a field that
wraps at `FIELD` (2^32 and 2^16 in the code); so the module is defined for every
core and separation, sane or not, and says where the program divides by zero
(`DivideByZero`). The three numbers it works on, `NWarriors`, `OPT_minsep` and
`OPT_coresize`, are variables, which `Startup` computes.

**Startup** comes before: it reads a command line argument by argument (`ReadArg`;
an argument is a letter and the number that follows, a file the number of its
instructions), and allocates (`AllocRelatedMemory`, with the outcomes a failing
`malloc` has), imports and checks (`CheckSanity`: the separation that is given or
computed, the product of unsigned numbers that wraps at `UINT`). Every command line
that gets past `sim_alloc_bufs()` is played, and `CodesApart` looks at the
addresses that get loaded. It has a premise, `Representable`: that the product of
`check_sanity()` does not wrap and core fits into field_t. Finding 5 shows that it
cannot do without.

**Tournament** begins with numbers that `check_sanity()` has found sane, as constants
(`SanityAssumption`; how they come about, and what else gets through, is the matter of
`Startup`). It calls `Positions` in each round (`BeginRound`, `Place`), loads, and
replaces a battle by its outcome: any set of slots dies, and programs store their
name in the p-space of the slot they run in. `StartPositions` is where a slot starts
to execute, and the code that is loaded there belongs to some warrior (`Owner`);
`slots` says whose p-space the slot is given. `set_starting_order()` computes these
two separately. `tally` and `firsts` are history variables: they are kept by the owner of
the code, `Results` by the p-space.

**Evolver** has one action per iteration of each loop: `PopulationLoop` per
warrior, `BattleDone` per battle, `Sort`, `Retire`, `Roll`, `Mate` or `TurnWheel`
per turn of the roulette wheel. Warriors are numbered in the order of their
creation. Their order by address, which is what `std::sort` gets to see, is not
determined by the program: it is chosen the first time it matters and stays.
`Create()` is taken to return, which is checked in `Offspring`; a battle's result is
any of a given set, and `Duel` shows what a battle is made of.

**Buffers** counts the blocks of each kind on the heap and keeps what the four
pointers and `NWarriors` say. `Grants` is what the mallocs of a call return: any of them
may fail; `alloc_pspaces()` stops at the first p-space it does not get and undoes its work.
What `sim_alloc_bufs2()` undoes when it gives up (`FreeBufs` with 0 warriors) does not
include the p-spaces, if they were obtained: `Lost` is what no pointer leads to any more. Several programs may share the
simulator's globals, and each may allocate for another number of warriors; so
`sim_alloc_bufs2()` is called any number of times, without a call of
`sim_free_bufs()` in between, which `exhaust-1.9.2/README` allows.

**Duel** is the evolver's use of it. `Schedule` is the part of `fight()` before the
loop: the static variables take their values, p-spaces are reset. `BeginRound` clears
core and loads both warriors, `Store` and `EndRound` stand for `sim()`, where
warriors write to p-space and core and none or one of them dies, `Panic` is the exception when
there are no buffers. A stored value is a `Stamp` that tells battle and warrior,
so that a value that leaks from one battle into the next can be seen.

**Asm** reads a file line by line. A word is a string of letters, another character or an
integer; `get_tok` looks strings up in `str_toks`, and any that is not in the table is
the token "STR", which no instruction contains. `Parsed` is what a line says: the return
code of `asm_line()`, an instruction, the start flag, the number of ORG or PIN;
`asm_line` is what the function hands over, with 16 bits of that number, since it uses the
a-field of an instruction for it. The actions are the cases of
`asm_file()`. `Overrun` is what happens when something is assembled after `MAXLENGTH`
instructions: the code writes past the array before it looks at the length, and
nothing is known from there on (status "undefined"). `Meaning` is the definition that
`AssembledAsWritten` compares with: it looks at the lines of the file as they are written
(`Lines`, with whole numbers), all at once, and numbers the
instructions by counting those before them. The code is always what the file means; start,
PIN and whether the file is accepted are so if the numbers fit into a field (`Fitting`),
and need not be otherwise (see the limits in §4). `AssembledAsWritten` also says that no files
end in "undefined" but those with an instruction, ORG or PIN after `MAXLENGTH` instructions. `dis1` and
`to_red` are the way back. **Reproduce** has the set of all children that one pass
through the loop of `Create()` may build (`Tries`), from the weights of the roulette wheel, and
`might_execute()`; a pass fails or succeeds. **Offspring** puts them together, and
executes what has been read with `Redcode`, so that `OpInfo`, which the assembler, the
evolver and `exhaust.cpp` rely on, is compared with what the simulator does, and an
instruction that works on two fields with the two that work on one (`HalvesAgree`).

## 3. Runs

| run | instance | what it shows |
|---|---|---|
| `MarsSched` | 3 warriors, 2 processes each, 4 cycles, core of 2 | queues, cycle of survivors, the tie clock, the end of every battle, and the refinement of `AbstractBattle` |
| `Mars` | 2 warriors with 7 programs, core of 5, 3 processes, p-space shared or not | instructions are steps of the scheduler; fields in range; the outcome is told and `sim()` names the survivor |
| `Startup` | 53 command lines: 4 warriors of 0 to 3 instructions, separation given or computed, core of 11; one to three warriors in cores of 1 to 31; 2 retries, 2 backtracks; 6-bit numbers, 4-bit fields | codes do not overlap, unless the product of `check_sanity()` has wrapped or core exceeds field_t; positions are apart under the same premise; the search ends |
| `Startup_wrap` | 4 warriors of 2, 2, 2 and 1 instructions, separation a quarter of `UINT` | *violation*, finding 5: codes overlap |
| `Tournament` | 3 warriors, 3 rounds, core of 6, all ways to have a PIN or none | results and p-space follow the warrior; results add up; the start is fair |
| `Duel` | 2 battles of up to 2 rounds, core of 9, separation 3, 2 allocations for 1 or 2, any malloc may fail | all buffers or none; memory is lost by failing allocations only; both warriors as a whole in core; p-space begins fresh; every round is counted |
| `Duel_leak` | the same | *violation*, finding 4: the p-spaces of a failed allocation stay on the heap |
| `Offspring` | every opcode, modifier and pair of modes with two pairs of fields; 5 founders and all pairs of them, 12 files that are refused, 3 that are too long, 3 with numbers beyond 16 bits; core of 5, room for 4 instructions, 3 allowed | files are assembled as they read, if their numbers fit, and written so that they read the same; the array is left by the files only that say more than fits; `Create()` returns; children are fertile; `OpInfo` agrees with the simulator; the two fields of an instruction are independent; operands are cached |
| `Evolver` | 6 warriors, 2 benchmarks of 2 enemies, battles won or tied, 2 generations | pending battles and scheduled battles correspond; grading ends before breeding begins; the first third mates among itself, one child each; child counts and ownership |
| `Evolver_fittest`, `Evolver_hang`, `Evolver_crash` | the 3 warriors of `main()` | *violations*, findings 2, 1 and 3: better warriors retire before worse ones, `breed()` does not return, null is dereferenced |

Bounds, and why they are enough. `MarsSched`: three warriors have every kind of
neighbourhood in the cycle (a death next to the one whose turn it is, two deaths
in a row), seven slots are passed by all slices within the twelve turns, and
both sides of the process limit are reached; the proofs cover all other sizes.
`Mars`: a core of five in which the programs meet at once. `Startup`: at four
warriors `posit()` can collide with each of two earlier positions; the core leaves
four ways to use the room, so that `npos()` has to sort, and is narrow enough for
`posit()` to use up all its attempts; the command lines have every length from
nothing to one more than the separation, cores that warriors fill to the last location,
separations whose product wraps to nothing or to a little, and cores larger than a
field can hold. What matters of the widths is that a separation can be a quarter of `UINT`,
a core larger than `FIELD`, and that `FIELD` divides `UINT`.
`Tournament`: three rounds of three warriors are one rotation; the warriors fill
core to the last location, which leaves `npos()` only the shuffle to choose
(`Startup` has the rest); p-space has one location beside location 0, since
locations do not interact. `Duel`: two battles, so that the second finds what the first has
left; a warrior as long as it may be and one as short; two allocations, so that one
fails before or after one that does not, and for another number of warriors. `Offspring`: one
instruction of each kind is executed with operands 0 and 1 and neighbours that
contain other values, so that every indirection differs; fields of
both signs, out of the range of core and beyond 16 bits are assembled; programs
end before, at and after the room there is; words that are names of token codes (`MODM`,
`DIRECT`, `INT`) and not in the table of strings are refused wherever a token of that kind is
expected. `Evolver`: six is the smallest population in
which two warriors mate; in two generations a child of the first can be retired by
the second; with two enemies in each of two benchmarks results of different battles
can be mixed up. CHECK_DEADLOCK is FALSE where a battle, a tournament, a program or
the bound of a model ends.

Fairness. The evolver has one thread, which executes loops in which nothing waits.
For the liveness of grading, `GradingSpec` assumes weak fairness of the
steps of grading and nothing of breeding; that breeding ends is refuted under weak
fairness of the whole next-state relation. No fairness
is assumed of a choice of random numbers there; the counterexample of finding 1 does not
need one. In `Startup` the loops of `compute_positions()` are weakly fair: nothing can
keep them from going on, and the numbers that `rng()` returns remain arbitrary, so
that the end of the search rests on the bounded retries alone. `Offspring` is the one
place where chance is trusted: `Create()` has no bound on its tries, the draws
of its tries are independent, so a try that can succeed does so in the end
(`WF(TrySucceeds)`). `CreateEnds` says for which parents there is such a try.
`MarsSched` assumes no fairness: that a battle ends is stated by `ClockRuns`, by which every turn
ends it or takes the clock nearer to 0 and not past it.

## 4. Findings

1. **`breed()` does not return** (`population.cpp:91`) when the lucky warrior is the
   first of the order and the ball stops at it: the roll is not renewed, and from
   the second turn of the wheel on it stops at the first warrior. With the three
   warriors of `main()` this is always so.
2. **Warriors are sorted by address**, not by score (`population.cpp:68`).
3. **A founder that is retired has no heritage**: null is dereferenced
   (`population.cpp:74`).
4. **A failed allocation of core loses the p-spaces** (`sim.c:147`): when core, queue or the table
   of warriors cannot be allocated but the p-spaces can, `sim_alloc_bufs2()` calls
   `sim_free_bufs()` with `NWarriors` still 0, and `free_pspaces(0)` frees nothing. Nothing else loses
   memory: this is proved (`LossTheorem`).
5. **The check of space wraps** (`exhaust.c:226`): the number of warriors times the separation
   is an unsigned product of 32 bits. Four warriors and `-d 1073741824` make it 0, no core is too
   small for that, and the rounds are played; `posit()` gives up, and what `npos()` adds
   to its random numbers to keep them apart is lost in the 16 bits of a position. Below
   2^32 the check does what it should: this is proved (`CodesApartTheorem`).

Limits that no run refutes, because the model has them built in or a premise leaves them out:

* The clock of a tie may be one instruction short (`sim.c:782`). A death
  takes `cycles / alive_cnt` off the clock, the share of the dead warrior, in which
  the turn that it has just used is still counted; the bottom of the loop
  (`sim.c:1193`) takes that turn once more. Say three warriors have two cycles
  each: the first one dies with its first instruction, and the clock is set to
  6 - 6/3 = 4 and then to 3; the other two execute one instruction each, the second one
  its second, and a tie is called although the third has executed only one. One death
  is enough, and nothing is rounded: a quotient that is rounded down makes up for
  the turn counted twice. `TieIsFair` allows this loss and no other; that it is never more than
  one instruction of one survivor, for any number of deaths, is proved (`ClockTheorem`).
* `pspace_alloc()` writes to null (`pspace.c:52`) when the second of its two mallocs fails: it has
  freed `p` and set it to `NULL`, and then writes `p->mem`. The model stops there (`at` is "crashed"), and
  `AllOrNothing` says nothing of it.
* Large PINs and start addresses are cut off (`asm.c:358`, `asm.c:350`): `asm_line()` hands
  them to `asm_file()` in the a-field of an instruction, which has 16 bits, while both are kept in
  32. PIN 65537 becomes PIN 1, and the warrior would share p-space with another of PIN 1; ORG 65536
  starts at the first instruction instead of being refused. So `AssembledAsWritten` promises
  start and PIN for numbers that fit only (`Fitting`).
* A file with too many instructions is assembled past the end of the array (`asm.c:492`):
  that there are too many is noticed afterwards (`asm.c:521`), by the length of the warrior, which is
  what comes next in `warrior_t` and may have been overwritten. An ORG or a PIN after the
  last instruction that fits writes there, too. The model stops there (`Overrun`). Nothing shorter
  does it: this is proved (`AssembledTheorem`), and no file that `to_red()` writes is that long
  (`RoundTripTheorem`).
* With as many warriors as core has locations the number of survivors is no field value
  (`sim.c:405`).
* `alloc_related_memory()` writes to `Results[0]` before it looks for null (`exhaust.c:172`).
* Two parents none of which has a branch that a child can reach keep `Create()` for ever
  (`reproduction.cpp:125`), as `CreateEnds` says by its premise.

## 5. Proofs

The first part of `Mars_proofs` is about the scheduler. It proves, for every number of warriors, processes and cycles and
every size of core (positive integers, `NWarriorsAssumption` and so on):

* `CycleTheorem`: `RingIntact`, and `DeathTable`.
* `ClockTheorem`: `TieIsFair`, from `TurnsEven` and `ClockInv`.
* `RunsTheorem`: the action property `ClockRuns`, from `ClockInv`.
* `TypeTheorem`: `TypeOK`.
* `QueueTheorem`: `QueuesIntact`, and the action property `NeverOverwrites`, from
  `SlicesSlide`.
* `BattleTheorem`: `ImplementsBattle`, that is, `MarsSched` implements `AbstractBattle`.
* `SurvivorTheorem`: `ResultNamesSurvivor`, half of `OutcomeTold`.

The run checks the conclusions; the invariants they are derived from stand in
`MarsSched` for the proofs.

The argument. The cycle of survivors is inductive by itself, once it is said that
`succ[i]` is the *next* survivor (`Between`): to know that removing `w` leaves the
cycle closed one has to know that nobody is between `pred[w]` and `succ[w]` but `w`.
From it follows that turns are even (`TurnsEven`), which is the fact that makes the
clock predictable. The clock is `alive_cnt * (Cycles - turns[w]) - |Ahead| - Loss`
where `Loss` is 0 or 1: the correction at a death divides exactly this number by
`alive_cnt`. Since `Ahead` is smaller than `alive_cnt`, the quotient is the share of the
dying warrior (`Cycles - turns[w]`, its present turn included) or one less: in the first
case, possible only while nothing is lost, the present turn is taken twice and `Loss`
becomes 1; in the second the rounding makes up for it and `Loss` stays (`QuotientBound`). For the queues, the slice of a
survivor starts at `Base(i) + turns[i]` modulo the size of the buffer (`SlicesSlide`)
and two survivors differ by at most one in `turns`; slices of at most `Processes`
slots at distance `Processes`, give or take that one, stay disjoint thanks to the one
spare slot. So the safety of the ring buffer rests on the fairness of the scheduler,
which rests on the cycle: `QueuesIntact` alone is not inductive.

The refinement is proved on top of these. An abstract queue is the slice of a ring
buffer read in order (`ProcsOf`), so each action needs one fact about reading:
what `ProcsOf` of the warrior in turn is after one process has been taken from the head and
none, one or two have been appended at the tail (`ProcsAfter`; it needs that the
slices are disjoint and no longer than `Processes`), while those of the others stay
(`SlicesSlide` again). The abstract turn passes to the next survivor in the order of
ids, starting again at the first: that this is what `succ` leads to is `TurnPasses`, from
`Between`. That a battle is over exactly when the abstract one is decided or tied takes
`DecidedStops` and the clock. `SurvivorTheorem` needs `DecidedStops`, too: with two
warriors, `death_tab` has one entry or none when `over` is set.

The second part is about programs in core, for every set of programs
(`ProgramsAssumption`: sequences of instructions), core, p-space and number of
warriors and processes:

* `ScheduledTheorem`: `MarsSpec => Spec`, a battle of instructions is a behaviour of
  the scheduler. Therefore every theorem about `Spec` holds of it.
* `FieldsTheorem`: `FieldsInRange`. `OutcomeTheorem`: `OutcomeTold`.
  `PrivateTheorem`: the action property `LocationZeroIsPrivate`.

Each stands under `NWarriors < Coresize`, because with as many warriors as core has
locations the number of survivors is not a field value, and LDP would bring it into
core (`sim.c:405`, see the limits above). The invariant is
`FieldsInRange`, the type of p-space (`PSpacesOK`: the other way for a value into core)
and the layers of the scheduler's invariant. The lemmas under it go through the
operands (predecrement, indirection, postincrement) and the opcodes once: whatever
an instruction does, core stays well typed and the addresses at which the process
continues are at most two and in core, which is the guard of the scheduler's action.

`Evolver_proofs` proves all the invariants of the run `Evolver`, for any number of
founders, children, benchmarks, enemies, rounds and generations (six theorems:
`TypeOK`, `PendingIsScheduled`, `BreedOnGrades`, `OwnedOnce`,
`ChildrenCounted`, `TopMates`), from one inductive invariant:

* `People`: every warrior is in `warriors` or `old_warriors`, once, and `child_count`
  counts the members of `warriors` that name it in their heritage. The two need each
  other: a warrior that retires is uncounted for two parents, who may be retired
  themselves, and must not have been counted twice. Nothing is said when `breed()` has crashed.
* `Scores`: pending battles correspond to reports in the queue, and points to battles reported.
  Reports name warriors and benchmarks that exist.
* `LookedAt`: what `CPopulation::loop()` has seen when it says that all have fought.
  `BreedOnGrades` is not inductive without it, since `all_fought` is set
  warrior by warrior and used after the scheduler has been looked at.
* `Breeding`: what `Sort` and `Retire` leave to the roulette wheel. `num` is a third
  of the former size, so that as many are left as mate, and `total_score` is the sum over
  the first `num` all along (`Arc`), while children without a score are appended.
  This is what makes the sums natural numbers: no `~0` is added.

`MaxGenerations`, the bound of the model, is assumed to be a natural number.

`DataLemmas` holds what these proofs need to know about data and the provers do not:
quotients and remainders; the size of an interval, a set that is moved along, the members
of a sequence of one kind; and folds. The library's induction theorems take operators
as parameters, so induction is in the form of sets that are empty because they have no
least (or smallest) member: `NoLeastFailure`, `NoSmallestFailure`. With these the
existence of the function that a fold chooses is proved (`FoldExists`, `ChainExists`),
and what sums are (`SumType`, `SumZero`, `SumGrows`).

`Positions_proofs` is about what the loops do to the positions, for any numbers whatever
(`Indexed`: indices stay inside, and a position is a field), and for sane ones (`Sane`:
the number of warriors times the separation is no larger than core, and core no
larger than a field allows).
For the latter, the invariant (`LaidOut`) says what each loop may rely on: while
`posit()` runs, the positions so
far are spread (at least `OPT_minsep` apart, and so far from both ends of core);
while `npos()` chooses, they are sorted and leave room; separation turns sorted into
spread (warrior `i` moves `i * OPT_minsep`), and a permutation keeps it; no sum or product on
the way wraps. Spread is
stated as in `posit()`, with the difference of addresses; that it implies distance
around the end of core, which `Apart` asks for, is shown last.

`Startup_proofs` proves the three invariants of the run `Startup` from it, for every set of
command lines (`CommandLinesAssumption` only says that they are sequences of arguments and
that a file has a length), all numbers of retries and widths (`WidthAssumption`):
`PosTypeTheorem`, `ApartTheorem`, `CodesApartTheorem`. Nothing is assumed of what
is played; that the numbers are sane when they are representable is what has to be shown
(`SpaceIsThere`): the separation that is given or computed dominates all lengths, and its
product with the number of warriors, which does not wrap then, fits into core. The invariant
says what each call of `main()` has established (`CallInv`, `SaneInv`).

`Tournament_proofs` uses the same lemmas (with `Coresize` for `OPT_coresize`, and sane by
`SanityAssumption`): since the warriors are apart, a start address lies
in the code of exactly one of them (`OwnerIs`), so the code of a slot and its p-space
are the same warrior's (`ExecutedIs`). From this follow, for every number of warriors
and rounds and whatever programs store, `ResultsTrue` (`ResultsTheorem`) and `StartFair`
(`StartTheorem`: warrior `i` has been first in every full rotation, and in the
current one when `i` is below the remainder). The other properties of its run are
proved as well, from `LedgerInv`:

* `ShareTheorem`: `PinsShare`. The inner loop of `amalgamate_pspaces()` is a fold
  (`LentIs`), the outer one a chain (`AmalgamatedIs`); its invariant `Sharing(n, mem)`
  says that the first `n` warriors share as they should and use blocks of the first `n`,
  while the others still have their own. That a warrior lends to *all* before it, and
  not only to its neighbour, is what keeps it.
* `LoyalTheorem`: `PSpaceLoyal`, from `PinsShare` and `ExecutedIs`: a program that stores
  does it in the block of the warrior whose code it is.
* `SumsTheorem`: `ResultsAddUp`, from `SumInv` about `tally`. A battle adds one to every row,
  and one to as many rows of column `k` as there are survivors, since the slots of
  the dead are as many as the dead warriors (`FallenSize`: the shift is a bijection).
* `TournamentTypes`: `TypeOK`.

`Duel_proofs` proves all five properties of the run `Duel`, for any core, separation,
p-space, warriors, numbers of rounds, battles and allocations:

* `LoadedTheorem`: `LoadedWhole`. `minsep <= enemypos < Coresize - minsep` and lengths of at
  most `minsep` keep both warriors from each other and from the end of core.
* `FreshTheorem`: `PSpaceFresh`. `FreshInv` adds that both warriors have their own
  blocks back, so that `sim_clear_pspaces()` clears both.
* `ResultsTheorem`: `ResultsAddUp`. `RoundsInv` says how the static variable and
  the world's number of rounds are related, `SurvivorInv` that location 0 tells of the
  last round what `sim()` returned.
* `MemoryTheorem`: `AllOrNothing`, and `LossTheorem`: the action property
  `LostByFailureOnly`, whatever malloc refuses. With complete buffers `FreeBufs` reaches all
  but what had been lost before (`AllFreed`); `sim_alloc_bufs2()` adds what it has got to that
  and, when it gives up, takes away core, queue and table of warriors again (`GiveUpInv`).
  `AllOrNothing` does not say that nothing is lost, since finding 4 refutes it.

`Offspring_proofs` proves all the invariants of the run `Offspring`, for every core,
every set of files (`ShelvesAssumption`: sequences of sequences of words, whatever they are),
and every `maxlength` and `MAXLENGTH`, provided that a warrior that is allowed has
room in the assembler and in core (`WorldAssumption`; in the program 100, 100 and 8000).
The inductive invariant `OffspringInv` has these parts, and was checked on the run first:

* `AsmInv`, for `AssembledTheorem` (`AssembledAsWritten`): while `asm_file()` reads,
  the warrior it builds is what the lines so far mean, as `asm_line` hands them over
  (`Reading`, `KeptAsWritten`). `Meaning` looks at
  a file as a whole, so the lemma is what one line more does to it (`MeaningGrows`:
  code, start and PIN), which rests on the numbering of the instructions (`CodeGrows`).
  Each case of `asm_line()` that the code distinguishes does just that. In a second step
  these lines are compared with those that are written (`LinesKept`): they differ in the
  numbers of ORG and PIN only, which the code does not depend on (`KeptCode`), and not at
  all if those fit (`KeptFitting`).
* `Sound`, of all warriors that have been read, born or written: between 1 and
  `maxlength` instructions, and a start among them. Without it nothing could be said of
  the file that `to_red()` writes.
* `Fertile(child)`, for `FertileTheorem` (`StaysFertile`): what passes `might_execute()`
  has a branch, and what a pass of `Create()` builds is shorter than `maxlength`, so that
  the branch stands where a child of the child can still get it (`TriesSound`).
* `Journey`, for `RoundTripTheorem` (`RoundTrip`): the warrior that was written is on the
  shelf, being read, or has come back as it was. `WrittenMeaning` says that its file
  means the warrior: every instruction is read as written (`InsnRead`, from the words
  to the tokens and back: the names of opcodes and modes are different, a field that is written
  as a negative number is the same modulo `Coresize`), the header means nothing
  (`HeaderRead`), and START labels the instruction it was written before (`WrittenStart`).
  That no such file overruns the array is `AsmInv` with `maxlength <= MAXLENGTH`.

Three theorems are about one instruction of a warrior that is alone in core.
The first half of `OpInfoTheorem` (`OpInfoAgrees`), `BranchesAgree`, holds in every state. Its second
half, `ModifierIsEffective`, `CachedTheorem` (`OperandsAreCached`) and `HalvesTheorem`
(`HalvesAgree`) need that core
holds instructions, which `Sound` gives (`AloneInCore`). For `ModifierIsEffective`: evaluating an operand and
replacing a modifier commute (`OperandAgrees`), so both executions have the same
registers; then the `switch` takes the same way and makes the same change at the
B-address (`SwitchAgrees`), because the modifier is not looked at or pairs the same
fields (`EffectiveFields`); so cores are the same but for that modifier, also when
the instruction changes itself (`CoreAgrees`). For `HalvesTheorem` the operands are the same
again (`OperandsAgree`); a field is written by one pair of fields only, with the same
result whatever other pair the modifier has (`ResultOf`), or left alone in both cases because of a
division by zero (`HalfAgrees`).

The provers do not know that two literals are strings: `VocabularyAssumption` says it of the
words that `to_red()` writes, and TLC evaluates it.

Only model-checked is liveness (`GradingEnds`, `PositionsFound`, `CreateEnds`), which is
out of the prover's reach, as is ENABLED. Every other property of the passing runs
is stated by a theorem.

## 6. Not modelled

* Text: how `get_tok()` cuts a line into words character by character (what it makes of a
  word is modelled), letters in lower case, lines that do not fit into the buffer of `fgets()`, the output of
  results, names of warriors. `discore()` and `mutation()`, `warrior_by_uid` and
  `suggest()`, which nothing calls.
* `sim()` with -1 warriors, by which it only allocates, and with one warrior; the
  getters of the simulator.
* The Markov model: `main()` loads it and nothing ever asks it, so that no behaviour
  depends on it. `ui_gnuplot.c` writes to a pipe; `blossom_utils` has exceptions and
  macros; the generator behind `irand()` is third-party. The files `inst_gen*` are
  not built by the Makefile.
* Widths of integers, except where `exhaust` computes a separation and positions
  (`Positions`, `Startup`) and where the assembler keeps a PIN or a start in a field (`Asm`):
  elsewhere values are assumed to fit, `cycles` into an int, scores into 32 bits, fields
  into 16, and cores to have at most 65536 locations. The branch of the `switch` that
  returns -1 is compiled out.

## 7. Plan

Done: all components of section 2, with proofs of all invariants, action properties and
refinements that the passing runs check. What a next step could take up:

1. The 16 bits of a field of core and the width of `cycles`, as constants of `Core` and
   `MarsSched`, with the bounds under which nothing wraps.
2. Text: the characters of a line and the buffer of `fgets()`, with lines that are cut in two.
3. Several populations in a world, which `world.cpp` allows and `main()` does not use.
