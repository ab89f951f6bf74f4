------------------------------ MODULE MarsSched ------------------------------
(***************************************************************************)
(* The scheduler of the simulator, sim_proper() in exhaust-1.9.2/sim.c:    *)
(* the circular list of warriors, the process queues that slide along one  *)
(* shared circular buffer, the deaths and the countdown to a tie.  What an *)
(* instruction does to core is left to Mars.tla; here it may take any of   *)
(* the four ways out that the switch offers: fall through to the queue,    *)
(* jump, split or die.                                                     *)
(*                                                                         *)
(* A warrior is named by its id, its place in war_pos_tab.  War_Tab holds  *)
(* warrior i at index nwar-1-i, so that "succ", which runs down War_Tab,   *)
(* runs up the ids.  nwar is NWarriors in every call of the repository.    *)
(***************************************************************************)
EXTENDS Core, Sequences, FiniteSets

CONSTANTS
    NWarriors,    \* the warriors the buffers were allocated for
    Processes,    \* processes per warrior
    Cycles        \* instructions per warrior before a tie

ASSUME NWarriorsAssumption == NWarriors \in Nat \ {0}
ASSUME ProcessesAssumption == Processes \in Nat \ {0}
ASSUME CyclesAssumption    == Cycles \in Nat \ {0}

Warriors == 0 .. NWarriors - 1

QSize == NWarriors * Processes + 1
Slots == 0 .. QSize - 1

(* The content of a slot of the freshly allocated buffer: not an address.  *)
Unset == Coresize

VARIABLES
    queue,               \* Queue_Mem, the buffer shared by all queues
    head, tail, nprocs,  \* the fields of w_t: the queue of each warrior ...
    succ, pred,          \* ... and its neighbours in the cycle of survivors
    w,                   \* the warrior whose turn it is
    deaths,              \* death_tab, as far as it has been filled
    cycles,              \* instructions left until a tie
    alive_cnt,           \* number of survivors
    over,                \* sim_proper() has reached its label "out"
    turns                \* history: the instructions each warrior executed

vars == <<queue, head, tail, nprocs, succ, pred, w, deaths, cycles,
          alive_cnt, over, turns>>

Alive == {i \in Warriors : nprocs[i] > 0}

-----------------------------------------------------------------------------
(* Setup of queue, links and counters.                                     *)

(* The first slot of the slice of warrior i: wN's is lowest, w1's highest. *)
Base(i) == (NWarriors - 1 - i) * Processes

(* War_Tab is linked into a cycle in the order of execution.               *)
InitRing ==
    /\ succ = [i \in Warriors |-> (i + 1) % NWarriors]
    /\ pred = [i \in Warriors |-> (i - 1) % NWarriors]
    /\ w = 0

Init ==
    /\ \E war_pos_tab \in [Warriors -> Addr] :
          queue = [s \in Slots |->
                     IF \E i \in Warriors : s = Base(i)
                     THEN war_pos_tab[CHOOSE i \in Warriors : s = Base(i)]
                     ELSE Unset]
    /\ head = [i \in Warriors |-> Base(i)]
    /\ tail = [i \in Warriors |-> Base(i) + 1]
    /\ nprocs = [i \in Warriors |-> 1]
    /\ InitRing
    /\ deaths = <<>>
    /\ cycles = NWarriors * Cycles
    /\ alive_cnt = NWarriors
    /\ over = FALSE
    /\ turns = [i \in Warriors |-> 0]

-----------------------------------------------------------------------------
(* One turn of the main loop.                                              *)

(* Mutant of SlotAfter: the end of the buffer is missed by one slot.       *)
SlotAfterLate(s) == IF s = QSize THEN 0 ELSE s + 1

SlotAfter(s) == IF s + 1 = QSize THEN 0 ELSE s + 1

(* The core address that the process at the head of w's queue is at.       *)
ip == queue[head[w]]

(* The top of the loop takes the next process of w off its queue.          *)
Fetch ==
    /\ ~over
    /\ head' = [head EXCEPT ![w] = SlotAfter(@)]
    /\ turns' = [turns EXCEPT ![w] = @ + 1]

(* The bottom of the loop, reached with c left on the clock: on to the     *)
(* next warrior, and stop when the clock has run out.                      *)
Tick(c) ==
    /\ w' = succ[w]
    /\ cycles' = c - 1
    /\ over' = (c - 1 <= 0)

(* The macro queue(): one more process at the tail of w's queue.           *)
Enqueue(a) ==
    /\ queue' = [queue EXCEPT ![tail[w]] = a]
    /\ tail' = [tail EXCEPT ![w] = SlotAfter(@)]

(* Mutant of EnqueueTwo: tail is advanced for one process only.            *)
EnqueueTwoShort(a, b) ==
    /\ queue' = [queue EXCEPT ![tail[w]] = a, ![SlotAfter(tail[w])] = b]
    /\ tail' = [tail EXCEPT ![w] = SlotAfter(@)]

EnqueueTwo(a, b) ==
    /\ queue' = [queue EXCEPT ![tail[w]] = a, ![SlotAfter(tail[w])] = b]
    /\ tail' = [tail EXCEPT ![w] = SlotAfter(SlotAfter(@))]

(* The process goes on at a: the next instruction, the one after it or the *)
(* target of a jump.                                                       *)
Continue(a) ==
    /\ Fetch
    /\ Enqueue(a)
    /\ Tick(cycles)
    /\ UNCHANGED <<nprocs, succ, pred, deaths, alive_cnt>>

(* Mutant of Split: the limit is tested with <= instead of <.              *)
SplitOneMore(a) ==
    /\ nprocs[w] <= Processes
    /\ Fetch
    /\ EnqueueTwo(IncMod(ip), a)
    /\ nprocs' = [nprocs EXCEPT ![w] = @ + 1]
    /\ Tick(cycles)
    /\ UNCHANGED <<succ, pred, deaths, alive_cnt>>

(* SPL with room for one more process: the old one first, then the new.    *)
Split(a) ==
    /\ nprocs[w] < Processes
    /\ Fetch
    /\ EnqueueTwo(IncMod(ip), a)
    /\ nprocs' = [nprocs EXCEPT ![w] = @ + 1]
    /\ Tick(cycles)
    /\ UNCHANGED <<succ, pred, deaths, alive_cnt>>

(* Mutant of SplitFull: at the limit nothing is queued.                    *)
SplitFullForgets ==
    /\ nprocs[w] >= Processes
    /\ Fetch
    /\ Tick(cycles)
    /\ UNCHANGED <<queue, tail, nprocs, succ, pred, deaths, alive_cnt>>

(* SPL at the limit: only the old process is queued.                       *)
SplitFull ==
    /\ nprocs[w] >= Processes
    /\ Fetch
    /\ Enqueue(IncMod(ip))
    /\ Tick(cycles)
    /\ UNCHANGED <<nprocs, succ, pred, deaths, alive_cnt>>

(* DAT or a division by zero: the process dies, others of w remain.        *)
ProcessDies ==
    /\ nprocs[w] > 1
    /\ Fetch
    /\ nprocs' = [nprocs EXCEPT ![w] = @ - 1]
    /\ Tick(cycles)
    /\ UNCHANGED <<queue, tail, succ, pred, deaths, alive_cnt>>

(* Mutant of Unlink: the way back still leads through w.                   *)
UnlinkForwardOnly ==
    /\ succ' = [succ EXCEPT ![pred[w]] = succ[w]]
    /\ UNCHANGED pred

(* w leaves the cycle; its own links stay as they are.                     *)
Unlink ==
    /\ succ' = [succ EXCEPT ![pred[w]] = succ[w]]
    /\ pred' = [pred EXCEPT ![succ[w]] = pred[w]]

(* Mutant of CyclesAfterDeath: no correction.                              *)
CyclesUncorrected == cycles

(* Mutant of CyclesAfterDeath: the clock starts again for those left.      *)
CyclesRestarted == (alive_cnt - 1) * Cycles

(* What the clock is set to when w dies: nC+k -> (n-1)C+k.                 *)
CyclesAfterDeath == cycles - (cycles \div alive_cnt)

(* The last process of w dies, and w with it.                              *)
WarriorDies ==
    /\ nprocs[w] = 1
    /\ Fetch
    /\ nprocs' = [nprocs EXCEPT ![w] = 0]
    /\ Unlink
    /\ deaths' = Append(deaths, w)
    /\ alive_cnt' = alive_cnt - 1
    /\ IF alive_cnt - 1 <= 1
       THEN over' = TRUE /\ cycles' = CyclesAfterDeath /\ UNCHANGED w
       ELSE Tick(CyclesAfterDeath)
    /\ UNCHANGED <<queue, tail>>

Next ==
    \/ \E a \in Addr : Continue(a) \/ Split(a)
    \/ SplitFull
    \/ ProcessDies
    \/ WarriorDies

Spec == Init /\ [][Next]_vars

(* Mutant of SimResult: the winner and the loser are mixed up.             *)
SimResultLoser ==
    IF alive_cnt = 2 THEN 2 ELSE deaths[1]

(* What sim() returns of a battle of two: 0 and 1 for the winner, 2 for a  *)
(* tie.                                                                    *)
SimResult ==
    IF alive_cnt = 2 THEN 2 ELSE IF deaths[1] = 0 THEN 1 ELSE 0
-----------------------------------------------------------------------------
(* Properties.                                                             *)

QueueTypeOK ==
    /\ queue \in [Slots -> Addr \cup {Unset}]
    /\ head \in [Warriors -> Slots]
    /\ tail \in [Warriors -> Slots]

ControlTypeOK ==
    /\ nprocs \in [Warriors -> 0 .. Processes]
    /\ succ \in [Warriors -> Warriors]
    /\ pred \in [Warriors -> Warriors]
    /\ w \in Warriors
    /\ deaths \in Seq(Warriors)
    /\ cycles \in Int
    /\ alive_cnt \in 0 .. NWarriors
    /\ over \in BOOLEAN
    /\ turns \in [Warriors -> Nat]

(* Every variable keeps its type: addresses of queue slots stay inside the *)
(* buffer and w inside War_Tab.                                            *)
TypeOK ==
    /\ QueueTypeOK
    /\ ControlTypeOK

(* The slots that hold the processes of warrior i.                         *)
Live(i) == {(head[i] + k) % QSize : k \in 0 .. nprocs[i] - 1}

(* The queues slide along the shared buffer without ever running into one  *)
(* another: the slots of two survivors are disjoint, each queue ends where *)
(* its count says, and holds only core addresses, never a slot's old       *)
(* content (sim.c, the comment on the queue buffer at 528-552).            *)
QueuesIntact ==
    \A i \in Alive :
        /\ tail[i] = (head[i] + nprocs[i]) % QSize
        /\ \A s \in Live(i) : queue[s] \in Addr
        /\ \A j \in Alive \ {i} : Live(i) \cap Live(j) = {}

(* No turn overwrites a process that is waiting: only the slot w's process *)
(* was just taken from may be reused (sim.c:502 writes blindly at tail).   *)
WaitingKept ==
    \A i \in Alive : \A s \in Live(i) :
        (i # w \/ s # head[w]) => queue'[s] = queue[s]
NeverOverwrites == [][WaitingKept]_vars

(* j is met after i and before k on the way around the cycle.              *)
Between(i, j, k) ==
    IF i < k THEN i < j /\ j < k ELSE i < j \/ j < k

(* The links run through the survivors in the order of their ids, none is  *)
(* skipped, and pred and succ undo each other, whatever the order of       *)
(* deaths (sim.c:779-780).                                                 *)
RingIntact ==
    /\ w \in Alive \/ (over /\ alive_cnt <= 1)
    /\ \A i \in Alive :
          /\ succ[i] \in Alive /\ pred[succ[i]] = i
          /\ pred[i] \in Alive /\ succ[pred[i]] = i
          /\ \A j \in Alive : ~Between(i, j, succ[i])

(* death_tab lists each dead warrior once, and alive_cnt counts the others *)
(* (sim_mw() reads nwar-alive_cnt entries of it, sim.c:408).               *)
DeathTable ==
    /\ alive_cnt = Cardinality(Alive)
    /\ Len(deaths) = NWarriors - alive_cnt
    /\ {deaths[k] : k \in 1 .. Len(deaths)} = Warriors \ Alive

(* The survivors that have had their turn in the current cycle.            *)
Ahead == {i \in Alive : i < w}

(* Deaths or not, the survivors ahead of w have had one turn more than w   *)
(* and the others exactly as many: nobody is skipped or served twice.      *)
TurnsEven ==
    w \in Alive => \A i \in Alive :
                       turns[i] = IF i \in Ahead THEN turns[w] + 1 ELSE turns[w]

(* The turns that the survivors are short of Cycles, and how many of them  *)
(* the clock does not grant.                                               *)
Outstanding == alive_cnt * (Cycles - turns[w]) - Cardinality(Ahead)
Loss == Outstanding - cycles

(* The correction of the clock at a death takes the share of the dying     *)
(* warrior, the turn it has just used included, and the bottom of the loop *)
(* takes that turn again, unless the share was rounded down.  The errors of*)
(* several deaths do not add up (sim.c:782-783, 1193).                     *)
ClockInv ==
    w \in Alive => /\ cycles >= 0
                   /\ over <=> cycles = 0
                   /\ Loss \in {0, 1}
                   /\ Loss = 1 => deaths # <<>>

(* A tie leaves no survivor with more than Cycles turns, "the number of    *)
(* cycles to play before tie" (sim.c:353), and none with fewer but the one *)
(* whose turn it was, which may lack the last: the clock is one short after*)
(* some deaths (sim.c:782-783 and 1193).                                   *)
TieIsFair ==
    over /\ alive_cnt > 1 =>
        \A i \in Alive :
            \/ turns[i] = Cycles
            \/ turns[i] = Cycles - 1 /\ i = w /\ deaths # <<>>

(* Every turn ends the battle or takes the clock nearer to 0, and not past *)
(* it, which --cycles at sim.c:1193 would miss: whatever the programs do,  *)
(* and in whatever order they die, there are at most NWarriors * Cycles    *)
(* turns in a battle.                                                      *)
ClockFalls == over' \/ cycles' \in 1 .. cycles - 1
ClockRuns == [][ClockFalls]_vars

(* For a battle of two: sim() names the survivor as the winner, and a tie  *)
(* exactly when both are alive (sim.c:448-451).                            *)
ResultNamesSurvivor ==
    over /\ NWarriors = 2 =>
        SimResult = IF Alive = {0} THEN 0 ELSE IF Alive = {1} THEN 1 ELSE 2

(* "the individual slices slide along at one location per executed         *)
(* instruction" (sim.c:544-546), however the warriors split and die.       *)
Pos(i) == Base(i) + turns[i]
SlicesSlide == \A i \in Alive : head[i] = Pos(i) % QSize

-----------------------------------------------------------------------------
(* The scheduler implements the abstract battle.                           *)

(* The queue of warrior i read off the buffer from head to tail.           *)
ProcsOf(i) == [k \in 1 .. nprocs[i] |-> queue[(head[i] + k - 1) % QSize]]

Battle == INSTANCE AbstractBattle WITH
    procs <- [i \in Warriors |-> ProcsOf(i)],
    alive <- Alive,
    who   <- IF w \in Alive THEN w ELSE succ[w]

(* Sliding slices, links and the corrected clock amount to first-in        *)
(* first-out queues served round robin until a decision or a tie.          *)
ImplementsBattle == Battle!Spec
=============================================================================
