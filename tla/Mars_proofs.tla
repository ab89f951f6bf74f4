------------------------------ MODULE Mars_proofs ------------------------------
(***************************************************************************)
(* Proofs about battles, first as the scheduler sees them and then with    *)
(* the instructions that are executed.                                     *)
(*                                                                         *)
(* About the scheduler, for any number of warriors, processes, cycles and  *)
(* any core: the invariant is built in layers, each proved with the help   *)
(* of the ones below it, first the cycle of survivors and the death table, *)
(* then the turns and the clock, then the queues.  With all of them the    *)
(* scheduler implements the abstract battle.                               *)
(*                                                                         *)
(* About the battle in core: what every instruction does to the ranges of  *)
(* fields and addresses, and with it that a battle of the real             *)
(* instructions is a behaviour of the scheduler.  These theorems are about *)
(* battles of fewer warriors than core has locations: only then is the     *)
(* number of survivors that sim_mw() leaves in p-space (sim.c:405) a value *)
(* that LDP may put into a field.                                          *)
(***************************************************************************)
EXTENDS Mars, DataLemmas, FiniteSetTheorems, SequenceTheorems, TLAPS

USE NWarriorsAssumption, ProcessesAssumption, CyclesAssumption,
    CoresizeAssumption

-----------------------------------------------------------------------------
(* A turn as the cycle of warriors and the clock see it.                   *)

(* w lives on and the next survivor gets its turn.                         *)
LivesOn ==
    /\ ~over
    /\ Alive' = Alive
    /\ nprocs' \in [Warriors -> 0 .. Processes]
    /\ turns' = [turns EXCEPT ![w] = @ + 1]
    /\ Tick(cycles)
    /\ UNCHANGED <<succ, pred, deaths, alive_cnt>>

(* The set of survivors after a change to the count of w alone.            *)
LEMMA AliveAfter ==
    ASSUME ControlTypeOK, NEW n \in 0 .. Processes,
           nprocs' = [nprocs EXCEPT ![w] = n]
    PROVE  /\ nprocs' \in [Warriors -> 0 .. Processes]
           /\ n > 0 => Alive' = Alive \cup {w}
           /\ n = 0 => Alive' = Alive \ {w}
  BY DEF ControlTypeOK, Alive

(* A turn that does not kill w is, for cycle and clock, the same whatever  *)
(* happens to the queue of w.                                              *)
LEMMA TurnCases ==
    ASSUME ControlTypeOK, RingIntact, Next
    PROVE  LivesOn \/ WarriorDies
<1>1. w \in Warriors /\ nprocs \in [Warriors -> 0 .. Processes]
  BY DEF ControlTypeOK
<1>2. ASSUME NEW a \in Addr, Continue(a)
      PROVE  LivesOn
  BY <1>1, <1>2 DEF Continue, Fetch, Enqueue, Tick, LivesOn, Alive
<1>3. ASSUME NEW a \in Addr, Split(a)
      PROVE  LivesOn
  <2>1. ~over /\ w \in Alive
    BY <1>3 DEF Split, Fetch, RingIntact
  <2>2. nprocs[w] + 1 \in 0 .. Processes /\ nprocs[w] + 1 > 0
    BY <1>1, <1>3 DEF Split
  <2>3. nprocs' \in [Warriors -> 0 .. Processes] /\ Alive' = Alive \cup {w}
    BY <1>3, <2>2, AliveAfter DEF Split
  <2>4. QED
    BY <1>3, <2>1, <2>3 DEF Split, Fetch, Tick, LivesOn
<1>4. CASE SplitFull
  BY <1>1, <1>4 DEF SplitFull, Fetch, Enqueue, Tick, LivesOn, Alive
<1>5. CASE ProcessDies
  <2>1. ~over /\ w \in Alive
    BY <1>5 DEF ProcessDies, Fetch, RingIntact
  <2>2. nprocs[w] - 1 \in 0 .. Processes /\ nprocs[w] - 1 > 0
    BY <1>1, <1>5 DEF ProcessDies
  <2>3. nprocs' \in [Warriors -> 0 .. Processes] /\ Alive' = Alive \cup {w}
    BY <1>5, <2>2, AliveAfter DEF ProcessDies
  <2>4. QED
    BY <1>5, <2>1, <2>3 DEF ProcessDies, Fetch, Tick, LivesOn
<1>6. QED
  BY <1>2, <1>3, <1>4, <1>5 DEF Next

-----------------------------------------------------------------------------
(* Layer 1: the cycle of survivors and the death table.                    *)

CycleInv == ControlTypeOK /\ RingIntact /\ DeathTable

(* The survivors are finitely many.                                        *)
LEMMA AliveFinite ==
    /\ IsFiniteSet(Alive)
    /\ Cardinality(Alive) \in Nat
    /\ \A S \in SUBSET Alive : IsFiniteSet(S) /\ Cardinality(S) \in Nat
<1>1. IsFiniteSet(Warriors)
  BY FS_Interval DEF Warriors
<1>2. \A S \in SUBSET Alive : IsFiniteSet(S)
  BY <1>1, FS_Subset DEF Alive
<1>3. QED
  BY <1>2, FS_CardinalityType

LEMMA CycleInit == Init => CycleInv
<1> SUFFICES ASSUME Init PROVE CycleInv
  OBVIOUS
<1>1. Alive = Warriors
  BY DEF Init, Alive
<1>2. Cardinality(Warriors) = NWarriors
  BY FS_Interval DEF Warriors
<1>3. \A i \in Warriors : /\ (i + 1) % NWarriors = IF i + 1 = NWarriors THEN 0 ELSE i + 1
                          /\ (i - 1) % NWarriors = IF i = 0 THEN NWarriors - 1 ELSE i - 1
  BY DEF Warriors
<1>4. ControlTypeOK
  <2>1. \A i \in Warriors : (i + 1) % NWarriors \in Warriors /\ (i - 1) % NWarriors \in Warriors
    BY <1>3 DEF Warriors
  <2>2. w \in Warriors /\ alive_cnt \in 0 .. NWarriors /\ cycles \in Int
    BY DEF Init, InitRing, Warriors
  <2>3. QED
    <3>1. nprocs \in [Warriors -> 0 .. Processes] /\ turns \in [Warriors -> Nat]
      BY DEF Init
    <3>2. succ \in [Warriors -> Warriors] /\ pred \in [Warriors -> Warriors]
      BY <2>1 DEF Init, InitRing
    <3>3. over \in BOOLEAN
      <4>1. over = FALSE
        BY DEF Init
      <4>2. QED
        BY <4>1
    <3>4. deaths \in Seq(Warriors)
      <4>1. deaths = <<>>
        BY DEF Init
      <4>2. QED
        BY <4>1
    <3>5. QED
      BY <2>2, <3>1, <3>2, <3>3, <3>4 DEF ControlTypeOK
<1>5. RingIntact
  <2>1. \A i \in Warriors : /\ succ[i] = IF i + 1 = NWarriors THEN 0 ELSE i + 1
                            /\ pred[i] = IF i = 0 THEN NWarriors - 1 ELSE i - 1
    BY <1>3 DEF Init, InitRing
  <2>2. \A i \in Warriors : /\ succ[i] \in Warriors /\ pred[succ[i]] = i
                            /\ pred[i] \in Warriors /\ succ[pred[i]] = i
    BY <2>1 DEF Warriors
  <2>3. \A i, j \in Warriors : ~Between(i, j, succ[i])
    BY <2>1 DEF Warriors, Between
  <2>4. w \in Warriors
    BY DEF Init, InitRing, Warriors
  <2>5. QED
    BY <1>1, <2>2, <2>3, <2>4 DEF RingIntact
<1>6. DeathTable
  BY <1>1, <1>2 DEF Init, DeathTable
<1>7. QED
  BY <1>4, <1>5, <1>6 DEF CycleInv

LEMMA CycleStep == CycleInv /\ [Next]_vars => CycleInv'
<1> SUFFICES ASSUME ControlTypeOK, RingIntact, DeathTable, [Next]_vars
             PROVE  ControlTypeOK' /\ RingIntact' /\ DeathTable'
  BY DEF CycleInv
<1>1. CASE LivesOn
  <2>1. ControlTypeOK'
    BY <1>1 DEF LivesOn, Tick, ControlTypeOK
  <2>2. RingIntact'
    BY <1>1 DEF LivesOn, Tick, RingIntact, Between
  <2>3. DeathTable'
    BY <1>1 DEF LivesOn, DeathTable
  <2>4. QED
    BY <2>1, <2>2, <2>3
<1>2. CASE WarriorDies
  <2>1. ~over /\ w \in Alive /\ w \in Warriors
    BY <1>2 DEF WarriorDies, Fetch, RingIntact, ControlTypeOK
  <2>2. Alive' = Alive \ {w} /\ nprocs' \in [Warriors -> 0 .. Processes]
    <3>1. 0 \in 0 .. Processes /\ nprocs' = [nprocs EXCEPT ![w] = 0]
      BY <1>2 DEF WarriorDies
    <3>2. QED
      BY <3>1, AliveAfter
  <2>3. /\ Cardinality(Alive \ {w}) = alive_cnt - 1
        /\ alive_cnt \in Nat \ {0}
    BY <2>1, AliveFinite, FS_RemoveElement, FS_EmptySet DEF DeathTable
  <2>4. ControlTypeOK'
    <3>1. cycles \div alive_cnt \in Int
      BY <2>3 DEF ControlTypeOK
    <3>2. cycles' \in Int /\ over' \in BOOLEAN /\ w' \in Warriors
      <4>1. CyclesAfterDeath \in Int
        BY <3>1 DEF CyclesAfterDeath, ControlTypeOK
      <4>2. CASE alive_cnt - 1 <= 1
        BY <1>2, <2>1, <4>1, <4>2 DEF WarriorDies
      <4>3. CASE ~(alive_cnt - 1 <= 1)
        BY <1>2, <2>1, <4>1, <4>3 DEF WarriorDies, Tick, ControlTypeOK
      <4>4. QED
        BY <4>2, <4>3
    <3>3. succ' \in [Warriors -> Warriors] /\ pred' \in [Warriors -> Warriors]
      BY <1>2, <2>1 DEF WarriorDies, Unlink, ControlTypeOK
    <3>4. turns' \in [Warriors -> Nat] /\ deaths' \in Seq(Warriors)
      BY <1>2, <2>1 DEF WarriorDies, Fetch, ControlTypeOK
    <3>5. alive_cnt' \in 0 .. NWarriors
      BY <1>2, <2>3 DEF WarriorDies, ControlTypeOK
    <3>6. QED
      BY <2>2, <3>2, <3>3, <3>4, <3>5 DEF ControlTypeOK
  <2>5. DeathTable'
    <3>1. deaths \in Seq(Warriors) /\ deaths' = Append(deaths, w)
      BY <1>2 DEF WarriorDies, ControlTypeOK
    <3>2. {deaths'[k] : k \in 1 .. Len(deaths')} = {deaths[k] : k \in 1 .. Len(deaths)} \cup {w}
      BY <3>1
    <3>3. Warriors \ Alive' = (Warriors \ Alive) \cup {w}
      BY <2>1, <2>2
    <3>4. Len(deaths') = Len(deaths) + 1 /\ alive_cnt' = alive_cnt - 1
      BY <1>2, <3>1 DEF WarriorDies
    <3>5. alive_cnt' = Cardinality(Alive')
      BY <2>2, <2>3, <3>4
    <3>6. Len(deaths') = NWarriors - alive_cnt'
      BY <2>3, <3>4 DEF DeathTable
    <3>7. {deaths'[k] : k \in 1 .. Len(deaths')} = Warriors \ Alive'
      BY <3>2, <3>3 DEF DeathTable
    <3>8. QED
      BY <3>5, <3>6, <3>7 DEF DeathTable
  <2>6. RingIntact'
    <3>1. /\ succ' = [succ EXCEPT ![pred[w]] = succ[w]]
          /\ pred' = [pred EXCEPT ![succ[w]] = pred[w]]
      BY <1>2 DEF WarriorDies, Unlink
    <3>2. pred[w] \in Alive /\ succ[w] \in Alive /\ Alive \subseteq Warriors
      BY <2>1 DEF RingIntact, Alive
    <3>3. \A i \in Alive' : /\ succ'[i] = IF i = pred[w] THEN succ[w] ELSE succ[i]
                            /\ pred'[i] = IF i = succ[w] THEN pred[w] ELSE pred[i]
      BY <2>2, <3>1, <3>2 DEF ControlTypeOK
    <3>4. ASSUME NEW i \in Alive'
          PROVE  /\ succ'[i] \in Alive' /\ pred'[succ'[i]] = i
                 /\ pred'[i] \in Alive' /\ succ'[pred'[i]] = i
      <4>1. i \in Alive /\ i # w
        BY <2>2
      <4>2. succ[w] # w /\ pred[w] # w
        BY <2>1, <3>2, <4>1 DEF RingIntact, Between, Warriors
      <4>3. i # pred[w] => succ[i] # w /\ succ[i] # succ[w]
        BY <2>1, <4>1 DEF RingIntact
      <4>4. i # succ[w] => pred[i] # w /\ pred[i] # pred[w]
        BY <2>1, <4>1 DEF RingIntact
      <4>5. QED
        BY <2>1, <2>2, <3>2, <3>3, <4>1, <4>2, <4>3, <4>4 DEF RingIntact
    <3>5. ASSUME NEW i \in Alive', NEW j \in Alive'
          PROVE  ~Between(i, j, succ'[i])
      <4>1. i \in Alive /\ j \in Alive /\ i # w /\ j # w
        BY <2>2
      <4>2. ~Between(i, j, succ[i]) /\ ~Between(w, j, succ[w])
        BY <2>1, <4>1 DEF RingIntact
      <4>3. i = pred[w] => succ[i] = w
        BY <2>1 DEF RingIntact
      <4>4. CASE i = pred[w]
        <5>1. ~Between(i, j, w) /\ succ'[i] = succ[w]
          BY <3>3, <4>2, <4>3, <4>4
        <5>2. Warriors \subseteq Int
          BY DEF Warriors
        <5>3. i \in Int /\ j \in Int /\ w \in Int /\ succ[w] \in Int
          BY <2>1, <3>2, <4>1, <5>2
        <5>4. QED
          BY <4>1, <4>2, <5>1, <5>3 DEF Between
      <4>5. CASE i # pred[w]
        BY <3>3, <4>2, <4>5
      <4>6. QED
        BY <4>4, <4>5
    <3>6. w' \in Alive' \/ (over' /\ alive_cnt' <= 1)
      <4>1. CASE alive_cnt - 1 <= 1
        BY <1>2, <4>1 DEF WarriorDies
      <4>2. CASE alive_cnt - 1 > 1
        <5>1. w' = succ[w]
          BY <1>2, <2>3, <4>2 DEF WarriorDies, Tick
        <5>2. PICK j \in Alive' : TRUE
          BY <2>2, <2>3, <4>2, FS_EmptySet
        <5>3. j \in Alive /\ j # w /\ ~Between(w, j, succ[w])
          BY <2>1, <2>2, <5>2 DEF RingIntact
        <5>4. Warriors \subseteq Int
          BY DEF Warriors
        <5>5. succ[w] # w
          BY <2>1, <3>2, <5>3, <5>4 DEF Between
        <5>6. QED
          BY <2>2, <3>2, <5>1, <5>5
      <4>3. QED
        BY <2>3, <4>1, <4>2
    <3>7. QED
      BY <3>4, <3>5, <3>6 DEF RingIntact
  <2>7. QED
    BY <2>4, <2>5, <2>6
<1>3. CASE UNCHANGED vars
  <2>1. Alive' = Alive
    BY <1>3 DEF vars, Alive
  <2>2. QED
    BY <1>3, <2>1 DEF vars, ControlTypeOK, RingIntact, DeathTable, Between
<1>4. QED
  BY <1>1, <1>2, <1>3, TurnCases

-----------------------------------------------------------------------------
(* Layer 2: the turns and the clock.                                       *)

(* The cardinalities that the clock is about.                              *)
LEMMA AheadCount ==
    ASSUME CycleInv, w \in Alive
    PROVE  /\ alive_cnt \in Nat \ {0}
           /\ Cardinality(Alive \ {w}) = alive_cnt - 1
           /\ Cardinality(Ahead) \in 0 .. alive_cnt - 1
           /\ Cardinality(Ahead) = 0 => Ahead = {}
           /\ Cardinality(Ahead) = alive_cnt - 1 => Ahead = Alive \ {w}
<1>1. Ahead \subseteq Alive \ {w} /\ Alive \ {w} \subseteq Alive
  <2>1. w \in Int
    BY DEF CycleInv, ControlTypeOK, Warriors
  <2>2. QED
    BY <2>1 DEF Ahead
<1>2. IsFiniteSet(Alive \ {w}) /\ IsFiniteSet(Ahead)
  BY <1>1, AliveFinite
<1>3. Cardinality(Alive \ {w}) = alive_cnt - 1 /\ alive_cnt \in Nat \ {0}
  BY AliveFinite, FS_RemoveElement, FS_EmptySet DEF CycleInv, DeathTable
<1>4. Cardinality(Ahead) \in Nat /\ Cardinality(Ahead) <= alive_cnt - 1
  BY <1>1, <1>2, <1>3, FS_Subset, FS_CardinalityType
<1>5. Cardinality(Ahead) = alive_cnt - 1 => Ahead = Alive \ {w}
  BY <1>1, <1>2, <1>3, FS_Subset
<1>6. Cardinality(Ahead) = 0 => Ahead = {}
  BY <1>2, FS_EmptySet
<1>7. QED
  BY <1>3, <1>4, <1>5, <1>6

(* Where the cycle of survivors continues after w, and who is then ahead.  *)
LEMMA NextInCycle ==
    ASSUME CycleInv, w \in Alive
    PROVE  /\ succ[w] \in Alive
           /\ succ[w] > w => {i \in Alive : i < succ[w]} = Ahead \cup {w}
           /\ succ[w] <= w => /\ {i \in Alive : i < succ[w]} = {}
                              /\ Ahead = Alive \ {w}
<1>1. Alive \subseteq Int
  BY DEF Alive, Warriors
<1>2. succ[w] \in Alive /\ \A j \in Alive : ~Between(w, j, succ[w])
  BY DEF CycleInv, RingIntact
<1>3. ASSUME NEW j \in Alive
      PROVE  /\ succ[w] > w => (j < succ[w] <=> j < w \/ j = w)
             /\ succ[w] <= w => j >= succ[w] /\ (j < w <=> j # w)
  <2>1. j \in Int /\ w \in Int /\ succ[w] \in Int /\ ~Between(w, j, succ[w])
    BY <1>1, <1>2
  <2>2. QED
    BY <2>1 DEF Between
<1>4. succ[w] > w => {i \in Alive : i < succ[w]} = Ahead \cup {w}
  BY <1>3 DEF Ahead
<1>5. succ[w] <= w => Ahead = Alive \ {w}
  BY <1>3 DEF Ahead
<1>6. succ[w] <= w => {i \in Alive : i < succ[w]} = {}
  <2>1. ASSUME succ[w] <= w, NEW j \in Alive, j < succ[w]
        PROVE  FALSE
    <3>1. j >= succ[w] /\ j \in Int /\ succ[w] \in Int
      BY <1>1, <1>2, <1>3, <2>1
    <3>2. QED
      BY <2>1, <3>1
  <2>2. QED
    BY <2>1
<1>7. QED
  BY <1>2, <1>4, <1>5, <1>6

ClockLayer == TurnsEven /\ ClockInv /\ TieIsFair

LEMMA ClockInit == Init => ClockLayer
<1> SUFFICES ASSUME Init PROVE ClockLayer
  OBVIOUS
<1>1. Ahead = {} /\ \A i \in Warriors : turns[i] = 0
  BY DEF Init, InitRing, Ahead, Alive, Warriors
<1>2. w \in Warriors /\ Alive \subseteq Warriors
  BY DEF Init, InitRing, Warriors, Alive
<1>3. Cardinality(Ahead) = 0
  BY <1>1, FS_EmptySet
<1>4. Outstanding = NWarriors * Cycles /\ cycles = NWarriors * Cycles
  BY <1>1, <1>2, <1>3 DEF Init, Outstanding
<1>5. NWarriors * Cycles \in Nat /\ NWarriors * Cycles > 0
  OBVIOUS
<1>6. Loss = 0
  BY <1>4, <1>5 DEF Loss
<1>7. over = FALSE
  BY DEF Init
<1>8. QED
  BY <1>1, <1>2, <1>4, <1>5, <1>6, <1>7 DEF ClockLayer, TurnsEven, ClockInv, TieIsFair

(* On a clock that has run out, nobody is short of more than one turn.     *)
LEMMA TieFromClock == CycleInv /\ TurnsEven /\ ClockInv => TieIsFair
<1> SUFFICES ASSUME CycleInv, TurnsEven, ClockInv,
                    over, alive_cnt > 1, NEW i \in Alive
             PROVE  \/ turns[i] = Cycles
                    \/ turns[i] = Cycles - 1 /\ i = w /\ deaths # <<>>
  BY DEF TieIsFair
<1>1. w \in Alive
  BY DEF CycleInv, ControlTypeOK, RingIntact
<1> DEFINE n == alive_cnt
           j == Cardinality(Ahead)
           r == Cycles - turns[w]
<1>2. n \in Nat \ {0} /\ j \in 0 .. n - 1 /\ r \in Int /\ turns[w] \in Nat
  BY <1>1, AheadCount DEF CycleInv, ControlTypeOK, Alive
<1>3. n * r - j \in {0, 1} /\ (n * r - j = 1 => deaths # <<>>)
  <2>1. cycles = 0
    BY <1>1 DEF ClockInv
  <2>2. Outstanding = n * r - j
    BY DEF Outstanding
  <2>3. QED
    BY <1>1, <1>2, <2>1, <2>2 DEF ClockInv, Loss
<1>4. CASE n * r = j
  <2>1. r = 0 /\ j = 0
    BY <1>2, <1>4
  <2>2. Ahead = {}
    BY <1>1, <2>1, AheadCount
  <2>3. QED
    BY <1>1, <1>2, <2>1, <2>2 DEF TurnsEven
<1>5. CASE n * r = j + 1
  <2>1. r = 1 /\ j = n - 1
    <3>1. n * r > 0 /\ n * r < 2 * n
      BY <1>2, <1>5
    <3>2. r > 0 /\ r < 2
      BY <1>2, <3>1
    <3>3. QED
      BY <1>2, <1>5, <3>2
  <2>2. Ahead = Alive \ {w}
    BY <1>1, <2>1, AheadCount
  <2>3. deaths # <<>>
    BY <1>2, <1>3, <1>5
  <2>4. turns[w] = Cycles - 1 /\ Cycles - 1 + 1 = Cycles
    BY <1>2, <2>1
  <2>5. turns[i] = IF i = w THEN Cycles - 1 ELSE Cycles
    BY <1>1, <2>2, <2>4 DEF TurnsEven
  <2>6. QED
    BY <2>3, <2>5
<1>6. QED
  BY <1>2, <1>3, <1>4, <1>5

(* What a turn makes of the turns still outstanding: one fewer when w      *)
(* lives on, all those of w fewer when it dies.                            *)
LEMMA OutstandingAfter ==
    ASSUME CycleInv, TurnsEven, w \in Alive, w' = succ[w], w' \in Alive',
           turns' = [turns EXCEPT ![w] = @ + 1]
    PROVE  /\ Alive' = Alive /\ alive_cnt' = alive_cnt =>
                  TurnsEven' /\ Outstanding' = Outstanding - 1
           /\ Alive' = Alive \ {w} /\ alive_cnt' = alive_cnt - 1 =>
                  TurnsEven' /\ Outstanding' = Outstanding - (Cycles - turns[w])
<1> DEFINE v == succ[w]
           t == turns[w]
           j == Cardinality(Ahead)
<1>1. /\ alive_cnt \in Nat \ {0} /\ j \in 0 .. alive_cnt - 1
      /\ w \in Int /\ v \in Int /\ t \in Nat
  <2>1. v \in Warriors /\ w \in Warriors /\ t \in Nat
    BY NextInCycle DEF CycleInv, ControlTypeOK, Alive
  <2>2. Warriors \subseteq Int
    BY DEF Warriors
  <2>3. QED
    BY <2>1, <2>2, AheadCount
<1>2. v \in Alive /\ w \notin Ahead /\ Alive \subseteq Warriors
  BY NextInCycle, <1>1 DEF Ahead, Alive
<1>3. \A i \in Alive : /\ turns[i] = IF i \in Ahead THEN t + 1 ELSE t
                       /\ turns'[i] = IF i = w THEN t + 1 ELSE turns[i]
  BY <1>2 DEF TurnsEven, CycleInv, ControlTypeOK
<1>4. Ahead' = {i \in Alive' : i < v}
  BY DEF Ahead
<1>5. IsFiniteSet(Ahead)
  BY AliveFinite DEF Ahead
<1>6. CASE v > w
  <2>1. {i \in Alive : i < v} = Ahead \cup {w} /\ v \notin Ahead /\ v # w
    BY <1>1, <1>6, NextInCycle DEF Ahead
  <2>2. turns'[v] = t
    BY <1>2, <1>3, <2>1
  <2>3. ASSUME Alive' = Alive, alive_cnt' = alive_cnt
        PROVE  TurnsEven' /\ Outstanding' = Outstanding - 1
    <3>1. Ahead' = Ahead \cup {w}
      BY <1>4, <2>1, <2>3
    <3>2. Cardinality(Ahead') = j + 1
      BY <1>2, <1>5, <3>1, FS_AddElement
    <3>3. TurnsEven'
      BY <1>2, <1>3, <2>2, <2>3, <3>1 DEF TurnsEven
    <3>4. QED
      BY <1>1, <2>2, <2>3, <3>2, <3>3 DEF Outstanding
  <2>4. ASSUME Alive' = Alive \ {w}, alive_cnt' = alive_cnt - 1
        PROVE  TurnsEven' /\ Outstanding' = Outstanding - (Cycles - t)
    <3>1. Ahead' = Ahead
      BY <1>2, <1>4, <2>1, <2>4
    <3>2. TurnsEven'
      BY <1>2, <1>3, <2>2, <2>4, <3>1 DEF TurnsEven
    <3>3. Outstanding' = (alive_cnt - 1) * (Cycles - t) - j
      BY <2>2, <2>4, <3>1 DEF Outstanding
    <3>4. QED
      BY <1>1, <3>2, <3>3 DEF Outstanding
  <2>5. QED
    BY <2>3, <2>4
<1>7. CASE v <= w
  <2>1. {i \in Alive : i < v} = {} /\ Ahead = Alive \ {w}
    BY <1>7, NextInCycle
  <2>2. j = alive_cnt - 1
    BY <2>1, AheadCount
  <2>3. Alive' \subseteq Alive => Ahead' = {} /\ Cardinality(Ahead') = 0
    BY <1>4, <2>1, FS_EmptySet
  <2>4. turns'[v] = t + 1
    BY <1>2, <1>3, <2>1
  <2>5. Alive' \subseteq Alive => TurnsEven'
    BY <1>2, <1>3, <2>1, <2>3, <2>4 DEF TurnsEven
  <2>6. Alive' \subseteq Alive => Outstanding' = alive_cnt' * (Cycles - (t + 1)) - 0
    BY <2>3, <2>4 DEF Outstanding
  <2>7. /\ alive_cnt * (Cycles - (t + 1)) - 0 = Outstanding - 1
        /\ (alive_cnt - 1) * (Cycles - (t + 1)) - 0 = Outstanding - (Cycles - t)
    <3>1. Cycles - (t + 1) = (Cycles - t) - 1 /\ Cycles - t \in Int
      BY <1>1
    <3>2. Outstanding = alive_cnt * (Cycles - t) - (alive_cnt - 1)
      BY <2>2 DEF Outstanding
    <3>3. QED
      BY <1>1, <3>1, <3>2, Distribute
  <2>8. QED
    BY <2>5, <2>6, <2>7
<1>8. QED
  BY <1>1, <1>6, <1>7

LEMMA OutstandingInt ==
    ASSUME CycleInv, w \in Alive
    PROVE  Outstanding \in Int
<1>1. /\ alive_cnt \in Int /\ Cardinality(Ahead) \in Int
      /\ Cycles - turns[w] \in Int
  BY AheadCount DEF CycleInv, ControlTypeOK, Alive
<1>2. QED
  BY <1>1 DEF Outstanding

LEMMA TieFromClockNext == CycleInv' /\ TurnsEven' /\ ClockInv' => TieIsFair'
  BY TieFromClock, PTL

LEMMA ClockStep ==
    ASSUME CycleInv, CycleInv', ClockLayer, [Next]_vars
    PROVE  ClockLayer'
<1>1. CASE LivesOn
  <2>1. ~over /\ w \in Alive /\ w' = succ[w] /\ w' \in Alive'
    BY <1>1, NextInCycle DEF LivesOn, Tick, CycleInv, RingIntact
  <2>2. TurnsEven' /\ Outstanding' = Outstanding - 1
    BY <1>1, <2>1, OutstandingAfter DEF LivesOn, ClockLayer
  <2>3. /\ cycles \in Int /\ cycles >= 0 /\ cycles # 0 /\ Loss \in {0, 1}
        /\ (Loss = 1 => deaths # <<>>)
    BY <2>1 DEF ClockLayer, ClockInv, CycleInv, ControlTypeOK
  <2>4. cycles' = cycles - 1 /\ (over' <=> cycles - 1 <= 0) /\ deaths' = deaths
    BY <1>1 DEF LivesOn, Tick
  <2>5. Outstanding \in Int
    BY <2>1, OutstandingInt DEF ClockLayer
  <2>6. Loss' = Loss
    BY <2>2, <2>3, <2>4, <2>5 DEF Loss
  <2>7. ClockInv'
    <3>1. cycles' >= 0 /\ (over' <=> cycles' = 0)
      BY <2>3, <2>4
    <3>2. Loss' \in {0, 1} /\ (Loss' = 1 => deaths' # <<>>)
      BY <2>3, <2>4, <2>6
    <3>3. QED
      BY <3>1, <3>2 DEF ClockInv
  <2>8. QED
    BY <2>2, <2>7, TieFromClockNext DEF ClockLayer
<1>2. CASE WarriorDies
  <2>1. ~over /\ w \in Alive /\ w \in Warriors
    <3>1. ~over
      BY <1>2 DEF WarriorDies, Fetch
    <3>2. QED
      BY <3>1 DEF CycleInv, RingIntact, ControlTypeOK
  <2>2. Alive' = Alive \ {w}
    BY <1>2, AliveAfter, 0 \in 0 .. Processes DEF WarriorDies, CycleInv
  <2>3. CASE alive_cnt - 1 <= 1
    <3>1. w' = w /\ alive_cnt' <= 1
      BY <1>2, <2>3 DEF WarriorDies
    <3>2. w' \notin Alive'
      BY <2>2, <3>1
    <3>3. QED
      BY <3>1, <3>2 DEF ClockLayer, TurnsEven, ClockInv, TieIsFair, CycleInv, ControlTypeOK
  <2>4. CASE alive_cnt - 1 > 1
    <3> DEFINE n == alive_cnt
               j == Cardinality(Ahead)
               r == Cycles - turns[w]
               q == cycles \div alive_cnt
    <3>1. /\ w' = succ[w] /\ cycles' = cycles - q - 1 /\ (over' <=> cycles - q - 1 <= 0)
          /\ alive_cnt' = alive_cnt - 1 /\ deaths' = Append(deaths, w)
          /\ turns' = [turns EXCEPT ![w] = @ + 1]
      <4>1. Tick(CyclesAfterDeath)
        BY <1>2, <2>4 DEF WarriorDies
      <4>2. /\ w' = succ[w] /\ cycles' = cycles - q - 1
            /\ (over' <=> cycles - q - 1 <= 0)
        BY <4>1 DEF Tick, CyclesAfterDeath
      <4>3. QED
        BY <1>2, <4>2 DEF WarriorDies, Fetch
    <3>2. w' \in Alive'
      BY <2>4, <3>1 DEF CycleInv, RingIntact, ControlTypeOK
    <3>3. TurnsEven' /\ Outstanding' = Outstanding - r
      BY <2>1, <2>2, <3>1, <3>2, OutstandingAfter DEF ClockLayer
    <3>4. /\ n \in Nat \ {0} /\ n > 2 /\ j \in 0 .. n - 1 /\ r \in Int
          /\ cycles \in Nat /\ cycles > 0
      <4>1. n \in Nat \ {0} /\ n > 2 /\ j \in 0 .. n - 1 /\ r \in Int
        BY <2>1, <2>4, AheadCount DEF CycleInv, ControlTypeOK
      <4>2. cycles \in Int /\ cycles >= 0 /\ cycles # 0
        BY <2>1 DEF ClockLayer, ClockInv, CycleInv, ControlTypeOK
      <4>3. QED
        BY <4>1, <4>2
    <3>5. /\ Loss \in {0, 1} /\ Outstanding \in Int
          /\ cycles = n * r - j - Loss
      BY <2>1, <3>4, OutstandingInt DEF ClockLayer, ClockInv, Loss, Outstanding
    <3>6. q = cycles \div n /\ q \in Int /\ n * q <= cycles
      BY <3>4
    <3> HIDE DEF n, j, r, q
    <3>7. q \in {r - 1, r} /\ (Loss = 1 => q = r - 1)
      <4>1. n \in Nat \ {0} /\ r \in Int /\ j \in 0 .. n - 1 /\ cycles \in Int
        BY <3>4
      <4>2. QED
        BY <3>5, <3>6, <4>1, QuotientBound
    <3>8. q < cycles
      BY <3>4, <3>6
    <3>9. Loss' = Loss + 1 - (r - q)
      BY <3>1, <3>3, <3>4, <3>5, <3>6 DEF Loss
    <3>10. deaths' # <<>>
      <4>1. deaths \in Seq(Warriors)
        BY DEF CycleInv, ControlTypeOK
      <4>2. Len(Append(deaths, w)) = Len(deaths) + 1 /\ Len(deaths) \in Nat
        BY <2>1, <4>1
      <4>3. QED
        BY <3>1, <4>2
    <3>11. ClockInv'
      <4>1. cycles' >= 0 /\ (over' <=> cycles' = 0)
        BY <3>1, <3>4, <3>6, <3>8
      <4>2. Loss' \in {0, 1}
        BY <3>4, <3>5, <3>7, <3>9
      <4>3. QED
        BY <3>10, <4>1, <4>2 DEF ClockInv
    <3>12. QED
      BY <3>3, <3>11, TieFromClockNext DEF ClockLayer
  <2>5. QED
    BY <2>3, <2>4 DEF CycleInv, ControlTypeOK
<1>3. CASE UNCHANGED vars
  <2>1. Alive' = Alive /\ Ahead' = Ahead
    BY <1>3 DEF vars, Alive, Ahead
  <2>2. Loss' = Loss
    BY <1>3, <2>1 DEF vars, Loss, Outstanding
  <2>3. QED
    BY <1>3, <2>1, <2>2 DEF vars, ClockLayer, TurnsEven, ClockInv, TieIsFair
<1>4. QED
  BY <1>1, <1>2, <1>3, TurnCases DEF CycleInv

-----------------------------------------------------------------------------
(* Layer 3: the queues in the shared buffer.                               *)

QueueLayer ==
    /\ QueueTypeOK
    /\ \A i \in Alive :
          /\ head[i] = Pos(i) % QSize
          /\ tail[i] = (Pos(i) + nprocs[i]) % QSize
          /\ \A k \in 0 .. nprocs[i] - 1 : queue[(Pos(i) + k) % QSize] \in Addr

LEMMA SizeType == QSize \in Nat \ {0, 1}
<1>1. NWarriors * Processes \in Nat /\ NWarriors * Processes > 0
  OBVIOUS
<1>2. QED
  BY <1>1 DEF QSize

LEMMA SlotType == \A x \in Nat : x % QSize \in Slots
  BY SizeType, DivModType DEF Slots

(* Slots less than one buffer apart are different slots.                   *)
LEMMA SlotsDiffer ==
    ASSUME NEW x \in Nat, NEW y \in Nat, x # y, x < y + QSize, y < x + QSize
    PROVE  x % QSize # y % QSize
<1>1. x < y \/ y < x
  OBVIOUS
<1>2. QED
  BY <1>1, SizeType, ModDiffer

LEMMA SlotAfterMod ==
    ASSUME NEW x \in Nat
    PROVE  SlotAfter(x % QSize) = (x + 1) % QSize
  BY SizeType, ModSuccessor DEF SlotAfter

(* Each survivor's position in the endless row of slots that the buffer is *)
(* wrapped around, and how far two of them are apart.                      *)
LEMMA PosType ==
    ASSUME CycleInv, NEW i \in Alive
    PROVE  Pos(i) \in Nat
<1>1. i \in Warriors /\ turns[i] \in Nat
  BY DEF CycleInv, ControlTypeOK, Alive
<1>2. NWarriors - 1 - i \in Nat
  BY <1>1 DEF Warriors
<1>3. QED
  BY <1>1, <1>2 DEF Pos, Base

PosApart ==
    \A i, j \in Alive :
        i < j => Pos(i) - Pos(j) \in Processes .. QSize - Processes

OnTurn == w \in Alive

LEMMA Apart == CycleInv /\ TurnsEven /\ OnTurn => PosApart
<1> SUFFICES ASSUME CycleInv, TurnsEven, w \in Alive,
                    NEW i \in Alive, NEW j \in Alive, i < j
             PROVE  Pos(i) - Pos(j) \in Processes .. QSize - Processes
  BY DEF PosApart, OnTurn
<1>1. i \in Warriors /\ j \in Warriors /\ w \in Warriors
  BY DEF Alive
<1>2. i \in Int /\ j \in Int /\ w \in Int /\ 0 <= i /\ j <= NWarriors - 1
  BY <1>1 DEF Warriors
<1>3. turns[i] \in Nat /\ turns[j] \in Nat /\ turns[i] - turns[j] \in {0, 1}
  <2>1. turns[i] \in Nat /\ turns[j] \in Nat /\ turns[w] \in Nat
    BY <1>1 DEF CycleInv, ControlTypeOK
  <2>2. j \in Ahead => i \in Ahead
    BY <1>2 DEF Ahead
  <2>3. QED
    BY <2>1, <2>2 DEF TurnsEven
<1> DEFINE d == j - i - 1
<1>4. d \in Nat /\ d <= NWarriors - 2
  BY <1>2
<1>5. Base(i) - Base(j) = Processes * d + Processes
  BY <1>2 DEF Base
<1>6. Processes * d >= 0 /\ Processes * d <= Processes * (NWarriors - 2)
  BY <1>4
<1>7. Processes * (NWarriors - 2) = QSize - 1 - 2 * Processes
  BY DEF QSize
<1>8. Pos(i) - Pos(j) = Processes * d + Processes + (turns[i] - turns[j])
  BY <1>2, <1>3, <1>5 DEF Pos, Base
<1> DEFINE e == Processes * d
<1>9. e \in Int /\ e >= 0 /\ e <= QSize - 1 - 2 * Processes
  BY <1>4, <1>6, <1>7
<1>10. Pos(i) - Pos(j) = e + Processes + (turns[i] - turns[j])
  BY <1>8
<1> HIDE DEF e
<1>11. Pos(i) - Pos(j) \in Int /\ QSize \in Int
  BY <1>3, <1>9, <1>10, SizeType
<1>12. Pos(i) - Pos(j) >= Processes /\ Pos(i) - Pos(j) <= QSize - Processes
  <2>1. PICK x \in {0, 1} : x = turns[i] - turns[j]
    BY <1>3
  <2>2. Pos(i) - Pos(j) = e + Processes + x
    BY <1>10, <2>1
  <2>3. QED
    BY <1>9, <1>11, <2>1, <2>2
<1>13. QED
  BY <1>11, <1>12

LEMMA ApartNext == CycleInv' /\ TurnsEven' /\ OnTurn' => PosApart'
  BY Apart, PTL

(* What a turn that does not kill w does to the queues: w's process is     *)
(* taken off, one or no more than two are put behind, in consecutive slots.*)
QueueMoves ==
    LET n == nprocs[w]
        m == nprocs'[w]
        slot(k) == (Pos(w) + k) % QSize
    IN  /\ QueueTypeOK'
        /\ \A i \in Warriors : i # w => nprocs'[i] = nprocs[i]
        /\ head' = [head EXCEPT ![w] = slot(1)]
        /\ tail' = [tail EXCEPT ![w] = slot(m + 1)]
        /\ m <= n + 1
        /\ \A k \in n .. m : queue'[slot(k)] \in Addr
        /\ \A s \in Slots : (\A k \in n .. m : s # slot(k)) => queue'[s] = queue[s]

LEMMA QueueCases ==
    ASSUME CycleInv, QueueLayer, w \in Alive,
           \/ \E a \in Addr : Continue(a) \/ Split(a)
           \/ SplitFull
           \/ ProcessDies
    PROVE  QueueMoves
<1> DEFINE n == nprocs[w]
           slot(k) == (Pos(w) + k) % QSize
<1>1. /\ w \in Warriors /\ n \in 1 .. Processes /\ Pos(w) \in Nat
      /\ nprocs \in [Warriors -> 0 .. Processes]
  BY PosType DEF CycleInv, ControlTypeOK, Alive
<1>2. /\ head[w] = slot(0) /\ tail[w] = slot(n) /\ queue[slot(0)] \in Addr
      /\ QueueTypeOK
  <2>1. Pos(w) + 0 = Pos(w) /\ 0 \in 0 .. n - 1
    BY <1>1
  <2>2. QED
    BY <2>1 DEF QueueLayer
<1>3. \A k \in Nat : slot(k) \in Slots /\ SlotAfter(slot(k)) = slot(k + 1)
  <2> SUFFICES ASSUME NEW k \in Nat
               PROVE  slot(k) \in Slots /\ SlotAfter(slot(k)) = slot(k + 1)
    OBVIOUS
  <2>1. Pos(w) + k \in Nat /\ (Pos(w) + k) + 1 = Pos(w) + (k + 1)
    BY <1>1
  <2>2. QED
    BY <2>1, SlotType, SlotAfterMod
<1>4. IncMod(ip) \in Addr
  BY <1>2 DEF ip, IncMod, Addr
<1> HIDE DEF slot
<1>5. /\ SlotAfter(head[w]) = slot(1) /\ SlotAfter(tail[w]) = slot(n + 1)
      /\ SlotAfter(slot(n + 1)) = slot(n + 2) /\ n + 1 \in Nat
      /\ slot(1) \in Slots /\ slot(n) \in Slots
      /\ slot(n + 1) \in Slots /\ slot(n + 2) \in Slots
  BY <1>1, <1>2, <1>3
<1>6. ASSUME Fetch, NEW a \in Addr, Enqueue(a), UNCHANGED nprocs
      PROVE  QueueMoves
  <2>1. queue' = [queue EXCEPT ![slot(n)] = a]
    BY <1>2, <1>6 DEF Enqueue
  <2>2. \A k \in n .. n : k = n
    BY <1>1
  <2>3. /\ head' = [head EXCEPT ![w] = slot(1)]
        /\ tail' = [tail EXCEPT ![w] = slot(n + 1)]
    BY <1>5, <1>6 DEF Fetch, Enqueue
  <2>4. QueueTypeOK'
    BY <1>2, <1>5, <2>1, <2>3 DEF QueueTypeOK
  <2>5. queue'[slot(n)] \in Addr /\ \A s \in Slots : s # slot(n) => queue'[s] = queue[s]
    BY <1>2, <1>5, <2>1 DEF QueueTypeOK
  <2>6. nprocs'[w] = n /\ n \in n .. n /\ n <= n + 1
    BY <1>1, <1>6
  <2>7. QED
    BY <1>6, <2>2, <2>3, <2>4, <2>5, <2>6 DEF QueueMoves, slot
<1>7. ASSUME NEW a \in Addr, Continue(a)
      PROVE  QueueMoves
  BY <1>6, <1>7 DEF Continue
<1>8. CASE SplitFull
  BY <1>4, <1>6, <1>8 DEF SplitFull
<1>9. ASSUME NEW a \in Addr, Split(a)
      PROVE  QueueMoves
  <2>1. queue' = [queue EXCEPT ![slot(n)] = IncMod(ip), ![slot(n + 1)] = a]
    BY <1>2, <1>5, <1>9 DEF Split, EnqueueTwo
  <2>2. nprocs'[w] = n + 1 /\ \A i \in Warriors : i # w => nprocs'[i] = nprocs[i]
    BY <1>1, <1>9 DEF Split
  <2>3. \A k \in n .. n + 1 : k = n \/ k = n + 1
    BY <1>1
  <2>4. /\ head' = [head EXCEPT ![w] = slot(1)]
        /\ tail' = [tail EXCEPT ![w] = slot(n + 2)]
    BY <1>5, <1>9 DEF Split, Fetch, EnqueueTwo
  <2>5. QueueTypeOK'
    BY <1>2, <1>4, <1>5, <2>1, <2>4 DEF QueueTypeOK
  <2>6. /\ queue'[slot(n)] \in Addr /\ queue'[slot(n + 1)] \in Addr
        /\ \A s \in Slots : s # slot(n) /\ s # slot(n + 1) => queue'[s] = queue[s]
    BY <1>2, <1>4, <1>5, <2>1 DEF QueueTypeOK
  <2>7. /\ n \in n .. n + 1 /\ n + 1 \in n .. n + 1 /\ n + 1 <= n + 1
        /\ (n + 1) + 1 = n + 2
    BY <1>1
  <2>8. QED
    BY <2>2, <2>3, <2>4, <2>5, <2>6, <2>7 DEF QueueMoves, slot
<1>10. CASE ProcessDies
  <2>1. queue' = queue /\ tail' = tail /\ head' = [head EXCEPT ![w] = slot(1)]
    BY <1>5, <1>10 DEF ProcessDies, Fetch
  <2>2. nprocs'[w] = n - 1 /\ \A i \in Warriors : i # w => nprocs'[i] = nprocs[i]
    BY <1>1, <1>10 DEF ProcessDies
  <2>3. (n - 1) + 1 = n /\ n - 1 <= n + 1 /\ \A k \in n .. n - 1 : FALSE
    BY <1>1
  <2>4. tail' = [tail EXCEPT ![w] = slot(n)]
    BY <1>1, <1>2, <2>1 DEF QueueTypeOK
  <2>5. QueueTypeOK'
    BY <1>2, <1>5, <2>1 DEF QueueTypeOK
  <2>6. QED
    BY <2>1, <2>2, <2>3, <2>4, <2>5 DEF QueueMoves, slot
<1>11. QED
  BY <1>7, <1>8, <1>9, <1>10

(* The slots of two warriors whose positions are apart.                    *)
LEMMA SlotsApart ==
    ASSUME NEW x \in Nat, NEW y \in Nat,
           NEW a \in 0 .. Processes - 1, NEW b \in 0 .. Processes - 1,
           \/ x - y \in Processes .. QSize - Processes
           \/ y - x \in Processes .. QSize - Processes
    PROVE  (x + a) % QSize # (y + b) % QSize
<1>1. /\ x + a \in Nat /\ y + b \in Nat /\ x + a # y + b
      /\ x + a < (y + b) + QSize /\ y + b < (x + a) + QSize
  BY SizeType
<1>2. QED
  BY <1>1, SlotsDiffer

(* The slots of a queue are those from its position on.                    *)
LEMMA LiveSlots ==
    ASSUME CycleInv, QueueLayer, NEW i \in Alive
    PROVE  Live(i) = {(Pos(i) + k) % QSize : k \in 0 .. nprocs[i] - 1}
<1>1. Pos(i) \in Nat /\ head[i] = Pos(i) % QSize /\ nprocs[i] \in Nat
  BY PosType DEF QueueLayer, CycleInv, ControlTypeOK, Alive
<1>2. \A k \in 0 .. nprocs[i] - 1 : (head[i] + k) % QSize = (Pos(i) + k) % QSize
  BY <1>1, ModSum, SizeType
<1>3. QED
  BY <1>2 DEF Live

LEMMA QueueLives ==
    ASSUME CycleInv, CycleInv', TurnsEven', LivesOn, QueueLayer, QueueMoves
    PROVE  QueueLayer' /\ WaitingKept
<1> DEFINE n == nprocs[w]
           m == nprocs'[w]
           slot(k) == (Pos(w) + k) % QSize
<1>1. /\ w \in Alive /\ Alive' = Alive /\ w' \in Alive' /\ w \in Warriors
      /\ turns' = [turns EXCEPT ![w] = @ + 1]
  BY NextInCycle DEF LivesOn, Tick, CycleInv, RingIntact, Alive
<1>2. /\ \A i \in Warriors : nprocs[i] \in 0 .. Processes /\ nprocs'[i] \in 0 .. Processes
      /\ \A i \in Alive : nprocs[i] > 0 /\ i \in Warriors
      /\ n \in 1 .. Processes /\ m \in 1 .. Processes
  BY <1>1 DEF LivesOn, CycleInv, ControlTypeOK, Alive
<1>3. \A i \in Alive : Pos(i) \in Nat
  BY PosType
<1>4. \A i \in Alive : Pos(i)' = IF i = w THEN Pos(w) + 1 ELSE Pos(i)
  <2> SUFFICES ASSUME NEW i \in Alive
               PROVE  Pos(i)' = IF i = w THEN Pos(w) + 1 ELSE Pos(i)
    OBVIOUS
  <2>1. /\ turns'[i] = IF i = w THEN turns[i] + 1 ELSE turns[i]
        /\ turns[i] \in Nat
    BY <1>1, <1>2 DEF CycleInv, ControlTypeOK
  <2>2. Pos(i)' = Base(i) + turns'[i] /\ Pos(i) = Base(i) + turns[i]
    BY DEF Pos, Base
  <2>3. Base(i) \in Int
    BY <1>2 DEF Base, Warriors
  <2>4. QED
    BY <2>1, <2>2, <2>3
<1>5. \A i, j \in Alive : i < j => Pos(i)' - Pos(j)' \in Processes .. QSize - Processes
  BY <1>1, ApartNext DEF PosApart, OnTurn
<1>6. ASSUME NEW i \in Alive, i # w, NEW k \in 0 .. nprocs[i] - 1, NEW l \in n .. m
      PROVE  (Pos(i) + k) % QSize # slot(l)
  <2>1. i < w \/ w < i
    BY <1>1, <1>2, <1>6 DEF Warriors
  <2>2. /\ k \in 0 .. Processes - 1 /\ l - 1 \in 0 .. Processes - 1
        /\ Pos(w) + l = (Pos(w) + 1) + (l - 1) /\ Pos(w) + 1 \in Nat /\ Pos(i) \in Nat
    BY <1>1, <1>2, <1>3, <1>6
  <2>3. \/ Pos(i) - (Pos(w) + 1) \in Processes .. QSize - Processes
        \/ (Pos(w) + 1) - Pos(i) \in Processes .. QSize - Processes
    <3>1. /\ i < w => Pos(i)' - (Pos(w) + 1) \in Processes .. QSize - Processes
          /\ w < i => (Pos(w) + 1) - Pos(i)' \in Processes .. QSize - Processes
      BY <1>1, <1>4, <1>5
    <3>2. QED
      BY <1>4, <1>6, <2>1, <3>1
  <2>4. (Pos(i) + k) % QSize # ((Pos(w) + 1) + (l - 1)) % QSize
    BY <2>2, <2>3, SlotsApart
  <2>5. QED
    BY <2>2, <2>4
<1>7. ASSUME NEW k \in 0 .. n - 1, NEW l \in n .. m
      PROVE  k > 0 => slot(k) # slot(l)
  <2>1. k > 0 => /\ Pos(w) + k \in Nat /\ Pos(w) + l \in Nat
                 /\ Pos(w) + k < Pos(w) + l /\ Pos(w) + l < (Pos(w) + k) + Processes
    BY <1>1, <1>2, <1>3, <1>7
  <2>2. Processes < QSize /\ QSize \in Nat
    <3>1. NWarriors * Processes >= Processes
      OBVIOUS
    <3>2. QED
      BY <3>1, SizeType DEF QSize
  <2>3. k > 0 => Pos(w) + l < (Pos(w) + k) + QSize /\ Pos(w) + k # Pos(w) + l
                 /\ Pos(w) + k < (Pos(w) + l) + QSize
    BY <2>1, <2>2
  <2>4. QED
    BY <2>1, <2>3, SlotsDiffer
<1>8. ASSUME NEW i \in Alive, NEW k \in 0 .. nprocs[i] - 1, i # w \/ k > 0
      PROVE  /\ queue'[(Pos(i) + k) % QSize] = queue[(Pos(i) + k) % QSize]
             /\ queue[(Pos(i) + k) % QSize] \in Addr
  <2>1. Pos(i) + k \in Nat
    BY <1>3, <1>8
  <2>2. (Pos(i) + k) % QSize \in Slots
    BY <2>1, SlotType
  <2>3. \A l \in n .. m : (Pos(i) + k) % QSize # slot(l)
    BY <1>6, <1>7, <1>8
  <2>4. QED
    BY <2>2, <2>3 DEF QueueMoves, QueueLayer
<1>9. QueueLayer'
  <2>1. QueueTypeOK'
    BY DEF QueueMoves
  <2>2. ASSUME NEW i \in Alive, i # w
        PROVE  /\ head'[i] = Pos(i)' % QSize
               /\ tail'[i] = (Pos(i)' + nprocs'[i]) % QSize
               /\ \A k \in 0 .. nprocs'[i] - 1 : queue'[(Pos(i)' + k) % QSize] \in Addr
    <3>1. nprocs'[i] = nprocs[i] /\ head'[i] = head[i] /\ tail'[i] = tail[i] /\ Pos(i)' = Pos(i)
      BY <1>2, <1>4, <2>2 DEF QueueMoves, QueueLayer, QueueTypeOK
    <3>2. QED
      BY <1>8, <2>2, <3>1 DEF QueueLayer
  <2>3. /\ head'[w] = (Pos(w) + 1) % QSize
        /\ tail'[w] = ((Pos(w) + 1) + nprocs'[w]) % QSize
        /\ \A k \in 0 .. nprocs'[w] - 1 : queue'[((Pos(w) + 1) + k) % QSize] \in Addr
    <3>1. head'[w] = slot(1) /\ tail'[w] = slot(m + 1)
      BY <1>1 DEF QueueMoves, QueueLayer, QueueTypeOK
    <3>2. (Pos(w) + 1) + m = Pos(w) + (m + 1)
      BY <1>1, <1>2, <1>3
    <3>3. ASSUME NEW k \in 0 .. m - 1
          PROVE  queue'[((Pos(w) + 1) + k) % QSize] \in Addr
      <4>1. (Pos(w) + 1) + k = Pos(w) + (k + 1) /\ k + 1 \in 1 .. m
        BY <1>1, <1>2, <1>3, <3>3
      <4>2. CASE k + 1 \in n .. m
        BY <4>1, <4>2 DEF QueueMoves
      <4>3. CASE k + 1 \in 0 .. n - 1 /\ k + 1 > 0
        BY <1>1, <1>8, <4>1, <4>3
      <4>4. QED
        BY <1>2, <4>1, <4>2, <4>3
    <3>4. QED
      BY <3>1, <3>2, <3>3
  <2>4. QED
    BY <1>1, <1>4, <2>1, <2>2, <2>3 DEF QueueLayer
<1>10. WaitingKept
  <2> SUFFICES ASSUME NEW i \in Alive, NEW s \in Live(i), i # w \/ s # head[w]
               PROVE  queue'[s] = queue[s]
    BY DEF WaitingKept
  <2>1. PICK k \in 0 .. nprocs[i] - 1 : s = (Pos(i) + k) % QSize
    BY LiveSlots
  <2>2. i # w \/ k # 0
    <3>1. Pos(w) + 0 = Pos(w) /\ head[w] = Pos(w) % QSize
      BY <1>1, <1>3 DEF QueueLayer
    <3>2. QED
      BY <2>1, <3>1
  <2>3. i # w \/ k > 0
    BY <2>1, <2>2
  <2>4. QED
    BY <1>8, <2>1, <2>3
<1>11. QED
  BY <1>9, <1>10

LEMMA QueueInit == Init => QueueLayer
<1> SUFFICES ASSUME Init PROVE QueueLayer
  OBVIOUS
<1>1. ASSUME NEW i \in Warriors
      PROVE  Base(i) \in Nat /\ Base(i) + 1 < QSize
  <2>1. i \in Int /\ 0 <= i /\ i <= NWarriors - 1
    BY DEF Warriors
  <2>2. (NWarriors - 1 - i) * Processes >= 0
    BY <2>1
  <2>3. (NWarriors - 1 - i) * Processes <= (NWarriors - 1) * Processes
    BY <2>1
  <2>4. (NWarriors - 1) * Processes = NWarriors * Processes - Processes
    OBVIOUS
  <2>5. QED
    BY <2>1, <2>2, <2>3, <2>4 DEF Base, QSize
<1>2. ASSUME NEW i \in Warriors
      PROVE  /\ Base(i) \in Slots /\ Base(i) + 1 \in Slots
             /\ Base(i) % QSize = Base(i) /\ (Base(i) + 1) % QSize = Base(i) + 1
  BY <1>1, SizeType DEF Slots
<1>3. PICK pos \in [Warriors -> Addr] :
         queue = [s \in Slots |->
                    IF \E i \in Warriors : s = Base(i)
                    THEN pos[CHOOSE i \in Warriors : s = Base(i)]
                    ELSE Unset]
  BY DEF Init
<1>4. ASSUME NEW s \in Slots
      PROVE  /\ queue[s] \in Addr \cup {Unset}
             /\ (\E i \in Warriors : s = Base(i)) => queue[s] \in Addr
  BY <1>3
<1>5. QueueTypeOK
  <2>1. queue \in [Slots -> Addr \cup {Unset}]
    BY <1>3, <1>4
  <2>2. head \in [Warriors -> Slots] /\ tail \in [Warriors -> Slots]
    BY <1>2 DEF Init
  <2>3. QED
    BY <2>1, <2>2 DEF QueueTypeOK
<1>6. ASSUME NEW i \in Alive
      PROVE  /\ head[i] = Pos(i) % QSize
             /\ tail[i] = (Pos(i) + nprocs[i]) % QSize
             /\ \A k \in 0 .. nprocs[i] - 1 : queue[(Pos(i) + k) % QSize] \in Addr
  <2>1. /\ i \in Warriors /\ nprocs[i] = 1 /\ turns[i] = 0
        /\ head[i] = Base(i) /\ tail[i] = Base(i) + 1
    BY DEF Init, Alive
  <2>2. Pos(i) = Base(i)
    BY <1>1, <2>1 DEF Pos
  <2>3. queue[Base(i)] \in Addr
    BY <1>2, <1>4, <2>1
  <2>4. \A k \in 0 .. 1 - 1 : Base(i) + k = Base(i)
    BY <1>1, <2>1
  <2>5. QED
    BY <1>2, <2>1, <2>2, <2>3, <2>4
<1>7. QED
  BY <1>5, <1>6 DEF QueueLayer

LEMMA QueueDies ==
    ASSUME CycleInv, QueueLayer, WarriorDies
    PROVE  QueueLayer' /\ WaitingKept
<1>1. /\ Alive' = Alive \ {w} /\ w \in Warriors
      /\ \A i \in Alive' : nprocs'[i] = nprocs[i] /\ i \in Warriors
  <2>1. Alive' = Alive \ {w}
    BY AliveAfter, 0 \in 0 .. Processes DEF WarriorDies, CycleInv
  <2>2. QED
    BY <2>1 DEF WarriorDies, CycleInv, ControlTypeOK, Alive
<1>2. queue' = queue /\ tail' = tail
  BY DEF WarriorDies
<1>3. \A i \in Alive' : head'[i] = head[i] /\ turns'[i] = turns[i]
  BY <1>1 DEF WarriorDies, Fetch, QueueLayer, QueueTypeOK, CycleInv, ControlTypeOK
<1>4. \A i \in Alive' : Pos(i)' = Pos(i)
  BY <1>3 DEF Pos, Base
<1>5. QueueTypeOK'
  <2>1. w \in Alive
    BY DEF WarriorDies, Fetch, CycleInv, RingIntact
  <2>2. Pos(w) + 1 \in Nat /\ head' = [head EXCEPT ![w] = SlotAfter(Pos(w) % QSize)]
    <3>1. head[w] = Pos(w) % QSize
      BY <2>1 DEF QueueLayer
    <3>2. Pos(w) \in Nat
      BY <2>1, PosType DEF CycleInv, Alive
    <3>3. head' = [head EXCEPT ![w] = SlotAfter(head[w])]
      BY DEF WarriorDies, Fetch
    <3>4. QED
      BY <3>1, <3>2, <3>3
  <2>3. SlotAfter(Pos(w) % QSize) \in Slots
    BY <2>1, <2>2, PosType, SlotAfterMod, SlotType
  <2>4. QED
    BY <1>2, <2>2, <2>3 DEF QueueLayer, QueueTypeOK
<1>6. \A i \in Alive' : /\ head'[i] = Pos(i)' % QSize
                        /\ tail'[i] = (Pos(i)' + nprocs'[i]) % QSize
                        /\ \A k \in 0 .. nprocs'[i] - 1 :
                              queue'[(Pos(i)' + k) % QSize] \in Addr
  BY <1>1, <1>2, <1>3, <1>4 DEF QueueLayer
<1>7. QED
  BY <1>2, <1>5, <1>6 DEF QueueLayer, WaitingKept

LEMMA QueueStep ==
    ASSUME CycleInv, CycleInv', ClockLayer', QueueLayer, [Next]_vars
    PROVE  QueueLayer' /\ [WaitingKept]_vars
<1>1. CASE WarriorDies
  BY <1>1, QueueDies
<1>2. CASE Next /\ ~WarriorDies
  <2>1. LivesOn
    BY <1>2, TurnCases DEF CycleInv
  <2>2. w \in Alive
    BY <2>1 DEF LivesOn, CycleInv, RingIntact
  <2>3. QueueMoves
    BY <1>2, <2>2, QueueCases DEF Next
  <2>4. QED
    BY <2>1, <2>3, QueueLives DEF ClockLayer
<1>3. CASE UNCHANGED vars
  <2>1. Alive' = Alive /\ \A i \in Alive : Pos(i)' = Pos(i)
    BY <1>3 DEF vars, Alive, Pos, Base
  <2>2. QED
    BY <1>3, <2>1 DEF vars, QueueLayer, QueueTypeOK
<1>4. QED
  BY <1>1, <1>2, <1>3

(* The invariant as a whole is enough for the queues of any two survivors. *)
LEMMA QueuesFromLayers == CycleInv /\ ClockLayer /\ QueueLayer => QueuesIntact
<1> SUFFICES ASSUME CycleInv, ClockLayer, QueueLayer, NEW i \in Alive
             PROVE  /\ tail[i] = (head[i] + nprocs[i]) % QSize
                    /\ \A s \in Live(i) : queue[s] \in Addr
                    /\ \A j \in Alive \ {i} : Live(i) \cap Live(j) = {}
  BY DEF QueuesIntact
<1>1. Pos(i) \in Nat /\ nprocs[i] \in Nat
  BY PosType DEF CycleInv, ControlTypeOK, Alive
<1>2. tail[i] = (head[i] + nprocs[i]) % QSize
  <2>1. head[i] = Pos(i) % QSize /\ tail[i] = (Pos(i) + nprocs[i]) % QSize
    BY DEF QueueLayer
  <2>2. QSize \in Nat \ {0}
    BY SizeType
  <2> HIDE DEF QSize
  <2>3. ((Pos(i) % QSize) + nprocs[i]) % QSize = (Pos(i) + nprocs[i]) % QSize
    BY <1>1, <2>2, ModSum
  <2>4. QED
    BY <2>1, <2>3
<1>3. \A s \in Live(i) : queue[s] \in Addr
  BY LiveSlots DEF QueueLayer
<1>4. ASSUME NEW j \in Alive \ {i}, NEW s \in Live(i), s \in Live(j)
      PROVE  FALSE
  <2>1. /\ i \in Warriors /\ j \in Warriors /\ Pos(j) \in Nat
        /\ nprocs[i] \in 0 .. Processes /\ nprocs[j] \in 0 .. Processes
    BY PosType DEF CycleInv, ControlTypeOK, Alive
  <2>2. w \in Alive
    <3>1. Cardinality({i, j}) = 2 /\ {i, j} \subseteq Alive
      <4>1. IsFiniteSet({i}) /\ Cardinality({i}) = 1
        BY FS_Singleton
      <4>2. Cardinality({i} \cup {j}) = 2
        BY <1>4, <4>1, FS_AddElement
      <4>3. {i, j} = {i} \cup {j}
        OBVIOUS
      <4>4. QED
        BY <1>4, <4>2, <4>3
    <3>2. Cardinality(Alive) >= 2
      BY <3>1, AliveFinite, FS_Subset
    <3>3. ~(alive_cnt <= 1)
      BY <3>2 DEF CycleInv, DeathTable, ControlTypeOK
    <3>4. QED
      BY <3>3 DEF CycleInv, RingIntact
  <2>3. PosApart
    BY <2>2, Apart DEF ClockLayer, OnTurn
  <2>4. PICK a \in 0 .. nprocs[i] - 1 : s = (Pos(i) + a) % QSize
    BY <1>4, LiveSlots
  <2>5. PICK b \in 0 .. nprocs[j] - 1 : s = (Pos(j) + b) % QSize
    BY <1>4, LiveSlots
  <2>6. a \in 0 .. Processes - 1 /\ b \in 0 .. Processes - 1
    BY <2>1, <2>4, <2>5
  <2>7. i < j \/ j < i
    BY <1>4, <2>1 DEF Warriors
  <2>8. \/ Pos(i) - Pos(j) \in Processes .. QSize - Processes
        \/ Pos(j) - Pos(i) \in Processes .. QSize - Processes
    BY <2>3, <2>7 DEF PosApart
  <2>9. QED
    BY <1>1, <2>1, <2>4, <2>5, <2>6, <2>8, SlotsApart
<1>5. QED
  BY <1>2, <1>3, <1>4

-----------------------------------------------------------------------------
(* Layer 4: the abstract battle.                                           *)

(* A battle that is decided has stopped.                                   *)
DecidedStops == deaths # <<>> /\ alive_cnt <= 1 => over

LEMMA DecidedInit == Init => DecidedStops
  BY DEF Init, DecidedStops

LEMMA DecidedStep ==
    ASSUME CycleInv, DecidedStops, [Next]_vars
    PROVE  DecidedStops'
<1>1. CASE LivesOn
  BY <1>1 DEF LivesOn, DecidedStops
<1>2. CASE WarriorDies
  BY <1>2 DEF WarriorDies, Tick, DecidedStops, CycleInv, ControlTypeOK
<1>3. CASE UNCHANGED vars
  BY <1>3 DEF vars, DecidedStops
<1>4. QED
  BY <1>1, <1>2, <1>3, TurnCases DEF CycleInv

(* The clock and the death table say when the abstract battle may stop and *)
(* when it has to.                                                         *)
LEMMA StopsWhen ==
    CycleInv /\ ClockLayer /\ DecidedStops =>
        /\ over => Battle!Decided \/ Battle!Spent \/ Battle!LastTurnMissing
        /\ Battle!Decided \/ Battle!Spent => over
<1> SUFFICES ASSUME CycleInv, ClockLayer, DecidedStops
             PROVE  /\ over => Battle!Decided \/ Battle!Spent \/ Battle!LastTurnMissing
                    /\ Battle!Decided \/ Battle!Spent => over
  OBVIOUS
<1>1. alive_cnt = Cardinality(Alive) /\ alive_cnt \in Nat /\ IsFiniteSet(Alive)
  BY AliveFinite DEF CycleInv, DeathTable
<1>2. alive_cnt <= 1 <=> \A i, j \in Alive : i = j
  <2>1. ASSUME alive_cnt <= 1, NEW i \in Alive, NEW j \in Alive, i # j
        PROVE  FALSE
    <3>1. IsFiniteSet({i}) /\ Cardinality({i}) = 1
      BY FS_Singleton
    <3>2. Cardinality({i} \cup {j}) = 2 /\ {i} \cup {j} \in SUBSET Alive
      BY <2>1, <3>1, FS_AddElement
    <3>3. QED
      BY <1>1, <2>1, <3>2, FS_Subset
  <2>2. ASSUME \A i, j \in Alive : i = j
        PROVE  alive_cnt <= 1
    <3>1. CASE Alive = {}
      BY <1>1, <3>1, FS_EmptySet
    <3>2. CASE Alive # {}
      <4>1. PICK i \in Alive : TRUE
        BY <3>2
      <4>2. Alive = {i}
        BY <2>2, <4>1
      <4>3. QED
        BY <1>1, <4>2, FS_Singleton
    <3>3. QED
      BY <3>1, <3>2
  <2>3. QED
    BY <2>1, <2>2
<1>3. CASE w \notin Alive
  <2>1. over /\ alive_cnt <= 1
    BY <1>3 DEF CycleInv, RingIntact
  <2>2. deaths # <<>>
    <3>1. w \in {deaths[k] : k \in 1 .. Len(deaths)}
      BY <1>3 DEF CycleInv, DeathTable, ControlTypeOK
    <3>2. PICK k \in 1 .. Len(deaths) : TRUE
      BY <3>1
    <3>3. QED
      BY <3>2
  <2>3. QED
    BY <1>2, <2>1, <2>2 DEF Battle!Decided
<1>4. CASE w \in Alive
  <2> DEFINE n == alive_cnt
             j == Cardinality(Ahead)
             r == Cycles - turns[w]
  <2>1. n \in Nat \ {0} /\ j \in 0 .. n - 1 /\ r \in Int /\ turns[w] \in Nat
    BY <1>4, AheadCount DEF CycleInv, ControlTypeOK, Alive
  <2>2. /\ cycles \in Nat /\ (over <=> cycles = 0)
        /\ (n * r - j) - cycles \in {0, 1}
        /\ (n * r - j) - cycles = 1 => deaths # <<>>
    <3>1. Loss = (n * r - j) - cycles
      BY DEF Loss, Outstanding
    <3>2. QED
      BY <1>4, <3>1 DEF ClockLayer, ClockInv, CycleInv, ControlTypeOK
  <2>3. \A i \in Alive : turns[i] = IF i \in Ahead THEN turns[w] + 1 ELSE turns[w]
    BY <1>4 DEF ClockLayer, TurnsEven
  <2>4. over => Battle!Decided \/ Battle!Spent \/ Battle!LastTurnMissing
    <3> SUFFICES ASSUME over
                 PROVE  Battle!Spent \/ Battle!LastTurnMissing
      OBVIOUS
    <3>1. CASE n * r = j
      <4>1. r = 0 /\ j = 0
        BY <2>1, <3>1
      <4>2. Ahead = {}
        BY <1>4, <4>1, AheadCount
      <4>3. QED
        BY <2>1, <2>3, <4>1, <4>2 DEF Battle!Spent
    <3>2. CASE n * r = j + 1
      <4>1. r = 1 /\ j = n - 1
        <5>1. n * r > 0 /\ n * r < 2 * n
          BY <2>1, <3>2
        <5>2. r > 0 /\ r < 2
          BY <2>1, <5>1
        <5>3. r = 1
          BY <2>1, <5>2
        <5>4. n = j + 1
          BY <2>1, <3>2, <5>3
        <5>5. QED
          BY <2>1, <5>3, <5>4
      <4>2. Ahead = Alive \ {w}
        BY <1>4, <4>1, AheadCount
      <4>3. deaths # <<>>
        BY <2>1, <2>2, <3>2
      <4>4. turns[w] = Cycles - 1 /\ turns[w] + 1 = Cycles
        BY <2>1, <4>1
      <4>5. \A i \in Alive : turns[i] = IF i = w THEN Cycles - 1 ELSE Cycles
        BY <2>3, <4>2, <4>4
      <4>6. QED
        BY <1>4, <4>3, <4>5 DEF Battle!LastTurnMissing
    <3>3. QED
      BY <2>1, <2>2, <3>1, <3>2
  <2>5. Battle!Spent => over
    <3> SUFFICES ASSUME Battle!Spent PROVE cycles = 0
      BY <2>2
    <3>1. r = 0
      BY <1>4, <2>1 DEF Battle!Spent
    <3>2. n * r = 0
      BY <2>1, <3>1
    <3>3. QED
      BY <2>1, <2>2, <3>2
  <2>6. Battle!Decided => over
    BY <1>2 DEF Battle!Decided, DecidedStops
  <2>7. QED
    BY <2>4, <2>5, <2>6
<1>5. QED
  BY <1>3, <1>4

LEMMA StopsWhenNext ==
    CycleInv' /\ ClockLayer' /\ DecidedStops' =>
        /\ over' => Battle!Decided' \/ Battle!Spent' \/ Battle!LastTurnMissing'
        /\ Battle!Decided' \/ Battle!Spent' => over'
  BY StopsWhen, PTL

(* succ[w] is the next survivor in cyclic order, whether w is still counted*)
(* or not.                                                                 *)
LEMMA SuccIsNext ==
    ASSUME CycleInv, w \in Alive
    PROVE  /\ Battle!NextAfter(w, Alive) = succ[w]
           /\ succ[w] # w => Battle!NextAfter(w, Alive \ {w}) = succ[w]
           /\ succ[w] = w => Alive = {w}
<1>1. Alive \subseteq Int /\ w \in Int
  BY DEF Alive, Warriors
<1>2. succ[w] \in Alive /\ \A j \in Alive : ~Battle!Between(w, j, succ[w])
  BY DEF CycleInv, RingIntact, Between, Battle!Between
<1>3. ASSUME NEW S \in SUBSET Alive, succ[w] \in S
      PROVE  Battle!NextAfter(w, S) = succ[w]
  <2>1. ASSUME NEW k \in S, \A j \in S : ~Battle!Between(w, j, k)
        PROVE  k = succ[w]
    <3>1. /\ k \in Int /\ succ[w] \in Int
          /\ ~Battle!Between(w, succ[w], k) /\ ~Battle!Between(w, k, succ[w])
      BY <1>1, <1>2, <1>3, <2>1
    <3>2. QED
      BY <1>1, <3>1 DEF Battle!Between
  <2>2. \A j \in S : ~Battle!Between(w, j, succ[w])
    BY <1>2, <1>3
  <2>3. QED
    BY <1>3, <2>1, <2>2 DEF Battle!NextAfter
<1>4. succ[w] = w => Alive = {w}
  <2>1. ASSUME succ[w] = w, NEW j \in Alive, j # w
        PROVE  FALSE
    BY <1>1, <1>2, <2>1 DEF Battle!Between
  <2>2. QED
    BY <2>1
<1>5. QED
  BY <1>2, <1>3, <1>4

(* What the process of w that has run leaves behind.                       *)
Leaves(next) ==
    LET n == nprocs[w]
    IN  /\ Len(next) \in 0 .. 2
        /\ next \in [1 .. Len(next) -> Addr]
        /\ next \in Seq(Addr)
        /\ nprocs' = [nprocs EXCEPT ![w] = n + Len(next) - 1]
        /\ \A k \in 1 .. Len(next) :
              queue'[(Pos(w) + (n + k - 1)) % QSize] = next[k]

LEMMA NextOfTurn ==
    ASSUME CycleInv, QueueLayer, w \in Alive, Next
    PROVE  \E next \in Seq(Addr) : Leaves(next)
<1> DEFINE n == nprocs[w]
           slot(k) == (Pos(w) + k) % QSize
<1>1. /\ w \in Warriors /\ n \in 1 .. Processes /\ Pos(w) \in Nat
      /\ nprocs \in [Warriors -> 0 .. Processes]
  BY PosType DEF CycleInv, ControlTypeOK, Alive
<1>2. /\ head[w] = slot(0) /\ tail[w] = slot(n) /\ queue[slot(0)] \in Addr
      /\ QueueTypeOK
  <2>1. Pos(w) + 0 = Pos(w) /\ 0 \in 0 .. n - 1
    BY <1>1
  <2>2. QED
    BY <2>1 DEF QueueLayer
<1>3. /\ slot(n) \in Slots /\ slot(n + 1) \in Slots /\ slot(n) # slot(n + 1)
      /\ SlotAfter(slot(n)) = slot(n + 1)
  <2>1. /\ Pos(w) + n \in Nat /\ Pos(w) + (n + 1) \in Nat
        /\ Pos(w) + (n + 1) = (Pos(w) + n) + 1
    BY <1>1
  <2>2. slot(n) \in Slots /\ slot(n + 1) \in Slots
    BY <2>1, SlotType
  <2>3. slot(n) # slot(n + 1)
    <3>1. Pos(w) + (n + 1) < (Pos(w) + n) + QSize
      BY <2>1, SizeType
    <3>2. Pos(w) + n < (Pos(w) + (n + 1)) + QSize
      BY <2>1, SizeType
    <3>3. QED
      BY <2>1, <3>1, <3>2, SlotsDiffer
  <2>4. SlotAfter(slot(n)) = slot(n + 1)
    BY <2>1, SlotAfterMod
  <2>5. QED
    BY <2>2, <2>3, <2>4
<1>4. IncMod(ip) \in Addr
  BY <1>2 DEF ip, IncMod, Addr
<1> HIDE DEF slot
<1>5. nprocs = [nprocs EXCEPT ![w] = n + 1 - 1]
  BY <1>1
<1>6. ASSUME NEW a \in Addr, Enqueue(a), UNCHANGED nprocs
      PROVE  Leaves(<<a>>)
  <2>1. queue'[slot(n)] = a
    BY <1>2, <1>3, <1>6 DEF Enqueue, QueueTypeOK
  <2>2. /\ <<a>> \in Seq(Addr) /\ Len(<<a>>) = 1 /\ <<a>>[1] = a
        /\ <<a>> \in [1 .. 1 -> Addr]
    BY <1>6
  <2>3. n + 1 - 1 = n
    BY <1>1
  <2>4. QED
    BY <1>5, <1>6, <2>1, <2>2, <2>3 DEF Leaves, slot
<1>7. ASSUME NEW a \in Addr, Split(a)
      PROVE  Leaves(<<IncMod(ip), a>>)
  <2>1. queue'[slot(n)] = IncMod(ip) /\ queue'[slot(n + 1)] = a
    BY <1>2, <1>3, <1>4, <1>7 DEF Split, EnqueueTwo, QueueTypeOK
  <2> DEFINE next == <<IncMod(ip), a>>
  <2>2. /\ next \in Seq(Addr) /\ Len(next) = 2 /\ next[1] = IncMod(ip)
        /\ next[2] = a /\ next \in [1 .. 2 -> Addr]
    BY <1>4, <1>7
  <2>3. n + 1 - 1 = n /\ n + 2 - 1 = n + 1
    BY <1>1
  <2>4. nprocs' = [nprocs EXCEPT ![w] = n + 2 - 1]
    BY <1>7, <2>3 DEF Split
  <2> HIDE DEF next
  <2>5. QED
    BY <2>1, <2>2, <2>3, <2>4 DEF Leaves, slot
<1>8. ASSUME ProcessDies \/ WarriorDies
      PROVE  Leaves(<<>>)
  <2>1. nprocs' = [nprocs EXCEPT ![w] = n + 0 - 1]
    BY <1>1, <1>8 DEF ProcessDies, WarriorDies
  <2>2. <<>> \in Seq(Addr) /\ Len(<<>>) = 0 /\ <<>> \in [1 .. 0 -> Addr]
    OBVIOUS
  <2>3. QED
    BY <2>1, <2>2 DEF Leaves
<1>9. \A a \in Addr : <<a>> \in Seq(Addr) /\ <<IncMod(ip), a>> \in Seq(Addr)
  BY <1>4
<1>10. CASE ProcessDies \/ WarriorDies
  <2>1. <<>> \in Seq(Addr)
    OBVIOUS
  <2>2. QED
    BY <1>8, <1>10, <2>1
<1>11. ASSUME NEW a \in Addr, Continue(a)
       PROVE  Leaves(<<a>>)
  BY <1>6, <1>11 DEF Continue
<1>12. CASE SplitFull
  <2>1. Leaves(<<IncMod(ip)>>)
    BY <1>4, <1>6, <1>12 DEF SplitFull
  <2>2. QED
    BY <1>4, <1>9, <2>1
<1>13. QED
  BY <1>7, <1>9, <1>10, <1>11, <1>12 DEF Next

(* The queue of a survivor, with its place in the endless row of slots.    *)
Row == \A i \in Alive :
          ProcsOf(i) = [k \in 1 .. nprocs[i] |-> queue[(Pos(i) + (k - 1)) % QSize]]

LEMMA ProcsInRow == CycleInv /\ QueueLayer => Row
<1> SUFFICES ASSUME CycleInv, QueueLayer, NEW i \in Alive, NEW k \in 1 .. nprocs[i]
             PROVE  (head[i] + k - 1) % QSize = (Pos(i) + (k - 1)) % QSize
  BY DEF Row, ProcsOf
<1>1. Pos(i) \in Nat /\ head[i] = Pos(i) % QSize /\ nprocs[i] \in Nat
  BY PosType DEF QueueLayer, CycleInv, ControlTypeOK, Alive
<1>2. head[i] \in Nat
  BY <1>1, SizeType
<1>3. head[i] + k - 1 = (Pos(i) % QSize) + (k - 1) /\ k - 1 \in Nat
  BY <1>1, <1>2
<1>4. ((Pos(i) % QSize) + (k - 1)) % QSize = (Pos(i) + (k - 1)) % QSize
  <2> DEFINE p == Pos(i)
             m == k - 1
             q == QSize
  <2>1. p \in Nat /\ m \in Nat /\ q \in Nat \ {0}
    BY <1>1, <1>3, SizeType
  <2> HIDE DEF p, m, q
  <2>2. ((p % q) + m) % q = (p + m) % q
    BY <2>1, ModSum
  <2>3. QED
    BY <2>2 DEF p, m, q
<1>5. QED
  BY <1>3, <1>4

LEMMA ProcsInRowNext == CycleInv' /\ QueueLayer' => Row'
  BY ProcsInRow, PTL

(* Every queue but that of w stays as it is, and w's loses its first       *)
(* process and gets what that has left.                                    *)
LEMMA ProcsAfter ==
    ASSUME CycleInv, CycleInv', QueueLayer, QueueLayer', WaitingKept,
           w \in Alive, turns' = [turns EXCEPT ![w] = @ + 1],
           NEW next \in Seq(Addr), Leaves(next),
           NEW v, v = w
    PROVE  /\ ProcsOf(v) \in Seq(Addr) /\ Len(ProcsOf(v)) = nprocs[v]
           /\ ProcsOf(v)' = Tail(ProcsOf(v)) \o next
           /\ Len(Tail(ProcsOf(v)) \o next) = nprocs'[v]
           /\ \A i \in Warriors : i # v => ProcsOf(i)' = ProcsOf(i)
<1> DEFINE n == nprocs[v]
           l == Len(next)
           slot(k) == (Pos(v) + k) % QSize
<1>1. /\ v \in Alive /\ v \in Warriors /\ n \in 1 .. Processes /\ Pos(v) \in Nat
      /\ nprocs \in [Warriors -> 0 .. Processes] /\ turns \in [Warriors -> Nat]
  BY PosType DEF CycleInv, ControlTypeOK, Alive
<1>2. /\ l \in 0 .. 2 /\ next \in [1 .. l -> Addr]
      /\ nprocs' = [nprocs EXCEPT ![v] = n + l - 1]
      /\ \A k \in 1 .. l : queue'[slot(n + k - 1)] = next[k]
  BY DEF Leaves
<1>3. \A i \in Warriors : i # v => nprocs'[i] = nprocs[i] /\ Pos(i)' = Pos(i)
  BY <1>1, <1>2 DEF Pos, Base
<1>4. nprocs'[v] = n + l - 1 /\ Pos(v)' = Pos(v) + 1
  <2>1. turns'[v] = turns[v] + 1 /\ turns[v] \in Nat /\ Base(v) \in Int
    BY <1>1 DEF Base, Warriors
  <2>2. Pos(v)' = Base(v) + turns'[v] /\ Pos(v) = Base(v) + turns[v]
    BY DEF Pos, Base
  <2>3. Pos(v)' = Pos(v) + 1
    BY <2>1, <2>2
  <2>4. nprocs'[v] = n + l - 1
    BY <1>1, <1>2
  <2>5. QED
    BY <2>3, <2>4
<1>5. ASSUME NEW i \in Warriors, i # v
      PROVE  ProcsOf(i)' = ProcsOf(i)
  <2>1. CASE i \in Alive
    <3>1. i \in Alive'
      BY <1>3, <1>5, <2>1 DEF Alive
    <3>2. ProcsOf(i)' = [k \in 1 .. nprocs'[i] |-> queue'[(Pos(i)' + (k - 1)) % QSize]]
      BY <3>1, ProcsInRowNext DEF Row
    <3>3. ProcsOf(i) = [k \in 1 .. nprocs[i] |-> queue[(Pos(i) + (k - 1)) % QSize]]
      BY <2>1, ProcsInRow DEF Row
    <3>4. ASSUME NEW k \in 1 .. nprocs[i]
          PROVE  queue'[(Pos(i) + (k - 1)) % QSize] = queue[(Pos(i) + (k - 1)) % QSize]
      <4>1. k - 1 \in 0 .. nprocs[i] - 1
        BY <1>1
      <4>2. (Pos(i) + (k - 1)) % QSize \in Live(i)
        BY <2>1, <4>1, LiveSlots
      <4>3. QED
        BY <1>5, <2>1, <4>2 DEF WaitingKept
    <3>5. QED
      BY <1>3, <1>5, <3>2, <3>3, <3>4
  <2>2. CASE i \notin Alive
    <3>1. nprocs[i] = 0 /\ nprocs'[i] = 0
      BY <1>1, <1>3, <1>5, <2>2 DEF Alive
    <3>2. QED
      BY <3>1 DEF ProcsOf
  <2>3. QED
    BY <2>1, <2>2
<1>6. /\ ProcsOf(v) = [k \in 1 .. n |-> queue[slot(k - 1)]]
      /\ \A k \in 0 .. n - 1 : queue[slot(k)] \in Addr
  BY ProcsInRow DEF Row, QueueLayer
<1>7. ProcsOf(v) \in Seq(Addr) /\ Len(ProcsOf(v)) = n
  <2> DEFINE procs == ProcsOf(v)
  <2>1. \A k \in 1 .. n : queue[slot(k - 1)] \in Addr
    BY <1>1, <1>6
  <2>2. n \in Nat /\ procs = [k \in 1 .. n |-> queue[slot(k - 1)]]
    BY <1>1, <1>6
  <2> HIDE DEF slot, n, procs
  <2>3. procs \in Seq(Addr) /\ Len(procs) = n
    BY <2>1, <2>2
  <2>4. QED
    BY <2>3 DEF procs
<1>8. /\ Tail(ProcsOf(v)) \in Seq(Addr) /\ Len(Tail(ProcsOf(v))) = n - 1
      /\ \A k \in 1 .. n - 1 : Tail(ProcsOf(v))[k] = queue[slot(k)]
  <2>1. ProcsOf(v) # <<>>
    BY <1>1, <1>7
  <2>2. /\ Tail(ProcsOf(v)) \in Seq(Addr) /\ Len(Tail(ProcsOf(v))) = n - 1
        /\ \A k \in 1 .. n - 1 : Tail(ProcsOf(v))[k] = ProcsOf(v)[k + 1]
    BY <1>7, <2>1, HeadTailProperties
  <2>3. \A k \in 1 .. n - 1 : ProcsOf(v)[k + 1] = queue[slot((k + 1) - 1)] /\ (k + 1) - 1 = k
    <3> HIDE DEF slot
    <3>1. QED
      BY <1>1, <1>6
  <2> HIDE DEF slot
  <2>4. QED
    BY <2>2, <2>3
<1>9. \A k \in 1 .. n - 1 : queue'[slot(k)] = queue[slot(k)]
  <2> SUFFICES ASSUME NEW k \in 1 .. n - 1
               PROVE  queue'[slot(k)] = queue[slot(k)]
    OBVIOUS
  <2>1. slot(k) \in Live(v)
    BY <1>1, LiveSlots
  <2>2. slot(k) # head[v]
    <3>1. head[v] = slot(0)
      BY <1>1 DEF QueueLayer
    <3>2. Pos(v) + k \in Nat /\ Pos(v) + 0 \in Nat /\ Pos(v) + k < (Pos(v) + 0) + QSize
      <4>1. Processes < QSize
        <5>1. NWarriors * Processes >= Processes
          OBVIOUS
        <5>2. QED
          BY <5>1, SizeType DEF QSize
      <4>2. QED
        BY <1>1, <4>1, SizeType
    <3>3. Pos(v) + 0 < (Pos(v) + k) + QSize /\ Pos(v) + k # Pos(v) + 0
      BY <1>1, SizeType
    <3>4. QED
      BY <3>1, <3>2, <3>3, SlotsDiffer
  <2>3. QED
    BY <2>1, <2>2 DEF WaitingKept
<1> DEFINE left == Tail(ProcsOf(v)) \o next
<1>10. /\ left \in Seq(Addr) /\ Len(left) = n + l - 1
       /\ \A k \in 1 .. n + l - 1 : left[k] = IF k <= n - 1 THEN Tail(ProcsOf(v))[k]
                                                           ELSE next[k - (n - 1)]
  <2>1. (n - 1) + l = n + l - 1
    BY <1>1, <1>2
  <2>2. QED
    BY <1>8, <2>1, ConcatProperties
<1>11. ProcsOf(v)' = [k \in 1 .. n + l - 1 |-> queue'[slot(k)]]
  <2> DEFINE m == nprocs'[v]
             p == Pos(v)'
  <2>1. m = n + l - 1 /\ p = Pos(v) + 1 /\ m \in Nat
    BY <1>1, <1>2, <1>4
  <2>2. CASE m > 0
    <3>1. v \in Alive'
      BY <1>1, <2>2 DEF Alive
    <3>2. ProcsOf(v)' = [k \in 1 .. m |-> queue'[(p + (k - 1)) % QSize]]
      BY <3>1, ProcsInRowNext DEF Row
    <3>3. \A k \in 1 .. m : p + (k - 1) = Pos(v) + k
      BY <1>1, <2>1
    <3> HIDE DEF m, p
    <3>4. ProcsOf(v)' = [k \in 1 .. m |-> queue'[slot(k)]]
      BY <3>2, <3>3
    <3>5. QED
      BY <2>1, <3>4
  <2>3. CASE m = 0
    <3>1. ProcsOf(v)' = [k \in 1 .. m |-> queue'[(head'[v] + k - 1) % QSize]]
      BY DEF ProcsOf
    <3>2. 1 .. m = {}
      BY <2>3
    <3> HIDE DEF m, slot
    <3>3. ProcsOf(v)' = [k \in 1 .. m |-> queue'[slot(k)]]
      BY <3>1, <3>2
    <3>4. QED
      BY <2>1, <3>3
  <2>4. QED
    BY <2>1, <2>2, <2>3
<1>12. ProcsOf(v)' = left
  <2>1. n \in Nat \ {0} /\ l \in Nat
    BY <1>1, <1>2
  <2>2. ASSUME NEW k \in 1 .. n + l - 1
        PROVE  queue'[slot(k)] = left[k]
    <3> HIDE DEF n, l, slot, left
    <3>1. CASE k <= n - 1
      <4>1. k \in 1 .. n - 1
        BY <2>1, <3>1
      <4>2. QED
        BY <1>8, <1>9, <1>10, <2>1, <3>1, <4>1
    <3>2. CASE ~(k <= n - 1)
      <4> DEFINE i == k - (n - 1)
      <4>1. i \in 1 .. l /\ n + i - 1 = k
        BY <2>1, <3>2
      <4>2. left[k] = next[i]
        BY <1>10, <3>2
      <4> HIDE DEF i
      <4>3. queue'[slot(n + i - 1)] = next[i]
        BY <1>2, <4>1
      <4>4. QED
        BY <4>1, <4>2, <4>3
    <3>3. QED
      BY <3>1, <3>2
  <2> HIDE DEF n, l, slot, left
  <2>3. left = [k \in 1 .. n + l - 1 |-> left[k]]
    <3>1. left = [k \in 1 .. Len(left) |-> left[k]]
      BY <1>10
    <3>2. QED
      BY <1>10, <3>1
  <2>4. QED
    BY <1>11, <2>2, <2>3
<1>13. Len(left) = nprocs'[v]
  BY <1>4, <1>10
<1>14. ProcsOf(v)' = Tail(ProcsOf(v)) \o next
  BY <1>12
<1>15. QED
  BY <1>5, <1>7, <1>13, <1>14

(* The turn passes to the survivor that comes next, even when it is the    *)
(* last one and the battle stops where it is.                              *)
WhoseTurn == IF w \in Alive THEN w ELSE succ[w]

LEMMA TurnPasses ==
    ASSUME CycleInv, CycleInv', w \in Alive, LivesOn \/ WarriorDies
    PROVE  WhoseTurn' = Battle!NextAfter(w, Alive')
<1>1. w \in Warriors /\ succ \in [Warriors -> Warriors] /\ succ[w] \in Alive
  BY DEF CycleInv, ControlTypeOK, RingIntact, Alive
<1>2. CASE LivesOn
  <2>1. Alive' = Alive /\ w' = succ[w]
    BY <1>2 DEF LivesOn, Tick
  <2>2. QED
    BY <1>1, <2>1, SuccIsNext DEF WhoseTurn
<1>3. CASE WarriorDies
  <2>1. Alive' = Alive \ {w}
    BY <1>3, AliveAfter, 0 \in 0 .. Processes DEF WarriorDies, CycleInv
  <2>2. w' = succ[w] \/ (w' = w /\ alive_cnt - 1 <= 1)
    BY <1>3 DEF WarriorDies, Tick
  <2>3. CASE succ[w] # w
    <3>1. Battle!NextAfter(w, Alive') = succ[w] /\ succ[w] \in Alive'
      BY <1>1, <2>1, <2>3, SuccIsNext
    <3>2. CASE w' = succ[w]
      BY <3>1, <3>2 DEF WhoseTurn
    <3>3. CASE w' = w /\ alive_cnt - 1 <= 1
      <4>1. pred[w] # w
        BY <2>3 DEF CycleInv, RingIntact
      <4>2. succ'[w] = succ[w]
        BY <1>1, <1>3, <4>1 DEF WarriorDies, Unlink
      <4>3. w' \notin Alive'
        BY <2>1, <3>3
      <4>4. QED
        BY <3>1, <3>3, <4>2, <4>3 DEF WhoseTurn
    <3>4. QED
      BY <2>2, <3>2, <3>3
  <2>4. CASE succ[w] = w
    <3>1. Alive = {w} /\ Alive' = {}
      BY <2>1, <2>4, SuccIsNext
    <3>2. w' = w
      BY <2>2, <2>4
    <3>3. pred[w] = w
      BY <2>4 DEF CycleInv, RingIntact
    <3>4. succ'[w] = w
      BY <1>1, <1>3, <2>4, <3>3 DEF WarriorDies, Unlink
    <3>5. WhoseTurn' = w
      BY <3>1, <3>2, <3>4 DEF WhoseTurn
    <3>6. QED
      BY <3>1, <3>5 DEF Battle!NextAfter
  <2>5. QED
    BY <2>3, <2>4
<1>4. QED
  BY <1>2, <1>3

(* Every turn of the scheduler is a turn of the abstract battle.           *)
LEMMA BattleStep ==
    ASSUME CycleInv, CycleInv', ClockLayer, ClockLayer', QueueLayer, QueueLayer',
           DecidedStops, DecidedStops', [WaitingKept]_vars, Next
    PROVE  Battle!Next
<1>1. LivesOn \/ WarriorDies
  BY TurnCases DEF CycleInv
<1>2. ~over /\ turns' = [turns EXCEPT ![w] = @ + 1] /\ w \in Alive
  BY <1>1 DEF LivesOn, WarriorDies, Fetch, CycleInv, RingIntact
<1>3. WaitingKept
  <2>1. turns'[w] # turns[w]
    BY <1>2 DEF CycleInv, ControlTypeOK
  <2>2. QED
    BY <2>1 DEF vars
<1>4. PICK next \in Seq(Addr) : Leaves(next)
  BY <1>2, NextOfTurn
<1>5. PICK v : v = w
  OBVIOUS
<1> DEFINE procs == [i \in Warriors |-> ProcsOf(i)]
           left == Tail(ProcsOf(v)) \o next
<1>6. /\ ProcsOf(v) \in Seq(Addr) /\ Len(ProcsOf(v)) = nprocs[v]
      /\ ProcsOf(v)' = left /\ Len(left) = nprocs'[v]
      /\ \A i \in Warriors : i # v => ProcsOf(i)' = ProcsOf(i)
  BY <1>2, <1>3, <1>4, <1>5, ProcsAfter
<1>7. v \in Warriors /\ nprocs'[v] \in 0 .. Processes
  BY <1>2, <1>5 DEF CycleInv, ControlTypeOK, Alive
<1>8. left \in Seq(Addr)
  <2>1. ProcsOf(v) # <<>>
    BY <1>2, <1>5, <1>6 DEF Alive
  <2> HIDE DEF procs
  <2>2. Tail(ProcsOf(v)) \in Seq(Addr)
    BY <1>6, <2>1, HeadTailProperties
  <2>3. QED
    BY <1>4, <2>2, ConcatProperties
<1>9. procs' = [procs EXCEPT ![v] = left] /\ procs[v] = ProcsOf(v)
  <2> HIDE DEF left
  <2>1. procs' = [i \in Warriors |-> ProcsOf(i)']
    OBVIOUS
  <2>2. QED
    BY <1>6, <1>7, <2>1
<1>10. Len(left) <= Processes /\ Len(left) \in Nat
  BY <1>6, <1>7
<1>11. left = <<>> <=> nprocs'[v] = 0
  BY <1>6, <1>8, EmptySeq
<1>12. IF left = <<>> THEN Alive' = Alive \ {v} /\ deaths' = Append(deaths, v)
                     ELSE UNCHANGED <<Alive, deaths>>
  <2>1. CASE LivesOn
    <3>1. v \in Alive'
      BY <1>2, <1>5, <2>1 DEF LivesOn
    <3>2. nprocs'[v] # 0
      BY <3>1 DEF Alive
    <3>3. QED
      BY <1>11, <2>1, <3>2 DEF LivesOn
  <2>2. CASE WarriorDies
    <3>1. nprocs'[v] = 0 /\ deaths' = Append(deaths, v)
      BY <1>5, <1>7, <2>2 DEF WarriorDies, CycleInv, ControlTypeOK
    <3>2. Alive' = Alive \ {v}
      BY <1>5, <2>2, AliveAfter, 0 \in 0 .. Processes DEF WarriorDies, CycleInv
    <3>3. QED
      BY <1>11, <3>1, <3>2
  <2>3. QED
    BY <1>1, <2>1, <2>2
<1>13. WhoseTurn' = Battle!NextAfter(v, Alive') /\ WhoseTurn = v
  BY <1>1, <1>2, <1>5, TurnPasses DEF WhoseTurn
<1>14. /\ over' \in BOOLEAN
       /\ over' => Battle!Decided' \/ Battle!Spent' \/ Battle!LastTurnMissing'
       /\ Battle!Decided' \/ Battle!Spent' => over'
  BY StopsWhenNext DEF CycleInv, ControlTypeOK
<1>15. Battle!Turn(next)
  <2>1. turns' = [turns EXCEPT ![v] = @ + 1]
    BY <1>2, <1>5
  <2> HIDE DEF left, procs
  <2>2. /\ ~over /\ Len(left) <= Processes
        /\ procs' = [procs EXCEPT ![WhoseTurn] = left]
        /\ turns' = [turns EXCEPT ![WhoseTurn] = @ + 1]
        /\ IF left = <<>>
           THEN Alive' = Alive \ {WhoseTurn} /\ deaths' = Append(deaths, WhoseTurn)
           ELSE UNCHANGED <<Alive, deaths>>
        /\ WhoseTurn' = Battle!NextAfter(WhoseTurn, Alive')
        /\ over' \in BOOLEAN
        /\ over' => Battle!Decided' \/ Battle!Spent' \/ Battle!LastTurnMissing'
        /\ Battle!Decided' \/ Battle!Spent' => over'
    BY <1>2, <1>9, <1>10, <1>12, <1>13, <1>14, <2>1
  <2>3. left = Tail(procs[WhoseTurn]) \o next
    BY <1>9, <1>13 DEF left
  <2>4. QED
    BY <2>2, <2>3 DEF Battle!Turn, WhoseTurn, procs
<1>16. next \in UNION {[1 .. n -> Battle!Addr] : n \in 0 .. 2}
  BY <1>4 DEF Leaves, Battle!Addr, Addr
<1>17. QED
  BY <1>15, <1>16 DEF Battle!Next

LEMMA BattleInit == Init => Battle!Init
<1> SUFFICES ASSUME Init PROVE Battle!Init
  OBVIOUS
<1> USE CycleInit, QueueInit
<1>1. /\ Alive = Warriors /\ w = 0 /\ w \in Alive /\ deaths = <<>> /\ over = FALSE
      /\ turns = [i \in Warriors |-> 0] /\ \A i \in Warriors : nprocs[i] = 1
  BY DEF Init, InitRing, Alive, Warriors
<1>2. ASSUME NEW i \in Warriors
      PROVE  ProcsOf(i) \in {<<a>> : a \in Addr}
  <2>1. ProcsOf(i) = [k \in 1 .. 1 |-> queue[(Pos(i) + (k - 1)) % QSize]]
    BY <1>1, ProcsInRow DEF Row
  <2>2. queue[(Pos(i) + 0) % QSize] \in Addr
    BY <1>1 DEF QueueLayer
  <2>3. ProcsOf(i) = <<queue[(Pos(i) + 0) % QSize]>>
    <3>1. \A k \in 1 .. 1 : k - 1 = 0
      OBVIOUS
    <3> HIDE DEF QSize
    <3>2. QED
      BY <2>1, <3>1
  <2>4. QED
    BY <2>2, <2>3
<1>3. QED
  BY <1>1, <1>2 DEF Battle!Init, Battle!Addr, Battle!Warriors, Addr, Warriors

-----------------------------------------------------------------------------
(* Of several warriors the last is not killed: the battle stops first.     *)
OneIsLeft == NWarriors > 1 => alive_cnt > 0

LEMMA OneIsLeftStep ==
    ASSUME CycleInv, DecidedStops, OneIsLeft, [Next]_vars
    PROVE  OneIsLeft'
<1>1. CASE LivesOn
  BY <1>1 DEF LivesOn, OneIsLeft
<1>2. CASE WarriorDies
  <2>1. ~over /\ alive_cnt' = alive_cnt - 1 /\ alive_cnt \in Nat
    BY <1>2 DEF WarriorDies, Fetch, CycleInv, ControlTypeOK
  <2>2. NWarriors > 1 /\ alive_cnt = 1 => deaths # <<>>
    BY DEF CycleInv, DeathTable
  <2>3. QED
    BY <2>1, <2>2 DEF OneIsLeft, DecidedStops
<1>3. CASE UNCHANGED vars
  BY <1>3 DEF vars, OneIsLeft
<1>4. QED
  BY <1>1, <1>2, <1>3, TurnCases DEF CycleInv

LEMMA ResultFromTable == CycleInv /\ OneIsLeft => ResultNamesSurvivor
<1> SUFFICES ASSUME CycleInv, OneIsLeft, NWarriors = 2
             PROVE  SimResult = IF Alive = {0} THEN 0 ELSE IF Alive = {1} THEN 1 ELSE 2
  BY DEF ResultNamesSurvivor
<1>1. Warriors = {0, 1} /\ Alive \subseteq {0, 1}
  BY DEF Warriors, Alive
<1>2. /\ alive_cnt = Cardinality(Alive) /\ alive_cnt \in {1, 2}
      /\ Len(deaths) = 2 - alive_cnt
      /\ {deaths[k] : k \in 1 .. Len(deaths)} = {0, 1} \ Alive
  BY <1>1 DEF CycleInv, ControlTypeOK, DeathTable, OneIsLeft
<1>3. Cardinality({0}) = 1 /\ Cardinality({1}) = 1 /\ Cardinality({0, 1}) = 2
  <2>1. Cardinality({0}) = 1 /\ Cardinality({1}) = 1 /\ IsFiniteSet({0})
    BY FS_Singleton
  <2>2. Cardinality({0} \cup {1}) = 2
    BY <2>1, FS_AddElement
  <2>3. {0, 1} = {0} \cup {1}
    OBVIOUS
  <2>4. QED
    BY <2>1, <2>2, <2>3
<1>4. CASE alive_cnt = 2
  <2>1. Alive # {0} /\ Alive # {1}
    BY <1>2, <1>3, <1>4
  <2>2. QED
    BY <1>4, <2>1 DEF SimResult
<1>5. CASE alive_cnt = 1
  <2>1. {0, 1} \ Alive = {deaths[1]}
    BY <1>2, <1>5
  <2>2. (deaths[1] = 1 /\ Alive = {0}) \/ (deaths[1] = 0 /\ Alive = {1})
    <3> DEFINE d == deaths[1]
    <3>1. d \in {0, 1} /\ d \notin Alive
      BY <2>1
    <3>2. \A i \in {0, 1} : i # d => i \in Alive
      BY <2>1
    <3> HIDE DEF d
    <3>3. CASE d = 0
      BY <1>1, <3>1, <3>2, <3>3 DEF d
    <3>4. CASE d = 1
      BY <1>1, <3>1, <3>2, <3>4 DEF d
    <3>5. QED
      BY <3>1, <3>3, <3>4
  <2>3. {0} # {1}
    OBVIOUS
  <2>4. QED
    BY <1>5, <2>2, <2>3 DEF SimResult
<1>6. QED
  BY <1>2, <1>4, <1>5

-----------------------------------------------------------------------------
(* The theorems.                                                           *)

(* The links always run through exactly the survivors, in the order of     *)
(* their ids, and death_tab holds the others: sim.c:627-644 and 779-783    *)
(* keep the circular list and the table, whatever the order of deaths.     *)
THEOREM CycleTheorem == Spec => [](RingIntact /\ DeathTable)
<1>1. Spec => []CycleInv
  BY CycleInit, CycleStep, PTL DEF Spec
<1>2. CycleInv => RingIntact /\ DeathTable
  BY DEF CycleInv
<1>3. QED
  BY <1>1, <1>2, PTL

(* No survivor is ever more than one turn ahead of another, the clock of   *)
(* sim.c:618, 782 and 1193 is never off by more than one turn, and so no   *)
(* tie deprives a survivor of more than its last turn.                     *)
THEOREM ClockTheorem == Spec => [](TurnsEven /\ ClockInv /\ TieIsFair)
<1>1. Spec => []CycleInv
  BY CycleInit, CycleStep, PTL DEF Spec
<1>2. CycleInv /\ CycleInv' /\ ClockLayer /\ [Next]_vars => ClockLayer'
  BY ClockStep
<1>3. Spec => []ClockLayer
  BY <1>1, <1>2, ClockInit, PTL DEF Spec
<1>4. ClockLayer => TurnsEven /\ ClockInv /\ TieIsFair
  BY DEF ClockLayer
<1>5. QED
  BY <1>3, <1>4, PTL

(* Every turn brings the clock nearer to 0 and never past it, for any      *)
(* number of warriors and any order of deaths, so that the loop at         *)
(* sim.c:646-1193 is left after NWarriors * Cycles turns at the latest.    *)
THEOREM RunsTheorem == Spec => ClockRuns
<1>1. Spec => []CycleInv
  BY CycleInit, CycleStep, PTL DEF Spec
<1>2. CycleInv /\ CycleInv' /\ ClockLayer /\ [Next]_vars => ClockLayer'
  BY ClockStep
<1>3. Spec => []ClockLayer
  BY <1>1, <1>2, ClockInit, PTL DEF Spec
<1>4. CycleInv /\ CycleInv' /\ ClockLayer /\ [Next]_vars => [ClockFalls]_vars
  <2> SUFFICES ASSUME CycleInv, ClockLayer, [Next]_vars
               PROVE  ClockFalls \/ UNCHANGED vars
    OBVIOUS
  <2>1. ~over => cycles \in Nat \ {0} /\ alive_cnt \in Nat
    <3> SUFFICES ASSUME ~over PROVE cycles \in Nat \ {0} /\ alive_cnt \in Nat
      OBVIOUS
    <3>1. w \in Alive /\ cycles \in Int /\ alive_cnt \in Nat
      BY DEF CycleInv, RingIntact, ControlTypeOK
    <3>2. cycles >= 0 /\ cycles # 0
      BY <3>1 DEF ClockLayer, ClockInv
    <3>3. QED
      BY <3>1, <3>2
  <2>2. CASE LivesOn
    <3>1. cycles' = cycles - 1 /\ (over' <=> cycles - 1 <= 0) /\ ~over
      BY <2>2 DEF LivesOn, Tick
    <3>2. QED
      BY <2>1, <3>1 DEF ClockFalls
  <2>3. CASE WarriorDies
    <3>1. CASE alive_cnt - 1 <= 1
      BY <2>3, <3>1 DEF WarriorDies, ClockFalls
    <3>2. CASE alive_cnt - 1 > 1
      <4>1. Tick(CyclesAfterDeath) /\ ~over
        BY <2>3, <3>2 DEF WarriorDies, Fetch
      <4> DEFINE c == cycles
                 n == alive_cnt
                 q == cycles \div alive_cnt
      <4>2. /\ c \in Nat \ {0} /\ n \in Nat \ {0} /\ q = c \div n
            /\ cycles' = c - q - 1 /\ (over' <=> c - q - 1 <= 0)
        <5>1. cycles' = c - q - 1 /\ (over' <=> c - q - 1 <= 0)
          BY <4>1 DEF Tick, CyclesAfterDeath
        <5> HIDE DEF q
        <5>2. c \in Nat \ {0} /\ n \in Nat \ {0}
          BY <2>1, <3>2, <4>1
        <5>3. QED
          BY <5>1, <5>2 DEF q
      <4>3. cycles = c
        OBVIOUS
      <4> HIDE DEF c, n, q
      <4>4. q \in Nat
        BY <4>2
      <4>5. QED
        BY <4>2, <4>3, <4>4 DEF ClockFalls
    <3>3. QED
      BY <2>3, <3>1, <3>2 DEF WarriorDies, CycleInv, ControlTypeOK
  <2>4. QED
    BY <2>2, <2>3, TurnCases DEF CycleInv
<1>5. QED
  BY <1>1, <1>3, <1>4, PTL DEF Spec, ClockRuns

(* Every variable keeps its type; in particular head and tail never leave  *)
(* the buffer (sim.c:502, 653-654).                                        *)
THEOREM TypeTheorem == Spec => []TypeOK
<1>1. Spec => []CycleInv
  BY CycleInit, CycleStep, PTL DEF Spec
<1>2. CycleInv /\ CycleInv' /\ ClockLayer /\ [Next]_vars => ClockLayer'
  BY ClockStep
<1>3. Spec => []ClockLayer
  BY <1>1, <1>2, ClockInit, PTL DEF Spec
<1>4. CycleInv /\ CycleInv' /\ ClockLayer' /\ QueueLayer /\ [Next]_vars => QueueLayer'
  BY QueueStep
<1>5. Spec => []QueueLayer
  BY <1>1, <1>3, <1>4, QueueInit, PTL DEF Spec
<1>6. CycleInv /\ QueueLayer => TypeOK
  BY DEF CycleInv, QueueLayer, TypeOK
<1>7. QED
  BY <1>1, <1>5, <1>6, PTL

(* The queues never run into one another, hold only core addresses and     *)
(* slide one slot per turn, and no turn overwrites a waiting process: the  *)
(* layout claimed at sim.c:528-552 works for every number of warriors and  *)
(* processes, because no survivor is ever two turns ahead of another.      *)
THEOREM QueueTheorem == Spec => [](QueuesIntact /\ SlicesSlide) /\ NeverOverwrites
<1>1. Spec => []CycleInv
  BY CycleInit, CycleStep, PTL DEF Spec
<1>2. CycleInv /\ CycleInv' /\ ClockLayer /\ [Next]_vars => ClockLayer'
  BY ClockStep
<1>3. Spec => []ClockLayer
  BY <1>1, <1>2, ClockInit, PTL DEF Spec
<1>4. CycleInv /\ CycleInv' /\ ClockLayer' /\ QueueLayer /\ [Next]_vars
         => QueueLayer' /\ [WaitingKept]_vars
  BY QueueStep
<1>5. Spec => []QueueLayer
  BY <1>1, <1>3, <1>4, QueueInit, PTL DEF Spec
<1>6. QueueLayer => SlicesSlide
  BY DEF QueueLayer, SlicesSlide
<1>7. QED
  BY <1>1, <1>3, <1>4, <1>5, <1>6, QueuesFromLayers, PTL DEF Spec, NeverOverwrites

(* The sliding slices of one buffer, the doubly linked circle and the clock*)
(* that is corrected at every death (sim.c:528-552, 627-644, 775-792 and   *)
(* 1193) amount, for every number of warriors, processes and cycles, to    *)
(* what AbstractBattle promises: first-in first-out queues served round    *)
(* robin until a decision or a tie.                                        *)
THEOREM BattleTheorem == Spec => ImplementsBattle
<1>1. Spec => []CycleInv
  BY CycleInit, CycleStep, PTL DEF Spec
<1>2. CycleInv /\ CycleInv' /\ ClockLayer /\ [Next]_vars => ClockLayer'
  BY ClockStep
<1>3. Spec => []ClockLayer
  BY <1>1, <1>2, ClockInit, PTL DEF Spec
<1>4. CycleInv /\ CycleInv' /\ ClockLayer' /\ QueueLayer /\ [Next]_vars
         => QueueLayer' /\ [WaitingKept]_vars
  BY QueueStep
<1>5. Spec => []QueueLayer /\ [][WaitingKept]_vars
  BY <1>1, <1>3, <1>4, QueueInit, PTL DEF Spec
<1>6. CycleInv /\ DecidedStops /\ [Next]_vars => DecidedStops'
  BY DecidedStep
<1>7. Spec => []DecidedStops
  BY <1>1, <1>6, DecidedInit, PTL DEF Spec
<1>8. CycleInv /\ CycleInv' /\ ClockLayer /\ ClockLayer' /\ QueueLayer /\ QueueLayer'
        /\ DecidedStops /\ DecidedStops' /\ [WaitingKept]_vars /\ [Next]_vars
         => [Battle!Next]_(Battle!vars)
  <2>1. UNCHANGED vars => UNCHANGED Battle!vars
    <3>1. UNCHANGED vars => /\ Alive' = Alive /\ UNCHANGED <<w, succ, deaths, turns, over>>
                            /\ [i \in Warriors |-> ProcsOf(i)]' = [i \in Warriors |-> ProcsOf(i)]
      BY DEF vars, Alive, ProcsOf
    <3>2. QED
      BY <3>1 DEF Battle!vars
  <2>2. QED
    BY <2>1, BattleStep
<1>9. QED
  BY <1>1, <1>3, <1>5, <1>7, <1>8, BattleInit, PTL DEF Spec, ImplementsBattle, Battle!Spec

(* What sim() returns of a battle of two is read off the death table alone *)
(* (sim.c:448-451), and it is always the survivor, or a tie when both live.*)
THEOREM SurvivorTheorem == Spec => []ResultNamesSurvivor
<1>1. Spec => []CycleInv
  BY CycleInit, CycleStep, PTL DEF Spec
<1>2. CycleInv /\ DecidedStops /\ [Next]_vars => DecidedStops'
  BY DecidedStep
<1>3. Spec => []DecidedStops
  BY <1>1, <1>2, DecidedInit, PTL DEF Spec
<1>4. Init => OneIsLeft
  BY DEF Init, OneIsLeft
<1>5. CycleInv /\ DecidedStops /\ OneIsLeft /\ [Next]_vars => OneIsLeft'
  BY OneIsLeftStep
<1>6. Spec => []OneIsLeft
  BY <1>1, <1>3, <1>4, <1>5, PTL DEF Spec
<1>7. QED
  BY <1>1, <1>6, ResultFromTable, PTL

-----------------------------------------------------------------------------
(* From here on, warriors have programs and p-spaces.                      *)

USE PSpaceSizeAssumption, ProgramsAssumption


-----------------------------------------------------------------------------
(* The arithmetic of addresses.                                            *)

Registers == [a : Addr, b : Addr]

LEMMA AddressArithmetic ==
    ASSUME NEW x \in Addr, NEW y \in Addr
    PROVE  /\ IncMod(x) \in Addr /\ DecMod(x) \in Addr
           /\ AddMod(x, y) \in Addr /\ SubMod(x, y) \in Addr
  BY DEF IncMod, DecMod, AddMod, SubMod, Addr

(* A field of an instruction or a register, by name.                       *)
LEMMA FieldType ==
    ASSUME NEW f \in Fields
    PROVE  /\ \A insn \in Insn : insn[f] \in Addr
           /\ \A ra \in Registers : ra[f] \in Addr
           /\ \A insn \in Insn, x \in Addr : [insn EXCEPT ![f] = x] \in Insn
<1>1. CASE f = "a"
  BY <1>1 DEF Insn, Registers
<1>2. CASE f = "b"
  BY <1>2 DEF Insn, Registers
<1>3. QED
  BY <1>1, <1>2 DEF Fields

LEMMA OperandType ==
    ASSUME NEW c \in [Addr -> Insn], NEW at \in Addr, NEW mode \in ADDRMODE,
           NEW x \in Addr, NEW own \in Registers
    PROVE  /\ Operand(c, at, mode, x, own).address \in Addr
           /\ Operand(c, at, mode, x, own).values \in Registers
           /\ Operand(c, at, mode, x, own).core \in [Addr -> Insn]
<1> DEFINE point == AddMod(x, at)
           f == Via(mode)
           t == IF mode \in {"APREDEC", "BPREDEC"} THEN DecMod(c[point][f])
                                                   ELSE c[point][f]
           before == [c EXCEPT ![point][f] = t]
           target == AddMod(t, point)
           after == IF mode \in {"APOSTINC", "BPOSTINC"}
                    THEN [before EXCEPT ![point][f] = IncMod(t)]
                    ELSE before
<1>1. point \in Addr /\ f \in Fields
  BY AddressArithmetic DEF Via, Fields
<1>2. t \in Addr /\ IncMod(t) \in Addr
  <2>1. c[point] \in Insn
    BY <1>1
  <2> HIDE DEF point, f
  <2>2. c[point][f] \in Addr
    BY <1>1, <2>1, FieldType
  <2>3. t \in Addr
    BY <2>2, AddressArithmetic
  <2> HIDE DEF t
  <2>4. QED
    BY <2>3, AddressArithmetic
<1>3. \A d \in [Addr -> Insn], z \in Addr : [d EXCEPT ![point][f] = z] \in [Addr -> Insn]
  <2> HIDE DEF point, f
  <2> TAKE d \in [Addr -> Insn], z \in Addr
  <2>1. [d[point] EXCEPT ![f] = z] \in Insn
    BY <1>1, FieldType
  <2>2. QED
    BY <1>1, <2>1
<1>4. before \in [Addr -> Insn] /\ after \in [Addr -> Insn]
  <2> HIDE DEF point, f, t
  <2>1. before \in [Addr -> Insn]
    BY <1>2, <1>3
  <2> HIDE DEF before
  <2>2. QED
    BY <1>2, <1>3, <2>1
<1>5. target \in Addr
  <2> HIDE DEF point, t
  <2>1. QED
    BY <1>1, <1>2, AddressArithmetic
<1>6. \A insn \in Insn : Values(insn) \in Registers
  BY DEF Insn, Values, Registers
<1>7. Values(c[point]) \in Registers /\ Values(before[target]) \in Registers
  <2> HIDE DEF point, t, before, target
  <2>1. QED
    BY <1>1, <1>4, <1>5, <1>6
<1>8. Operand(c, at, mode, x, own) =
        CASE mode = "IMMEDIATE" -> [address |-> at, values |-> own, core |-> c]
          [] mode = "DIRECT" ->
               [address |-> point, values |-> Values(c[point]), core |-> c]
          [] OTHER ->
               [address |-> target, values |-> Values(before[target]), core |-> after]
  BY DEF Operand
<1> HIDE DEF point, f, t, before, target, after
<1>9. CASE mode = "IMMEDIATE"
  BY <1>8, <1>9
<1>10. CASE mode = "DIRECT"
  BY <1>1, <1>7, <1>8, <1>10
<1>11. CASE mode \notin {"IMMEDIATE", "DIRECT"}
  BY <1>4, <1>5, <1>7, <1>8, <1>11
<1>12. QED
  BY <1>9, <1>10, <1>11

-----------------------------------------------------------------------------
(* What the switch computes.                                               *)

LEMMA ComputeType ==
    ASSUME NEW op \in {"MOV", "ADD", "SUB", "MUL", "MODM", "DIV"},
           NEW u \in Addr, NEW v \in Addr, op \in {"MODM", "DIV"} => u # 0
    PROVE  Compute(op, u, v) \in Addr
<1>1. CASE op = "MOV"
  BY <1>1 DEF Compute
<1>2. CASE op = "ADD"
  BY <1>2, AddressArithmetic DEF Compute
<1>3. CASE op = "SUB"
  BY <1>3, AddressArithmetic DEF Compute
<1>4. CASE op = "MUL"
  <2>1. v * u \in Int
    BY DEF Addr
  <2> DEFINE z == v * u
  <2> HIDE DEF z
  <2>2. z % Coresize \in Addr
    BY <2>1 DEF z, Addr
  <2>3. QED
    BY <1>4, <2>2 DEF Compute, z
<1>5. CASE op = "MODM"
  <2>1. v % u \in Addr
    BY <1>5 DEF Addr
  <2>2. QED
    BY <1>5, <2>1 DEF Compute
<1>6. CASE op = "DIV"
  <2> DEFINE q == v \div u
  <2>1. u \in Nat \ {0} /\ v \in Nat /\ v < Coresize
    BY <1>6 DEF Addr
  <2>2. q \in Nat /\ q <= v
    <3>1. q \in Int /\ u * q <= v /\ v < u * q + u
      BY <2>1
    <3> HIDE DEF q
    <3>2. q >= 0
      <4>1. CASE q <= -1
        <5>1. u * q <= u * (-1)
          BY <2>1, <3>1, <4>1
        <5>2. QED
          BY <2>1, <3>1, <5>1
      <4>2. QED
        BY <3>1, <4>1
    <3>3. q <= u * q
      BY <2>1, <3>1, <3>2
    <3>4. QED
      BY <2>1, <3>1, <3>2, <3>3
  <2>3. q \in Addr
    BY <2>1, <2>2 DEF Addr
  <2>4. QED
    BY <1>6, <2>3 DEF Compute
<1>7. QED
  BY <1>1, <1>2, <1>3, <1>4, <1>5, <1>6

LEMMA PairFields ==
    ASSUME NEW modifier
    PROVE  /\ Pairs(modifier) \subseteq Fields \X Fields
           /\ Tested(modifier) \subseteq Fields
           /\ Moved(modifier) \in Fields \X Fields
<1>1. Pairs(modifier) \subseteq Fields \X Fields
  BY DEF Pairs, Fields
<1>2. Moved(modifier) \in Fields \X Fields
  BY DEF Moved, Fields
<1>3. Tested(modifier) \subseteq Fields
  BY <1>1 DEF Tested
<1>4. QED
  BY <1>1, <1>2, <1>3

LEMMA PutType ==
    ASSUME NEW insn \in Insn, NEW new, \A f \in DOMAIN new : new[f] \in Addr
    PROVE  Put(insn, new) \in Insn
  BY DEF Put, Insn

LEMMA ResultsType ==
    ASSUME NEW op \in {"MOV", "ADD", "SUB", "MUL", "MODM", "DIV"}, NEW modifier,
           NEW ra \in Registers, NEW rb \in Registers
    PROVE  \A f \in DOMAIN Results(op, modifier, ra, rb) :
              Results(op, modifier, ra, rb)[f] \in Addr
<1> DEFINE done == Pairs(modifier) \ Undivided(op, modifier, ra)
           from(f) == CHOOSE p \in done : p[2] = f
<1>1. Results(op, modifier, ra, rb) =
        [f \in {p[2] : p \in done} |-> Compute(op, ra[from(f)[1]], rb[f])]
  BY DEF Results
<1>2. ASSUME NEW f \in {p[2] : p \in done}
      PROVE  Compute(op, ra[from(f)[1]], rb[f]) \in Addr
  <2>1. from(f) \in done /\ from(f)[2] = f
    BY <1>2
  <2>2. from(f) \in Fields \X Fields
    BY <2>1, PairFields
  <2>3. from(f)[1] \in Fields /\ f \in Fields
    BY <2>1, <2>2
  <2>4. ra[from(f)[1]] \in Addr /\ rb[f] \in Addr
    <3> HIDE DEF from
    <3>1. QED
      BY <2>3, FieldType
  <2>5. op \in {"MODM", "DIV"} => ra[from(f)[1]] # 0
    <3> HIDE DEF from
    <3>1. QED
      BY <2>1 DEF Undivided
  <2> HIDE DEF from
  <2>6. QED
    BY <2>4, <2>5, ComputeType
<1> HIDE DEF done, from
<1>3. QED
  BY <1>1, <1>2

LEMMA WrittenType ==
    ASSUME NEW in \in Insn, NEW m \in Insn, NEW n \in Insn,
           NEW ra \in Registers, NEW rb \in Registers, NEW ps \in [PAddr -> Addr]
    PROVE  Written(in, m, n, ra, rb, ps) \in Insn
<1> DEFINE x == Moved(in.modifier)[1]
           y == Moved(in.modifier)[2]
<1>1. CASE in.opcode \in {"MOV", "ADD", "SUB", "MUL", "MODM", "DIV"}
  <2> DEFINE new == Results(in.opcode, in.modifier, ra, rb)
             old == IF in.opcode = "MOV" /\ in.modifier = "I" THEN m ELSE n
  <2>1. \A f \in DOMAIN new : new[f] \in Addr
    BY <1>1, ResultsType
  <2>2. old \in Insn
    OBVIOUS
  <2>3. Written(in, m, n, ra, rb, ps) = Put(old, new)
    BY <1>1 DEF Written
  <2> HIDE DEF new, old
  <2>4. QED
    BY <2>1, <2>2, <2>3, PutType
<1>2. CASE in.opcode = "DJN"
  <2> DEFINE new == [f \in Tested(in.modifier) |-> DecMod(n[f])]
  <2>1. \A f \in DOMAIN new : new[f] \in Addr
    BY PairFields, FieldType, AddressArithmetic
  <2>2. Written(in, m, n, ra, rb, ps) = Put(n, new)
    BY <1>2 DEF Written
  <2> HIDE DEF new
  <2>3. QED
    BY <2>1, <2>2, PutType
<1>3. CASE in.opcode = "LDP"
  <2> DEFINE new == [f \in {y} |-> ps[ra[x] % PSpace_size]]
  <2>1. x \in Fields /\ y \in Fields
    BY PairFields
  <2>2. ra[x] \in Addr
    <3> HIDE DEF x
    <3>1. QED
      BY <2>1, FieldType
  <2>3. ra[x] % PSpace_size \in PAddr
    <3> HIDE DEF x
    <3>1. QED
      BY <2>2 DEF Addr, PAddr
  <2>4. \A f \in DOMAIN new : new[f] \in Addr
    <3> HIDE DEF x, y
    <3>1. QED
      BY <2>3
  <2>5. Written(in, m, n, ra, rb, ps) = Put(n, new)
    BY <1>3 DEF Written
  <2> HIDE DEF new
  <2>6. QED
    BY <2>4, <2>5, PutType
<1>4. CASE in.opcode \notin {"MOV", "ADD", "SUB", "MUL", "MODM", "DIV", "DJN", "LDP"}
  BY <1>4 DEF Written
<1>5. QED
  BY <1>1, <1>2, <1>3, <1>4

(* Every instruction keeps the fields in core in range, stores only field  *)
(* values in p-space and sends the process on to addresses of core.        *)
LEMMA ExecuteType ==
    ASSUME NEW c \in [Addr -> Insn], NEW at \in Addr, NEW ps \in [PAddr -> Addr]
    PROVE  LET done == Execute(c, at, ps)
           IN  /\ done.core \in [Addr -> Insn]
               /\ done.store = <<>> \/ done.store \in PAddr \X Addr
               /\ \/ done.next = <<>>
                  \/ Len(done.next) = 1 /\ done.next[1] \in Addr
                  \/ Len(done.next) = 2 /\ done.next[2] \in Addr
<1> DEFINE in == c[at]
           A == Operand(c, at, in.amode, in.a, Values(in))
           B == Operand(A.core, at, in.bmode, in.b, Values(in))
           ra == RegisterA(A, B)
           rb == B.values
           m == B.core[A.address]
           n == B.core[B.address]
           new == Written(in, m, n, ra, rb, ps)
           next == CASE Dies(in, ra) -> <<>>
                     [] in.opcode = "SPL" -> <<IncMod(at), A.address>>
                     [] Jumps(in, rb) -> <<A.address>>
                     [] Skips(in, m, n, ra, rb) -> <<Skipped(at)>>
                     [] OTHER -> <<IncMod(at)>>
<1>1. /\ in \in Insn /\ in.amode \in ADDRMODE /\ in.bmode \in ADDRMODE
      /\ in.a \in Addr /\ in.b \in Addr
  BY DEF Insn
<1>2. Values(in) \in Registers
  <2> HIDE DEF in
  <2>1. QED
    BY <1>1 DEF Values, Registers
<1>3. A.address \in Addr /\ A.values \in Registers /\ A.core \in [Addr -> Insn]
  <2> HIDE DEF in
  <2>1. QED
    BY <1>1, <1>2, OperandType
<1>4. B.address \in Addr /\ B.values \in Registers /\ B.core \in [Addr -> Insn]
  <2> DEFINE d == A.core
  <2>1. d \in [Addr -> Insn]
    BY <1>3
  <2> HIDE DEF in, d
  <2>2. /\ Operand(d, at, in.bmode, in.b, Values(in)).address \in Addr
        /\ Operand(d, at, in.bmode, in.b, Values(in)).values \in Registers
        /\ Operand(d, at, in.bmode, in.b, Values(in)).core \in [Addr -> Insn]
    BY <1>1, <1>2, <2>1, OperandType
  <2>3. QED
    BY <2>2 DEF d
<1>5. Execute(c, at, ps) =
        [core |-> [B.core EXCEPT ![B.address] = new],
         store |-> Stored(in, ra, rb), next |-> next]
  BY DEF Execute
<1> HIDE DEF A, B, in
<1>6. ra \in Registers /\ rb \in Registers /\ m \in Insn /\ n \in Insn
  BY <1>3, <1>4 DEF RegisterA
<1> HIDE DEF ra, rb, m, n
<1>7. new \in Insn
  BY <1>1, <1>6, WrittenType
<1>8. Stored(in, ra, rb) = <<>> \/ Stored(in, ra, rb) \in PAddr \X Addr
  <2> DEFINE x == Moved(in.modifier)[1]
             y == Moved(in.modifier)[2]
  <2>1. x \in Fields /\ y \in Fields
    BY PairFields
  <2>2. Stored(in, ra, rb) = IF in.opcode = "STP" THEN <<rb[y] % PSpace_size, ra[x]>>
                                                 ELSE <<>>
    BY DEF Stored
  <2> HIDE DEF x, y
  <2>3. ra[x] \in Addr /\ rb[y] \in Addr
    BY <1>6, <2>1, FieldType
  <2>4. rb[y] % PSpace_size \in PAddr
    BY <2>3 DEF Addr, PAddr
  <2>5. QED
    BY <2>2, <2>3, <2>4
<1>9. IncMod(at) \in Addr /\ Skipped(at) \in Addr
  BY AddressArithmetic DEF Skipped
<1>10. \/ next = <<>>
       \/ Len(next) = 1 /\ next[1] \in Addr
       \/ Len(next) = 2 /\ next[2] \in Addr
  <2> DEFINE t == A.address
             i == IncMod(at)
             s == Skipped(at)
  <2>1. t \in Addr /\ i \in Addr /\ s \in Addr
    BY <1>3, <1>9
  <2> HIDE DEF t, i, s
  <2>2. next \in {<<>>, <<i, t>>, <<t>>, <<s>>, <<i>>}
    BY DEF t, i, s
  <2> HIDE DEF next
  <2>3. QED
    BY <2>1, <2>2
<1> HIDE DEF new, next
<1>11. [B.core EXCEPT ![B.address] = new] \in [Addr -> Insn]
  BY <1>4, <1>7
<1>12. QED
  BY <1>5, <1>8, <1>10, <1>11

-----------------------------------------------------------------------------
(* Loading.                                                                *)

(* Core when the first so many warriors were loaded, as in LoadedAll.      *)
Load(code) ==
    CHOOSE load : load = [k \in 0 .. NWarriors |->
        IF k = 0 THEN [a \in Addr |-> Zeroed]
        ELSE Loaded(load[k - 1], Positions[k - 1], code[k - 1])]

LEMMA LoadExists ==
    ASSUME NEW code
    PROVE  \A k \in 0 .. NWarriors :
              Load(code)[k] = IF k = 0 THEN [a \in Addr |-> Zeroed]
                              ELSE Loaded(Load(code)[k - 1], Positions[k - 1], code[k - 1])
<1> DEFINE Zero == [a \in Addr |-> Zeroed]
           After(c, k) == Loaded(c, Positions[k - 1], code[k - 1])
           Good(n, load) ==
               load = [k \in 0 .. n |-> IF k = 0 THEN Zero ELSE After(load[k - 1], k)]
           Bad == {n \in 0 .. NWarriors : ~\E load : Good(n, load)}
<1> HIDE DEF Zero, After
<1>1. 0 \notin Bad
  <2>1. Good(0, [k \in 0 .. 0 |-> Zero])
    OBVIOUS
  <2>2. QED
    BY <2>1
<1>2. ASSUME NEW n \in Bad
      PROVE  n - 1 \in Bad
  <2>1. n \in Nat \ {0} /\ n - 1 \in 0 .. NWarriors
    <3> HIDE DEF Good
    <3>1. n \in 0 .. NWarriors /\ n # 0
      BY <1>1
    <3>2. QED
      BY <3>1
  <2>2. ASSUME NEW load, Good(n - 1, load)
        PROVE  FALSE
    <3> DEFINE more == [k \in 0 .. n |-> IF k = n THEN After(load[n - 1], n) ELSE load[k]]
    <3>1. \A k \in 0 .. n - 1 : load[k] = IF k = 0 THEN Zero ELSE After(load[k - 1], k)
      BY <2>2
    <3>2. ASSUME NEW k \in 0 .. n
          PROVE  more[k] = IF k = 0 THEN Zero ELSE After(more[k - 1], k)
      <4>1. CASE k = n
        <5>1. more[k] = After(load[n - 1], n) /\ more[n - 1] = load[n - 1]
          BY <2>1, <4>1
        <5> HIDE DEF more
        <5>2. QED
          BY <2>1, <4>1, <5>1
      <4>2. CASE k # n
        <5>1. k \in 0 .. n - 1 /\ more[k] = load[k]
          BY <2>1, <4>2
        <5>2. k # 0 => more[k - 1] = load[k - 1]
          BY <2>1, <4>2
        <5> HIDE DEF more
        <5>3. QED
          BY <3>1, <5>1, <5>2
      <4>3. QED
        BY <4>1, <4>2
    <3>3. more = [k \in 0 .. n |-> more[k]]
      OBVIOUS
    <3> HIDE DEF more
    <3>4. Good(n, more)
      BY <3>2, <3>3
    <3>5. QED
      BY <1>2, <3>4
  <2>3. QED
    BY <2>1, <2>2
<1>3. Bad = {}
  <2>1. Bad \subseteq Nat
    OBVIOUS
  <2> HIDE DEF Bad
  <2>2. QED
    BY <1>1, <1>2, <2>1, NoLeastFailure
<1>4. \E load : Good(NWarriors, load)
  <2>1. NWarriors \in 0 .. NWarriors
    OBVIOUS
  <2> HIDE DEF Good
  <2>2. QED
    BY <1>3, <2>1
<1>5. Load(code) = CHOOSE load : Good(NWarriors, load)
  BY DEF Load, Zero, After
<1>6. Good(NWarriors, Load(code))
  BY <1>4, <1>5
<1> DEFINE L == Load(code)
<1> HIDE DEF L
<1>7. \A k \in 0 .. NWarriors : L[k] = IF k = 0 THEN Zero ELSE After(L[k - 1], k)
  BY <1>6 DEF L
<1>8. QED
  BY <1>7 DEF L, Zero, After

LEMMA LoadedOneType ==
    ASSUME NEW c \in [Addr -> Insn], NEW pos \in Addr, NEW prog \in Programs
    PROVE  Loaded(c, pos, prog) \in [Addr -> Insn]
<1>1. prog \in Seq(Insn)
  OBVIOUS
<1>2. ASSUME NEW k \in Addr, NEW i, i = (k - pos) % Coresize, i < Len(prog)
      PROVE  prog[i + 1] \in Insn
  <2>1. k - pos \in Int
    BY DEF Addr
  <2>2. i \in Nat
    BY <1>2, <2>1
  <2>3. i + 1 \in 1 .. Len(prog)
    BY <1>1, <1>2, <2>2
  <2>4. QED
    BY <1>1, <2>3
<1>3. QED
  BY <1>2 DEF Loaded

(* The core a battle starts with holds instructions only.                  *)
LEMMA LoadedType ==
    ASSUME NEW code \in [Warriors -> Programs],
           \A i \in Warriors : Positions[i] \in Addr
    PROVE  LoadedAll(code) \in [Addr -> Insn]
<1> DEFINE L == Load(code)
           Bad == {k \in 0 .. NWarriors : L[k] \notin [Addr -> Insn]}
<1>1. \A k \in 0 .. NWarriors :
         L[k] = IF k = 0 THEN [a \in Addr |-> Zeroed]
                ELSE Loaded(L[k - 1], Positions[k - 1], code[k - 1])
  BY LoadExists
<1>2. LoadedAll(code) = L[NWarriors]
  BY DEF LoadedAll, Load
<1> HIDE DEF L
<1>3. 0 \notin Bad
  <2>1. Zeroed \in Insn
    BY DEF Zeroed, Insn, OPCODE, MODIFIER, ADDRMODE, Addr
  <2>2. QED
    BY <1>1, <2>1
<1>4. ASSUME NEW k \in Bad
      PROVE  k - 1 \in Bad
  <2>1. /\ k \in 0 .. NWarriors /\ k # 0 /\ L[k] \notin [Addr -> Insn]
        /\ k - 1 \in 0 .. NWarriors /\ k - 1 \in Warriors
    BY <1>3 DEF Warriors
  <2>2. Positions[k - 1] \in Addr /\ code[k - 1] \in Programs
    BY <2>1
  <2>3. L[k - 1] \notin [Addr -> Insn]
    <3> DEFINE c == L[k - 1]
               pos == Positions[k - 1]
               prog == code[k - 1]
    <3>1. L[k] = Loaded(c, pos, prog)
      BY <1>1, <2>1
    <3>2. pos \in Addr /\ prog \in Programs
      BY <2>2
    <3> HIDE DEF c, pos, prog
    <3>3. c \notin [Addr -> Insn]
      BY <2>1, <3>1, <3>2, LoadedOneType
    <3>4. QED
      BY <3>3 DEF c
  <2>4. QED
    BY <2>1, <2>3
<1>5. Bad = {}
  <2>1. Bad \subseteq Nat
    OBVIOUS
  <2> HIDE DEF Bad
  <2>2. QED
    BY <1>3, <1>4, <2>1, NoLeastFailure
<1>6. QED
  BY <1>2, <1>5

-----------------------------------------------------------------------------
(* A turn of the battle is a turn of the scheduler.                        *)

Layers == CycleInv /\ ClockLayer /\ QueueLayer

LEMMA LayersInit == Init => Layers
  BY CycleInit, ClockInit, QueueInit DEF Layers

LEMMA LayersStep ==
    ASSUME Layers, [Next]_vars
    PROVE  Layers'
<1>1. CycleInv'
  BY CycleStep DEF Layers
<1>2. ClockLayer'
  BY <1>1, ClockStep DEF Layers
<1>3. QueueLayer'
  BY <1>1, <1>2, QueueStep DEF Layers
<1>4. QED
  BY <1>1, <1>2, <1>3 DEF Layers

(* The process whose turn it is has an address of core.                    *)
LEMMA FetchedType ==
    ASSUME Layers, ~over
    PROVE  w \in Warriors /\ ip \in Addr
<1>1. w \in Alive /\ w \in Warriors
  BY DEF Layers, CycleInv, ControlTypeOK, RingIntact
<1>2. nprocs[w] \in Nat \ {0} /\ Pos(w) \in Nat
  BY <1>1, PosType DEF Layers, CycleInv, ControlTypeOK, Alive
<1>3. head[w] = Pos(w) % QSize /\ queue[(Pos(w) + 0) % QSize] \in Addr
  BY <1>1, <1>2 DEF Layers, QueueLayer
<1>4. QED
  BY <1>1, <1>2, <1>3 DEF ip

(* What p-spaces hold while the battle is on.                              *)
PSpacesOK ==
    /\ pspaces \in [last : [Warriors -> Nat], mem : [Warriors -> Warriors],
                    own : [Warriors -> [PAddr -> Addr]]]
    /\ ~reported => pspaces.last \in [Warriors -> Addr]
    /\ reported \in BOOLEAN /\ (reported => over)

MarsInv == Layers /\ FieldsInRange /\ PSpacesOK

LEMMA MarsInitInv ==
    ASSUME NWarriors < Coresize, MarsInit
    PROVE  MarsInv
<1>1. Layers
  BY LayersInit DEF MarsInit
<1>2. \A i \in Warriors : Positions[i] \in Addr
  <2>1. \A i \in Warriors : head[i] = Base(i) /\ nprocs[i] = 1
    BY DEF MarsInit, Init
  <2>2. \A i \in Warriors : i \in Alive /\ 0 \in 0 .. nprocs[i] - 1
    BY <2>1 DEF Alive
  <2>3. \A i \in Warriors : /\ queue[(Pos(i) + 0) % QSize] \in Addr
                            /\ head[i] = Pos(i) % QSize /\ Pos(i) \in Nat
    BY <1>1, <2>2, PosType DEF Layers, QueueLayer
  <2>4. \A i \in Warriors : queue[Base(i)] \in Addr
    BY <2>1, <2>3
  <2>5. QED
    BY <2>4 DEF MarsInit
<1>3. FieldsInRange
  BY <1>2, LoadedType DEF MarsInit, FieldsInRange
<1>4. \A last \in LastResults : last \in [Warriors -> Addr]
  <2>1. Coresize - 1 \in Addr /\ 0 \in Addr
    BY DEF Addr
  <2>2. \A S \in SUBSET Warriors : Cardinality(S) \in Addr
    <3>1. IsFiniteSet(Warriors) /\ Cardinality(Warriors) = NWarriors
      BY FS_Interval DEF Warriors
    <3>2. \A S \in SUBSET Warriors : Cardinality(S) \in Nat /\ Cardinality(S) <= NWarriors
      BY <3>1, FS_Subset, FS_CardinalityType
    <3>3. QED
      BY <3>2 DEF Addr
  <2>3. QED
    BY <2>1, <2>2 DEF LastResults
<1>5. PSpacesOK
  <2>1. PICK last \in LastResults, shared \in {TRUE, FALSE} :
           pspaces = [last |-> last,
                      mem |-> [i \in Warriors |-> IF shared THEN NWarriors - 1 ELSE i],
                      own |-> [i \in Warriors |-> [a \in PAddr |-> 0]]]
    BY DEF MarsInit
  <2>2. last \in [Warriors -> Addr] /\ last \in [Warriors -> Nat]
    BY <1>4 DEF Addr
  <2>3. NWarriors - 1 \in Warriors /\ 0 \in Addr
    BY DEF Warriors, Addr
  <2>4. reported = FALSE
    BY DEF MarsInit
  <2>5. QED
    BY <2>1, <2>2, <2>3, <2>4 DEF PSpacesOK
<1>6. QED
  BY <1>1, <1>3, <1>5 DEF MarsInv

(* What w may do to its p-space.                                           *)
LEMMA StoreType ==
    ASSUME PSpacesOK, ~reported, NEW i \in Warriors, NEW paddr \in PAddr, NEW val \in Addr
    PROVE  LET ps == PSet(pspaces, i, paddr, val)
           IN  /\ ps \in [last : [Warriors -> Addr], mem : [Warriors -> Warriors],
                          own : [Warriors -> [PAddr -> Addr]]]
               /\ \A j \in Warriors \ {i} : ps.last[j] = pspaces.last[j]
<1>1. /\ pspaces \in [last : [Warriors -> Addr], mem : [Warriors -> Warriors],
                      own : [Warriors -> [PAddr -> Addr]]]
  BY DEF PSpacesOK
<1>2. CASE paddr % PSpace_size = 0
  BY <1>1, <1>2 DEF PSet
<1>3. CASE paddr % PSpace_size # 0
  <2> DEFINE q == paddr % PSpace_size
             k == pspaces.mem[i]
  <2>1. q \in PAddr /\ k \in Warriors
    BY <1>1 DEF PAddr
  <2>2. PSet(pspaces, i, paddr, val) = [pspaces EXCEPT !.own[k][q] = val]
    BY <1>3 DEF PSet
  <2> HIDE DEF q, k
  <2> DEFINE own == [pspaces.own EXCEPT ![k] = [pspaces.own[k] EXCEPT ![q] = val]]
  <2>3. own \in [Warriors -> [PAddr -> Addr]]
    <3>1. pspaces.own \in [Warriors -> [PAddr -> Addr]]
      BY <1>1
    <3>2. [pspaces.own[k] EXCEPT ![q] = val] \in [PAddr -> Addr]
      BY <2>1, <3>1
    <3>3. QED
      BY <2>1, <3>1, <3>2
  <2>4. PSet(pspaces, i, paddr, val) = [pspaces EXCEPT !.own = own]
    BY <2>2
  <2> HIDE DEF own
  <2>5. QED
    BY <1>1, <2>3, <2>4
<1>4. QED
  BY <1>2, <1>3

LEMMA TurnStep ==
    ASSUME MarsInv, Turn
    PROVE  /\ Next /\ core' \in [Addr -> Insn]
           /\ pspaces' \in [last : [Warriors -> Addr], mem : [Warriors -> Warriors],
                            own : [Warriors -> [PAddr -> Addr]]]
           /\ \A j \in Warriors \ {w} : pspaces'.last[j] = pspaces.last[j]
<1> DEFINE view == [a \in PAddr |-> PGet(pspaces, w, a)]
           done == Execute(core, ip, view)
<1>1. ~over /\ ~reported /\ w \in Warriors /\ ip \in Addr /\ core \in [Addr -> Insn]
  BY FetchedType DEF Turn, MarsInv, FieldsInRange, PSpacesOK
<1>2. pspaces \in [last : [Warriors -> Addr], mem : [Warriors -> Warriors],
                   own : [Warriors -> [PAddr -> Addr]]]
  BY <1>1 DEF MarsInv, PSpacesOK
<1>3. view \in [PAddr -> Addr]
  <2>1. ASSUME NEW a \in PAddr
        PROVE  PGet(pspaces, w, a) \in Addr
    <3>1. a % PSpace_size \in PAddr
      BY DEF PAddr
    <3>2. pspaces.mem[w] \in Warriors
      BY <1>1, <1>2
    <3>3. QED
      BY <1>1, <1>2, <3>1, <3>2 DEF PGet
  <2>2. QED
    BY <2>1
<1> HIDE DEF view
<1>4. /\ done.core \in [Addr -> Insn]
      /\ done.store = <<>> \/ done.store \in PAddr \X Addr
      /\ \/ done.next = <<>>
         \/ Len(done.next) = 1 /\ done.next[1] \in Addr
         \/ Len(done.next) = 2 /\ done.next[2] \in Addr
  BY <1>1, <1>3, ExecuteType
<1>5. /\ \/ done.next = <<>> /\ (ProcessDies \/ WarriorDies)
         \/ Len(done.next) = 1 /\ Continue(done.next[1])
         \/ Len(done.next) = 2 /\ (Split(done.next[2]) \/ SplitFull)
      /\ core' = done.core
      /\ pspaces' = IF done.store = <<>> THEN pspaces
                    ELSE PSet(pspaces, w, done.store[1], done.store[2])
  BY DEF Turn, view
<1> HIDE DEF done
<1>6. Next
  BY <1>4, <1>5 DEF Next
<1>7. /\ pspaces' \in [last : [Warriors -> Addr], mem : [Warriors -> Warriors],
                       own : [Warriors -> [PAddr -> Addr]]]
      /\ \A j \in Warriors \ {w} : pspaces'.last[j] = pspaces.last[j]
  <2>1. CASE done.store = <<>>
    BY <1>2, <1>5, <2>1
  <2>2. CASE done.store # <<>>
    <3>1. done.store[1] \in PAddr /\ done.store[2] \in Addr
      BY <1>4, <2>2
    <3>2. QED
      BY <1>1, <1>5, <2>2, <3>1, StoreType DEF MarsInv
  <2>3. QED
    BY <2>1, <2>2
<1>8. QED
  BY <1>4, <1>5, <1>6, <1>7

LEMMA ReportStep ==
    ASSUME MarsInv, Report
    PROVE  PSpacesOK'
<1>1. /\ pspaces' = [pspaces EXCEPT !.last =
             [i \in Warriors |-> IF i \in Dead THEN 0 ELSE alive_cnt]]
      /\ reported' = TRUE /\ over' = over /\ over
  BY DEF Report, vars
<1>2. alive_cnt \in Nat
  BY DEF MarsInv, Layers, CycleInv, ControlTypeOK
<1>3. [i \in Warriors |-> IF i \in Dead THEN 0 ELSE alive_cnt] \in [Warriors -> Nat]
  BY <1>2
<1>4. QED
  BY <1>1, <1>3 DEF MarsInv, PSpacesOK

LEMMA MarsStep ==
    ASSUME MarsInv, [MarsNext]_marsVars
    PROVE  [Next]_vars /\ MarsInv'
<1>1. CASE Turn
  <2>1. /\ Next /\ core' \in [Addr -> Insn]
        /\ pspaces' \in [last : [Warriors -> Addr], mem : [Warriors -> Warriors],
                         own : [Warriors -> [PAddr -> Addr]]]
    BY <1>1, TurnStep
  <2>2. reported' = FALSE
    BY <1>1 DEF Turn, MarsInv, PSpacesOK
  <2>3. PSpacesOK'
    <3>1. Addr \subseteq Nat
      BY DEF Addr
    <3>2. pspaces' \in [last : [Warriors -> Nat], mem : [Warriors -> Warriors],
                       own : [Warriors -> [PAddr -> Addr]]]
      BY <2>1, <3>1
    <3>3. pspaces'.last \in [Warriors -> Addr]
      BY <2>1
    <3>4. QED
      BY <2>2, <3>2, <3>3 DEF PSpacesOK
  <2>4. Layers'
    BY <2>1, LayersStep DEF MarsInv
  <2>5. QED
    BY <2>1, <2>3, <2>4 DEF MarsInv, FieldsInRange
<1>2. CASE Report
  <2>1. UNCHANGED vars /\ core' = core
    BY <1>2 DEF Report
  <2>2. Layers'
    BY <2>1, LayersStep DEF MarsInv
  <2>3. QED
    BY <1>2, <2>1, <2>2, ReportStep DEF MarsInv, FieldsInRange
<1>3. CASE UNCHANGED marsVars
  <2>1. UNCHANGED vars /\ UNCHANGED <<core, pspaces, reported>> /\ over' = over
    BY <1>3 DEF marsVars, vars
  <2>2. Layers'
    BY <2>1, LayersStep DEF MarsInv
  <2>3. QED
    BY <2>1, <2>2 DEF MarsInv, FieldsInRange, PSpacesOK
<1>4. QED
  BY <1>1, <1>2, <1>3 DEF MarsNext

LEMMA MarsInvHolds ==
    NWarriors < Coresize => (MarsSpec => []MarsInv /\ [][Next]_vars)
<1>1. NWarriors < Coresize /\ MarsInit => MarsInv
  BY MarsInitInv
<1>2. MarsInv /\ [MarsNext]_marsVars => [Next]_vars /\ MarsInv'
  BY MarsStep
<1>3. QED
  BY <1>1, <1>2, PTL DEF MarsSpec

-----------------------------------------------------------------------------
(* What p-space location 0 says.                                           *)

LEMMA ToldStep ==
    ASSUME MarsInv, ToldInPSpace, [MarsNext]_marsVars
    PROVE  ToldInPSpace'
<1>1. CASE Turn
  BY <1>1 DEF Turn, MarsInv, PSpacesOK, ToldInPSpace
<1>2. CASE Report
  <2>1. UNCHANGED <<nprocs, deaths, alive_cnt>> /\ Alive' = Alive
    BY <1>2 DEF Report, vars, Alive
  <2>2. Dead = Warriors \ Alive /\ alive_cnt = Cardinality(Alive)
    BY DEF MarsInv, Layers, CycleInv, DeathTable, Dead
  <2>3. pspaces'.last = [i \in Warriors |-> IF i \in Dead THEN 0 ELSE alive_cnt]
    BY <1>2 DEF Report, MarsInv, PSpacesOK
  <2>4. QED
    BY <2>1, <2>2, <2>3 DEF ToldInPSpace
<1>3. CASE UNCHANGED marsVars
  BY <1>3 DEF marsVars, vars, ToldInPSpace, Alive
<1>4. QED
  BY <1>1, <1>2, <1>3 DEF MarsNext

LEMMA PrivateStep ==
    ASSUME MarsInv, [MarsNext]_marsVars, ~reported'
    PROVE  \A i \in Warriors \ {w} : pspaces'.last[i] = pspaces.last[i]
<1>1. CASE Turn
  BY <1>1, TurnStep
<1>2. CASE Report
  BY <1>2 DEF Report
<1>3. CASE UNCHANGED marsVars
  BY <1>3 DEF marsVars
<1>4. QED
  BY <1>1, <1>2, <1>3 DEF MarsNext

-----------------------------------------------------------------------------
(* The theorems.                                                           *)

(* Whatever the programs, every battle in core is a run of the scheduler:  *)
(* the ways out of the switch that MarsSched allows are the ones the       *)
(* instructions take (sim.c:688-1193), so its theorems hold in core too.   *)
THEOREM ScheduledTheorem == NWarriors < Coresize => (MarsSpec => Spec)
<1>1. MarsInit => Init
  BY DEF MarsInit
<1>2. QED
  BY <1>1, MarsInvHolds, PTL DEF MarsSpec, Spec

(* No instruction with any modifier and modes takes a field of core out of *)
(* 0..CORESIZE-1 (exhaust.h:41-42), with which the cheap address           *)
(* arithmetic of sim.c:494 and the next instruction stay right.            *)
THEOREM FieldsTheorem == NWarriors < Coresize => (MarsSpec => []FieldsInRange)
<1>1. MarsInv => FieldsInRange
  BY DEF MarsInv
<1>2. QED
  BY <1>1, MarsInvHolds, PTL

(* sim_mw() tells every survivor how many they are and the dead nothing    *)
(* (sim.c:366-369 and 402-412), whatever STP has put there, and sim() names*)
(* the survivor of two.                                                    *)
THEOREM OutcomeTheorem == NWarriors < Coresize => (MarsSpec => []OutcomeTold)
<1>1. MarsInit => ToldInPSpace
  BY DEF MarsInit, ToldInPSpace
<1>2. MarsInv /\ ToldInPSpace /\ [MarsNext]_marsVars => ToldInPSpace'
  BY ToldStep
<1>3. ToldInPSpace /\ ResultNamesSurvivor => OutcomeTold
  BY DEF OutcomeTold
<1>4. QED
  BY <1>1, <1>2, <1>3, MarsInvHolds, ScheduledTheorem, SurvivorTheorem, PTL DEF MarsSpec

(* During a battle location 0 of a warrior is changed by its own STP only, *)
(* also when the rest of its p-space is shared (pspace.c, pspace_set()).   *)
THEOREM PrivateTheorem == NWarriors < Coresize => (MarsSpec => LocationZeroIsPrivate)
<1>1. MarsInv /\ [MarsNext]_marsVars =>
         [~reported' => \A i \in Warriors \ {w} :
                           pspaces'.last[i] = pspaces.last[i]]_marsVars
  BY PrivateStep
<1>2. QED
  BY <1>1, MarsInvHolds, PTL DEF MarsSpec, LocationZeroIsPrivate
==============================================================================
