----------------------------- MODULE Duel_proofs -----------------------------
(***************************************************************************)
(* Proofs about the duels of the evolver and the memory of the simulator,  *)
(* for any core, separation, warriors, and numbers of rounds and battles.  *)
(***************************************************************************)
EXTENDS Duel, FiniteSetTheorems, TLAPS

USE CoresizeAssumption, MinsepAssumption, MaxlengthAssumption

-----------------------------------------------------------------------------
(* Memory.                                                                 *)

LEMMA OneOrNone ==
    ASSUME NEW b, NEW ptrs
    PROVE  Cardinality({b} \cap ptrs) = IF b \in ptrs THEN 1 ELSE 0
<1>1. CASE b \in ptrs
  <2>1. {b} \cap ptrs = {b}
    BY <1>1
  <2>2. QED
    BY <1>1, <2>1, FS_Singleton
<1>2. CASE b \notin ptrs
  <2>1. {b} \cap ptrs = {}
    BY <1>2
  <2>2. QED
    BY <1>2, <2>1, FS_EmptySet
<1>3. QED
  BY <1>1, <1>2

(* What can be reached, without cardinalities.                             *)
LEMMA ReachableIs ==
    ASSUME NEW ptrs, NEW nwars \in Nat
    PROVE  Reachable(ptrs, nwars) =
              [b \in Block |->
                 IF b \in Tables THEN (IF b \in ptrs THEN 1 ELSE 0)
                 ELSE IF "table" \in ptrs THEN nwars ELSE 0]
<1>1. \A b \in Block :
         Cardinality({b} \cap ptrs) = IF b \in ptrs THEN 1 ELSE 0
  BY OneOrNone
<1>2. nwars * Cardinality({"table"} \cap ptrs)
         = IF "table" \in ptrs THEN nwars ELSE 0
  BY OneOrNone
<1>3. QED
  BY <1>1, <1>2 DEF Reachable

MemoryInv ==
    /\ NWarriors \in Nat /\ allocs \in Nat
    /\ heap \in [Block -> Nat]
    /\ AllOrNothing

(* sim_free_bufs() frees all that has not been lost before.                *)
LEMMA AllFreed ==
    ASSUME MemoryInv, at # "crashed"
    PROVE  /\ FreeBufs(heap, pointers, NWarriors) = Lost
           /\ Lost \in [Block -> Nat]
           /\ \A b \in Tables \ {"table"} : Lost[b] = 0
<1>1. /\ NWarriors \in Nat /\ heap \in [Block -> Nat]
      /\ pointers = IF NWarriors > 0 THEN Tables ELSE {}
      /\ \A b \in Block : Lost[b] >= 0
      /\ \A b \in Tables \ {"table"} : Lost[b] = 0
  BY DEF MemoryInv, AllOrNothing
<1>2. (IF NWarriors > 0 THEN pointers ELSE pointers \ {"table"}) = pointers
  BY <1>1
<1>3. FreeBufs(heap, pointers, NWarriors) = Lost
  BY <1>2 DEF FreeBufs, Lost
<1>4. ASSUME NEW b \in Block
      PROVE  Lost[b] \in Nat
  <2>1. Reachable(pointers, NWarriors)[b] \in Nat
    BY <1>1, ReachableIs
  <2>2. heap[b] \in Nat /\ Lost[b] = heap[b] - Reachable(pointers, NWarriors)[b]
    BY <1>1 DEF Lost
  <2>3. QED
    BY <1>1, <2>1, <2>2
<1>5. QED
  BY <1>1, <1>3, <1>4 DEF Lost

(* f, and what is reachable.                                               *)
With(f, ptrs, nwars) == [b \in Block |-> f[b] + Reachable(ptrs, nwars)[b]]

(* h, without what is reachable.                                           *)
Without(h, ptrs, nwars) == [b \in Block |-> h[b] - Reachable(ptrs, nwars)[b]]

LEMMA WithWithout ==
    ASSUME NEW ptrs, NEW nwars \in Nat, NEW f \in [Block -> Nat]
    PROVE  /\ With(f, ptrs, nwars) \in [Block -> Nat]
           /\ Without(With(f, ptrs, nwars), ptrs, nwars) = f
<1>1. \A b \in Block : Reachable(ptrs, nwars)[b] \in Nat
  BY ReachableIs
<1>2. \A b \in Block : /\ With(f, ptrs, nwars)[b] \in Nat
                       /\ Without(With(f, ptrs, nwars), ptrs, nwars)[b] = f[b]
  BY <1>1 DEF With, Without
<1>3. QED
  BY <1>2 DEF With, Without

LEMMA NothingReached == \A b \in Block : Reachable({}, 0)[b] = 0
  BY ReachableIs

(* After a call of sim_alloc_bufs2() that returns NULL: core, queue and    *)
(* table of warriors have been freed, the rest perhaps not.                *)
LEMMA GiveUpInv ==
    ASSUME NEW ptrs \in SUBSET Tables, NEW nwars \in Nat,
           NEW f \in [Block -> Nat],
           \A b \in Tables \ {"table"} : f[b] = 0
    PROVE  /\ FreeBufs(With(f, ptrs, nwars), ptrs, 0) \in [Block -> Nat]
           /\ \A b \in Tables \ {"table"} :
                 FreeBufs(With(f, ptrs, nwars), ptrs, 0)[b] = 0
<1> DEFINE known == ptrs \ {"table"}
           h == Without(With(f, ptrs, nwars), known, 0)
<1>1. FreeBufs(With(f, ptrs, nwars), ptrs, 0) = h
  BY DEF FreeBufs, Without
<1>2. \A b \in Block :
         /\ Reachable(ptrs, nwars)[b] =
               IF b \in Tables THEN (IF b \in ptrs THEN 1 ELSE 0)
               ELSE IF "table" \in ptrs THEN nwars ELSE 0
         /\ Reachable(known, 0)[b] =
               IF b \in Tables THEN (IF b \in known THEN 1 ELSE 0) ELSE 0
  BY ReachableIs
<1>3. ASSUME NEW b \in Block
      PROVE  h[b] \in Nat /\ (b \in Tables \ {"table"} => h[b] = 0)
  <2>1. /\ h[b] = f[b] + Reachable(ptrs, nwars)[b] - Reachable(known, 0)[b]
        /\ f[b] \in Nat
    <3>1. With(f, ptrs, nwars)[b] = f[b] + Reachable(ptrs, nwars)[b]
      BY DEF With
    <3>2. h[b] = With(f, ptrs, nwars)[b] - Reachable(known, 0)[b]
      BY DEF Without
    <3> HIDE DEF h, known
    <3>3. /\ f[b] \in Nat /\ Reachable(ptrs, nwars)[b] \in Nat
          /\ Reachable(known, 0)[b] \in Nat
      BY <1>2
    <3>4. QED
      BY <3>1, <3>2, <3>3
  <2>2. b \in known <=> b \in ptrs /\ b # "table"
    OBVIOUS
  <2>3. b \in Tables \ {"table"} => f[b] = 0
    OBVIOUS
  <2> HIDE DEF known, h
  <2>4. CASE b \in Tables
    BY <1>2, <2>1, <2>2, <2>3, <2>4
  <2>5. CASE b \notin Tables
    <3>1. /\ Reachable(known, 0)[b] = 0
          /\ Reachable(ptrs, nwars)[b] = IF "table" \in ptrs THEN nwars ELSE 0
      BY <1>2, <2>5
    <3>2. QED
      BY <2>1, <2>5, <3>1
  <2>6. QED
    BY <2>4, <2>5
<1>4. h \in [Block -> Nat]
  BY <1>3 DEF Without
<1>5. Tables \ {"table"} \subseteq Block
  BY DEF Block
<1> HIDE DEF h
<1>6. QED
  BY <1>1, <1>3, <1>4, <1>5

(* A call of sim_alloc_bufs2(), whatever malloc() refuses.                 *)
LEMMA AllocInv ==
    ASSUME MemoryInv, at = "idle", NEW nwars \in Nat \ {0},
           SimAllocBufs2(nwars)
    PROVE  MemoryInv' /\ LostInFailure
<1>1. PICK g \in Grants(nwars) :
         LET free == FreeBufs(heap, pointers, NWarriors)
             ptrs == Obtained(g, nwars)
             used == [b \in Block |-> free[b] + Reachable(ptrs, nwars)[b]]
         IN  IF WritesToNull(g, nwars)
             THEN at' = "crashed" /\ UNCHANGED <<heap, pointers, NWarriors,
                                                 pspaces>>
             ELSE /\ UNCHANGED at
                  /\ IF Complete(ptrs)
                     THEN /\ heap' = used /\ pointers' = ptrs
                          /\ NWarriors' = nwars
                          /\ pspaces' = NewPspaces(nwars)
                     ELSE /\ heap' = FreeBufs(used, ptrs, 0)
                          /\ pointers' = {} /\ NWarriors' = 0
                          /\ UNCHANGED pspaces
  BY Zenon DEF SimAllocBufs2
<1> DEFINE ptrs == Obtained(g, nwars)
           used == With(Lost, ptrs, nwars)
<1>2. /\ FreeBufs(heap, pointers, NWarriors) = Lost
      /\ Lost \in [Block -> Nat]
      /\ \A b \in Tables \ {"table"} : Lost[b] = 0
  BY AllFreed
<1>3. allocs' = allocs + 1 /\ allocs \in Nat
  BY DEF SimAllocBufs2, MemoryInv
<1>4. CASE WritesToNull(g, nwars)
  <2>1. at' = "crashed" /\ UNCHANGED <<heap, pointers, NWarriors>>
    BY <1>1, <1>4
  <2>2. Lost' = Lost
    BY <2>1 DEF Lost
  <2>3. QED
    BY <1>3, <2>1, <2>2 DEF MemoryInv, AllOrNothing, LostInFailure
<1>5. CASE ~WritesToNull(g, nwars) /\ Complete(ptrs)
  <2>1. heap' = used /\ pointers' = Tables /\ NWarriors' = nwars /\ ptrs = Tables
    BY <1>1, <1>2, <1>5 DEF Complete, With
  <2>2. used \in [Block -> Nat] /\ Without(used, ptrs, nwars) = Lost
    BY <1>2, WithWithout
  <2>3. Lost' = Without(heap', pointers', NWarriors')
    BY DEF Lost, Without
  <2> HIDE DEF used, ptrs
  <2>4. QED
    BY <1>2, <1>3, <2>1, <2>2, <2>3 DEF MemoryInv, AllOrNothing, LostInFailure
<1>6. CASE ~WritesToNull(g, nwars) /\ ~Complete(ptrs)
  <2>1. heap' = FreeBufs(used, ptrs, 0) /\ pointers' = {} /\ NWarriors' = 0
    BY <1>1, <1>2, <1>6 DEF With
  <2>2. ptrs \in SUBSET Tables
    BY DEF Grants, Obtained
  <2> HIDE DEF ptrs
  <2>3. /\ heap' \in [Block -> Nat]
        /\ \A b \in Tables \ {"table"} : heap'[b] = 0
    BY <1>2, <2>1, <2>2, GiveUpInv
  <2>4. \A b \in Block : Lost'[b] = heap'[b]
    BY <2>1, <2>3, NothingReached DEF Lost
  <2>5. QED
    BY <1>3, <2>1, <2>3, <2>4 DEF MemoryInv, AllOrNothing, LostInFailure, Block
<1>7. QED
  BY <1>4, <1>5, <1>6

LEMMA MemoryInit == DuelInit => MemoryInv
<1> SUFFICES ASSUME DuelInit PROVE MemoryInv
  OBVIOUS
<1>1. /\ heap = [b \in Block |-> 0] /\ pointers = {} /\ NWarriors = 0
      /\ allocs = 0
  BY DEF DuelInit, BufInit
<1>2. \A b \in Block : Lost[b] = 0
  BY <1>1, NothingReached DEF Lost
<1>3. QED
  BY <1>1, <1>2 DEF MemoryInv, AllOrNothing, Block

LEMMA MemoryStep ==
    MemoryInv /\ [DuelNext]_duelVars => MemoryInv' /\ LostInFailure
<1> SUFFICES ASSUME MemoryInv, [DuelNext]_duelVars
             PROVE  MemoryInv' /\ LostInFailure
  OBVIOUS
<1>1. ASSUME NEW nwars \in Sizes, Alloc(nwars)
      PROVE  MemoryInv' /\ LostInFailure
  BY <1>1, AllocInv, SizesAssumption DEF Alloc
<1>2. CASE Destroy
  <2>1. /\ heap' = FreeBufs(heap, pointers, NWarriors) /\ at # "crashed"
        /\ pointers' = {} /\ NWarriors' = 0 /\ allocs' = allocs
    BY <1>2 DEF Destroy, SimFreeBufs
  <2>2. /\ heap' = Lost /\ Lost \in [Block -> Nat]
        /\ \A b \in Tables \ {"table"} : Lost[b] = 0
    BY <2>1, AllFreed
  <2>3. \A b \in Block : Lost'[b] = Lost[b]
    BY <2>1, <2>2, NothingReached DEF Lost
  <2>4. Lost' = Lost
    BY <2>3 DEF Lost
  <2>5. QED
    BY <2>1, <2>2, <2>4 DEF MemoryInv, AllOrNothing, LostInFailure
<1>3. CASE /\ UNCHANGED <<heap, pointers, NWarriors, allocs>>
           /\ at' = at \/ at # "crashed"
  <2>1. Lost' = Lost
    BY <1>3 DEF Lost
  <2>2. QED
    BY <1>3, <2>1 DEF MemoryInv, AllOrNothing, LostInFailure
<1>4. ASSUME NEW s \in Two, NEW a \in PAddr, Store(s, a)
      PROVE  MemoryInv' /\ LostInFailure
  BY <1>3, <1>4 DEF Store
<1>5. CASE SetRounds \/ BeginRound \/ Panic \/ EndBattle \/ UNCHANGED duelVars
  BY <1>3, <1>5 DEF SetRounds, BeginRound, Panic, EndBattle, duelVars, bufVars
<1>6. CASE Schedule
  BY <1>3, <1>6 DEF Schedule
<1>7. CASE EndRound
  BY <1>3, <1>7 DEF EndRound
<1>8. QED
  BY <1>1, <1>2, <1>4, <1>5, <1>6, <1>7 DEF DuelNext

(* However often and for however many warriors buffers are allocated and   *)
(* freed, and whatever malloc() refuses: the simulator has all of its      *)
(* buffers or none, no block is freed twice or too early, and core, queue  *)
(* and table of warriors are not lost (sim.c:110-116).                     *)
THEOREM MemoryTheorem == DuelSpec => []AllOrNothing
<1>1. MemoryInv => AllOrNothing
  BY DEF MemoryInv
<1>2. QED
  BY <1>1, MemoryInit, MemoryStep, PTL DEF DuelSpec

(* Whatever a program does with the simulator, memory is lost in a call of *)
(* sim_alloc_bufs2() that returns NULL and nowhere else: sim_free_bufs()   *)
(* reaches everything when the buffers are complete.                       *)
THEOREM LossTheorem == DuelSpec => LostByFailureOnly
<1>1. MemoryInv /\ [DuelNext]_duelVars => [LostInFailure]_duelVars
  BY MemoryStep
<1>2. QED
  BY <1>1, MemoryInit, MemoryStep, PTL DEF DuelSpec, LostByFailureOnly
-----------------------------------------------------------------------------
(* Loading.                                                                *)

(* How far an address is from another, up core and around its end.         *)
LEMMA Around ==
    ASSUME NEW a \in Addr, NEW p \in Addr
    PROVE  (a - p) % Coresize = IF p <= a THEN a - p ELSE a - p + Coresize
<1>1. CASE p <= a
  BY <1>1 DEF Addr
<1>2. CASE ~(p <= a)
  BY <1>2 DEF Addr
<1>3. QED
  BY <1>1, <1>2

(* Code that does not reach the end of core.                               *)
LEMMA Unwrapped ==
    ASSUME NEW p \in Addr, NEW n \in Nat, p + n <= Coresize
    PROVE  /\ \A k \in 0 .. n - 1 : (p + k) % Coresize = p + k
           /\ {(p + k) % Coresize : k \in 0 .. n - 1} = p .. p + n - 1
<1>1. ASSUME NEW k \in 0 .. n - 1
      PROVE  (p + k) % Coresize = p + k
  <2>1. p + k \in 0 .. Coresize - 1
    BY DEF Addr
  <2>2. QED
    BY <2>1
<1>2. {(p + k) % Coresize : k \in 0 .. n - 1} = {p + k : k \in 0 .. n - 1}
  BY <1>1
<1>3. ASSUME NEW a \in p .. p + n - 1
      PROVE  \E k \in 0 .. n - 1 : a = p + k
  <2>1. a - p \in 0 .. n - 1 /\ a = p + (a - p)
    BY DEF Addr
  <2>2. QED
    BY <2>1
<1>4. ASSUME NEW k \in 0 .. n - 1
      PROVE  p + k \in p .. p + n - 1
  BY DEF Addr
<1>5. QED
  BY <1>1, <1>2, <1>3, <1>4

(* What BeginRound leaves in core, for the warriors that it has loaded.    *)
LoadedInv ==
    /\ warriors \in [Two -> Codes]
    /\ at = "round" =>
          /\ enemypos \in EnemyPositions
          /\ core = Loaded(Loaded(Cleared, 0, warriors[0].code),
                           enemypos, warriors[1].code)

(* Neither warrior reaches the other or the end of core.                   *)
LEMMA RoomForBoth ==
    ASSUME LoadedInv, at = "round"
    PROVE  /\ \A s \in Two : /\ Len(warriors[s].code) \in 1 .. minsep
                              /\ warriors[s].start
                                    \in 0 .. Len(warriors[s].code) - 1
           /\ enemypos \in minsep .. Coresize - minsep - 1
<1>1. \A s \in Two : warriors[s] \in Codes
  BY DEF LoadedInv
<1>2. \A s \in Two : /\ Len(warriors[s].code) \in 1 .. minsep
                      /\ warriors[s].start \in 0 .. Len(warriors[s].code) - 1
  BY <1>1, CodesAssumption
<1>3. enemypos \in minsep .. Coresize - minsep - 1
  BY DEF LoadedInv, EnemyPositions
<1>4. QED
  BY <1>2, <1>3

LEMMA LoadedIsWhole == LoadedInv => LoadedWhole
<1> SUFFICES ASSUME LoadedInv, at = "round"
             PROVE  LoadedWhole
  BY DEF LoadedWhole
<1> DEFINE position == [s \in Two |-> IF s = 0 THEN 0 ELSE enemypos]
           length(s) == Len(warriors[s].code)
           part(s) == {(position[s] + k) % Coresize : k \in 0 .. length(s) - 1}
           code(s) == warriors[s].code
<1>1. /\ \A s \in Two : /\ length(s) \in 1 .. minsep
                         /\ warriors[s].start \in 0 .. length(s) - 1
      /\ enemypos \in minsep .. Coresize - minsep - 1
  BY RoomForBoth
<1>2. ASSUME NEW s \in Two
      PROVE  /\ position[s] \in Addr /\ length(s) \in Nat
             /\ position[s] + length(s) <= Coresize
  <2>1. CASE s = 0
    BY <1>1, <2>1 DEF Addr
  <2>2. CASE s = 1
    <3>1. position[1] = enemypos
      BY DEF Two
    <3>2. enemypos \in minsep .. Coresize - minsep - 1 /\ length(1) \in 1 .. minsep
      BY <1>1 DEF Two
    <3>3. QED
      BY <2>2, <3>1, <3>2 DEF Addr
  <2>3. QED
    BY <2>1, <2>2 DEF Two
<1>3. ASSUME NEW s \in Two
      PROVE  /\ \A k \in 0 .. length(s) - 1 :
                   (position[s] + k) % Coresize = position[s] + k
             /\ part(s) = position[s] .. position[s] + length(s) - 1
  BY <1>2, Unwrapped
<1>4. part(0) = 0 .. length(0) - 1 /\ part(1) = enemypos .. enemypos + length(1) - 1
  <2>1. 0 \in Two /\ 1 \in Two /\ position[0] = 0 /\ position[1] = enemypos
    BY DEF Two
  <2>2. 0 + length(0) - 1 = length(0) - 1
    BY <1>2, <2>1
  <2>3. part(0) = 0 .. 0 + length(0) - 1
    BY <1>3, <2>1
  <2>4. part(1) = enemypos .. enemypos + length(1) - 1
    BY <1>3, <2>1
  <2>5. QED
    BY <2>2, <2>3, <2>4
<1>5. part(0) \cap part(1) = {}
  <2>1. /\ enemypos \in minsep .. Coresize - minsep - 1
        /\ length(0) \in 1 .. minsep /\ length(1) \in 1 .. minsep
    BY <1>1 DEF Two
  <2>2. (0 .. length(0) - 1) \cap (enemypos .. enemypos + length(1) - 1) = {}
    BY <2>1
  <2>3. QED
    BY <1>4, <2>2
<1>6. ASSUME NEW a \in Addr
      PROVE  core[a] = IF a \in part(1) THEN code(1)[a - enemypos + 1]
                       ELSE IF a \in part(0) THEN code(0)[a + 1]
                       ELSE Zeroed
  <2> DEFINE n == (a - enemypos) % Coresize
  <2>1. /\ 0 \in Addr /\ enemypos \in Addr /\ length(0) \in Nat /\ length(1) \in Nat
        /\ length(0) <= Coresize /\ enemypos + length(1) <= Coresize
    <3>1. 0 \in Two /\ 1 \in Two /\ position[0] = 0 /\ position[1] = enemypos
      BY DEF Two
    <3>2. QED
      BY <1>2, <3>1
  <2>2. n = IF enemypos <= a THEN a - enemypos ELSE a - enemypos + Coresize
    BY <2>1, Around
  <2>3. (a - 0) % Coresize = a
    BY <2>1, Around DEF Addr
  <2>4. core = Loaded(Loaded(Cleared, 0, code(0)), enemypos, code(1))
    BY DEF LoadedInv
  <2>5. core[a] = IF n < length(1) THEN code(1)[n + 1]
                  ELSE IF a < length(0) THEN code(0)[a + 1] ELSE Zeroed
    BY <2>3, <2>4 DEF Loaded, Cleared
  <2> HIDE DEF n
  <2>6. /\ n < length(1) <=> a \in enemypos .. enemypos + length(1) - 1
        /\ a \in enemypos .. enemypos + length(1) - 1 => n = a - enemypos
        /\ a < length(0) <=> a \in 0 .. length(0) - 1
    BY <2>1, <2>2 DEF Addr
  <2>7. QED
    BY <1>4, <2>5, <2>6
<1>7. ASSUME NEW s \in Two
      PROVE  /\ position[s] + warriors[s].start \in part(s)
             /\ \A k \in 0 .. length(s) - 1 :
                   core[(position[s] + k) % Coresize] = code(s)[k + 1]
  <2>1. position[s] + warriors[s].start
           = (position[s] + warriors[s].start) % Coresize
    BY <1>1, <1>3
  <2>2. ASSUME NEW k \in 0 .. length(s) - 1
        PROVE  core[(position[s] + k) % Coresize] = code(s)[k + 1]
    <3> DEFINE a == position[s] + k
    <3>1. a = (position[s] + k) % Coresize /\ a \in part(s)
      BY <1>3
    <3>2. a \in Addr
      <4> DEFINE x == position[s]
                 n == length(s)
      <4>1. x \in Addr /\ n \in Nat /\ x + n <= Coresize /\ k \in 0 .. n - 1
        BY <1>2
      <4> HIDE DEF x, n
      <4>2. x + k \in Addr
        BY <4>1 DEF Addr
      <4>3. QED
        BY <4>2 DEF x
    <3>3. CASE s = 0
      <4>1. a = k /\ a \in part(0)
        BY <3>1, <3>3 DEF Two
      <4>2. a \notin part(1)
        BY <1>5, <4>1
      <4>3. QED
        BY <1>6, <3>1, <3>2, <3>3, <4>1, <4>2
    <3>4. CASE s = 1
      <4>1. a - enemypos = k /\ a \in part(1)
        BY <1>1, <3>1, <3>4 DEF Two
      <4>2. QED
        BY <1>6, <3>1, <3>2, <3>4, <4>1
    <3>5. QED
      BY <3>3, <3>4 DEF Two
  <2>3. QED
    BY <1>1, <2>1, <2>2
<1>8. \A a \in Addr \ (part(0) \cup part(1)) : core[a] = Zeroed
  BY <1>6
<1>9. QED
  BY <1>5, <1>7, <1>8 DEF LoadedWhole

(* At the beginning of every round core holds both warriors as a whole and *)
(* nothing else, and where they start is their code: the range of start    *)
(* positions in battle.cpp leaves room on both sides, for any sizes.       *)
THEOREM LoadedTheorem == DuelSpec => []LoadedWhole
<1>1. DuelInit => LoadedInv
  BY DEF DuelInit, LoadedInv
<1>2. LoadedInv /\ [DuelNext]_duelVars => LoadedInv'
  <2> SUFFICES ASSUME LoadedInv, [DuelNext]_duelVars PROVE LoadedInv'
    OBVIOUS
  <2>1. CASE BeginRound
    BY <2>1 DEF BeginRound, LoadedInv, bufVars
  <2>2. CASE Schedule
    BY <2>2 DEF Schedule, LoadedInv
  <2>3. CASE UNCHANGED warriors /\ at' # "round"
    BY <2>3 DEF LoadedInv
  <2>4. CASE UNCHANGED <<warriors, enemypos, core, at>>
    BY <2>4 DEF LoadedInv, EnemyPositions
  <2>5. ASSUME NEW nwars \in Sizes, Alloc(nwars)
        PROVE  LoadedInv'
    <3>1. at' \in {"idle", "crashed"} /\ UNCHANGED warriors
      BY <2>5 DEF Alloc, SimAllocBufs2, battleVars
    <3>2. QED
      BY <2>3, <3>1
  <2>6. CASE SetRounds
    BY <2>4, <2>6 DEF SetRounds, battleVars
  <2>7. ASSUME NEW s \in Two, NEW a \in PAddr, Store(s, a)
        PROVE  LoadedInv'
    BY <2>4, <2>7 DEF Store, battleVars
  <2>8. CASE Panic \/ EndBattle \/ Destroy
    BY <2>3, <2>8 DEF Panic, EndBattle, Destroy, battleVars
  <2>9. CASE EndRound
    BY <2>3, <2>9 DEF EndRound
  <2>10. CASE UNCHANGED duelVars
    BY <2>4, <2>10 DEF duelVars, battleVars
  <2>11. QED
    BY <2>1, <2>2, <2>5, <2>6, <2>7, <2>8, <2>9, <2>10 DEF DuelNext
<1>3. QED
  BY <1>1, <1>2, LoadedIsWhole, PTL DEF DuelSpec
-----------------------------------------------------------------------------
(* Results.                                                                *)

IsPspaces(ps) == ps = [last |-> ps.last, mem |-> ps.mem, own |-> ps.own]

(* As many p-spaces.                                                       *)
SameWarriors(x, ps) == /\ DOMAIN x.last = DOMAIN ps.last
                 /\ DOMAIN x.mem = DOMAIN ps.mem
                 /\ DOMAIN x.own = DOMAIN ps.own

LEMMA ClearPspacesIs ==
    ASSUME NEW ps, IsPspaces(ps)
    PROVE  /\ IsPspaces(ClearPspaces(ps)) /\ IsPspaces(ResetPspaces(ps))
           /\ SameWarriors(ClearPspaces(ps), ps) /\ SameWarriors(ResetPspaces(ps), ps)
<1>1. ASSUME NEW x, IsPspaces(x)
      PROVE  /\ IsPspaces(ClearPspaces(x))
             /\ SameWarriors(ClearPspaces(x), x)
  <2> DEFINE lasts == [k \in DOMAIN x.last |-> Coresize - 1]
             owns  == [k \in DOMAIN x.own |->
                         IF \E j \in DOMAIN x.mem : x.mem[j] = k
                         THEN [a \in PAddr |-> 0] ELSE x.own[k]]
  <2>1. ClearPspaces(x) = [x EXCEPT !.last = lasts, !.own = owns]
    BY DEF ClearPspaces, PCleared
  <2>2. DOMAIN lasts = DOMAIN x.last /\ DOMAIN owns = DOMAIN x.own
    OBVIOUS
  <2> HIDE DEF lasts, owns
  <2>3. ClearPspaces(x) = [last |-> lasts, mem |-> x.mem, own |-> owns]
    BY <1>1, <2>1 DEF IsPspaces
  <2>4. QED
    BY <2>2, <2>3 DEF IsPspaces, SameWarriors
<1> DEFINE x == [ps EXCEPT !.mem = [j \in DOMAIN ps.mem |-> PPrivate(ps, j)]]
<1>2. IsPspaces(x) /\ SameWarriors(x, ps)
  BY DEF IsPspaces, SameWarriors
<1>3. ResetPspaces(ps) = ClearPspaces(x)
  BY DEF ResetPspaces
<1> HIDE DEF x
<1>4. QED
  BY <1>1, <1>2, <1>3 DEF SameWarriors

LEMMA PSetIs ==
    ASSUME NEW ps, IsPspaces(ps), NEW s, NEW a, NEW val
    PROVE  /\ IsPspaces(PSet(ps, s, a, val))
           /\ SameWarriors(PSet(ps, s, a, val), ps)
  BY DEF IsPspaces, PSet, SameWarriors

LEMMA ToldIs ==
    ASSUME NEW ps, IsPspaces(ps), Two \subseteq DOMAIN ps.last,
           NEW dead \in {{}, {0}, {1}}
    PROVE  /\ IsPspaces(Told(ps, dead)) /\ SameWarriors(Told(ps, dead), ps)
           /\ \A s \in Two : Told(ps, dead).last[s] = 1 <=> dead = {1 - s}
<1>1. Cardinality({}) = 0 /\ Cardinality({0}) = 1 /\ Cardinality({1}) = 1
  BY FS_EmptySet, FS_Singleton
<1>2. /\ Told(ps, dead) = [ps EXCEPT !.last = [s \in DOMAIN ps.last |->
            CASE s \notin Two -> ps.last[s] [] s \in dead -> 0
              [] OTHER -> 2 - Cardinality(dead)]]
  BY DEF Told
<1>3. /\ IsPspaces(Told(ps, dead)) /\ SameWarriors(Told(ps, dead), ps)
      /\ \A s \in Two : Told(ps, dead).last[s] =
            IF s \in dead THEN 0 ELSE 2 - Cardinality(dead)
  BY <1>2 DEF IsPspaces, SameWarriors
<1>4. QED
  BY <1>1, <1>3 DEF Two

(* Buffers for somebody have p-spaces for as many.                         *)
PspacesInv ==
    /\ IsPspaces(pspaces) /\ NWarriors \in Nat
    /\ NWarriors > 0 => /\ DOMAIN pspaces.last = 0 .. NWarriors - 1
                        /\ DOMAIN pspaces.mem = 0 .. NWarriors - 1
                        /\ DOMAIN pspaces.own = 0 .. NWarriors - 1

(* The rounds are those of the first battle, which are those of the world. *)
RoundsInv ==
    /\ rounds \in Nat /\ battles \in Nat /\ i \in Nat
    /\ static = IF battles = 0 THEN Unset ELSE rounds
    /\ at \in {"fighting", "round"} => battles > 0
    /\ at = "idle" /\ battles > 0 => i = rounds

(* A result for each round.                                                *)
CountInv ==
    /\ results \in [Two -> [win : Nat, loss : Nat, tie : Nat]]
    /\ results[0].win = results[1].loss /\ results[0].loss = results[1].win
    /\ results[0].tie = results[1].tie
    /\ results[0].win + results[0].loss + results[0].tie = i

SurvivorInv ==
    at = "fighting" /\ i > 0 /\ NWarriors = 2 =>
        \A s \in Two : pspaces.last[s] = 1 => results[s].win > 0

ResultsInv == PspacesInv /\ RoundsInv /\ CountInv /\ SurvivorInv

LEMMA PspacesStep == PspacesInv /\ [DuelNext]_duelVars => PspacesInv'
<1> SUFFICES ASSUME PspacesInv, [DuelNext]_duelVars PROVE PspacesInv'
  OBVIOUS
<1>1. CASE UNCHANGED NWarriors /\ IsPspaces(pspaces') /\ SameWarriors(pspaces', pspaces)
  BY <1>1 DEF PspacesInv, IsPspaces, SameWarriors
<1>2. ASSUME NEW nwars \in Sizes, Alloc(nwars)
      PROVE  PspacesInv'
  <2>1. nwars \in Nat \ {0}
    BY SizesAssumption
  <2>2. \/ UNCHANGED <<pspaces, NWarriors>>
        \/ NWarriors' = nwars /\ pspaces' = NewPspaces(nwars)
        \/ NWarriors' = 0 /\ UNCHANGED pspaces
    BY <1>2 DEF Alloc, SimAllocBufs2
  <2>3. CASE NWarriors' = nwars /\ pspaces' = NewPspaces(nwars)
    <3> DEFINE ps == [last |-> [k \in 0 .. nwars - 1 |-> 0],
                      mem  |-> [k \in 0 .. nwars - 1 |-> k],
                      own  |-> [k \in 0 .. nwars - 1 |-> <<>>]]
    <3>1. /\ IsPspaces(ps) /\ DOMAIN ps.last = 0 .. nwars - 1
          /\ DOMAIN ps.mem = 0 .. nwars - 1 /\ DOMAIN ps.own = 0 .. nwars - 1
      BY DEF IsPspaces
    <3>2. pspaces' = ClearPspaces(ps)
      BY <2>3 DEF NewPspaces
    <3> HIDE DEF ps
    <3>3. QED
      BY <2>1, <2>3, <3>1, <3>2, ClearPspacesIs DEF PspacesInv, IsPspaces, SameWarriors
  <2>4. CASE NWarriors' = 0 /\ UNCHANGED pspaces
    BY <2>4 DEF PspacesInv, IsPspaces
  <2>5. QED
    BY <1>1, <2>2, <2>3, <2>4 DEF PspacesInv
<1>3. CASE Schedule
  <2>1. UNCHANGED NWarriors /\ pspaces' \in {pspaces, ResetPspaces(pspaces)}
    BY <1>3 DEF Schedule, FreshPspaces
  <2>2. QED
    BY <1>1, <2>1, ClearPspacesIs DEF PspacesInv, SameWarriors
<1>4. ASSUME NEW s \in Two, NEW a \in PAddr, Store(s, a)
      PROVE  PspacesInv'
  BY <1>1, <1>4, PSetIs DEF Store, PspacesInv
<1>5. CASE EndRound
  <2>1. PICK dead \in {{}, {0}, {1}} : pspaces' = Told(pspaces, dead)
    BY <1>5 DEF EndRound
  <2>2. IsPspaces(pspaces') /\ SameWarriors(pspaces', pspaces)
    BY <2>1 DEF Told, IsPspaces, PspacesInv, SameWarriors
  <2>3. QED
    BY <1>1, <1>5, <2>2 DEF EndRound
<1>6. CASE Destroy
  BY <1>6 DEF Destroy, SimFreeBufs, PspacesInv, IsPspaces
<1>7. CASE SetRounds \/ BeginRound \/ Panic \/ EndBattle \/ UNCHANGED duelVars
  BY <1>1, <1>7 DEF SetRounds, BeginRound, Panic, EndBattle, duelVars, bufVars,
                    PspacesInv, SameWarriors
<1>8. QED
  BY <1>2, <1>3, <1>4, <1>5, <1>6, <1>7 DEF DuelNext

LEMMA RoundsStep == RoundsInv /\ [DuelNext]_duelVars => RoundsInv'
<1> SUFFICES ASSUME RoundsInv, [DuelNext]_duelVars PROVE RoundsInv'
  OBVIOUS
<1>1. ASSUME NEW nwars \in Sizes, Alloc(nwars)
      PROVE  RoundsInv'
  BY <1>1 DEF Alloc, SimAllocBufs2, battleVars, RoundsInv
<1>2. CASE SetRounds
  BY <1>2, AllRoundsAssumption DEF SetRounds, battleVars, RoundsInv
<1>3. CASE Schedule
  BY <1>3 DEF Schedule, StaticRounds, RoundsInv, Unset
<1>4. CASE BeginRound \/ Panic \/ EndBattle \/ Destroy \/ UNCHANGED duelVars
  BY <1>4 DEF BeginRound, Panic, EndBattle, Destroy, duelVars, battleVars, RoundsInv
<1>5. ASSUME NEW s \in Two, NEW a \in PAddr, Store(s, a)
      PROVE  RoundsInv'
  BY <1>5 DEF Store, battleVars, RoundsInv
<1>6. CASE EndRound
  BY <1>6 DEF EndRound, RoundsInv
<1>7. QED
  BY <1>1, <1>2, <1>3, <1>4, <1>5, <1>6 DEF DuelNext

(* A round that is counted.                                                *)
LEMMA EndRoundCounts ==
    ResultsInv /\ at = "round" /\ EndRound => CountInv' /\ SurvivorInv'
<1> SUFFICES ASSUME ResultsInv, EndRound PROVE CountInv' /\ SurvivorInv'
  OBVIOUS
<1>1. PICK dead \in {{}, {0}, {1}} :
         /\ pspaces' = Told(pspaces, dead)
         /\ results' = Counted(results, Result(dead))
  BY DEF EndRound
<1>2. i' = i + 1 /\ i \in Nat /\ UNCHANGED NWarriors
  BY DEF EndRound, ResultsInv, RoundsInv
<1>3. CASE dead = {}
  <2>1. results' = [results EXCEPT ![0].tie = @ + 1, ![1].tie = @ + 1]
    BY <1>1, <1>3 DEF Counted, Result
  <2>2. CountInv'
    BY <1>2, <2>1 DEF ResultsInv, CountInv, Two
  <2>3. NWarriors = 2 => \A s \in Two : pspaces'.last[s] # 1
    BY <1>1, <1>3, ToldIs DEF ResultsInv, PspacesInv, Two
  <2>4. QED
    BY <1>2, <2>2, <2>3 DEF SurvivorInv
<1>4. CASE dead = {0}
  <2>1. results' = [results EXCEPT ![0].loss = @ + 1, ![1].win = @ + 1]
    BY <1>1, <1>4 DEF Counted, Result
  <2>2. CountInv' /\ results'[1].win > 0
    BY <1>2, <2>1 DEF ResultsInv, CountInv, Two
  <2>3. NWarriors = 2 => pspaces'.last[0] # 1
    BY <1>1, <1>4, ToldIs DEF ResultsInv, PspacesInv, Two
  <2>4. QED
    BY <1>2, <2>2, <2>3 DEF SurvivorInv, Two
<1>5. CASE dead = {1}
  <2>1. results' = [results EXCEPT ![0].win = @ + 1, ![1].loss = @ + 1]
    BY <1>1, <1>5 DEF Counted, Result
  <2>2. CountInv' /\ results'[0].win > 0
    BY <1>2, <2>1 DEF ResultsInv, CountInv, Two
  <2>3. NWarriors = 2 => pspaces'.last[1] # 1
    BY <1>1, <1>5, ToldIs DEF ResultsInv, PspacesInv, Two
  <2>4. QED
    BY <1>2, <2>2, <2>3 DEF SurvivorInv, Two
<1>6. QED
  BY <1>3, <1>4, <1>5

LEMMA CountStep ==
    ResultsInv /\ [DuelNext]_duelVars => CountInv' /\ SurvivorInv'
<1> SUFFICES ASSUME ResultsInv, [DuelNext]_duelVars
             PROVE  CountInv' /\ SurvivorInv'
  OBVIOUS
<1>1. CASE UNCHANGED <<results, i>> /\ at' # "fighting"
  BY <1>1 DEF ResultsInv, CountInv, SurvivorInv
<1>2. CASE UNCHANGED <<results, i, at, NWarriors, pspaces>>
  BY <1>2 DEF ResultsInv, CountInv, SurvivorInv
<1>3. ASSUME NEW nwars \in Sizes, Alloc(nwars)
      PROVE  CountInv' /\ SurvivorInv'
  <2>1. UNCHANGED <<results, i>> /\ at' # "fighting"
    BY <1>3 DEF Alloc, SimAllocBufs2, battleVars
  <2>2. QED
    BY <1>1, <2>1
<1>4. CASE Schedule
  BY <1>4 DEF Schedule, NoResults, CountInv, SurvivorInv, Two
<1>5. CASE SetRounds \/ UNCHANGED duelVars
  BY <1>2, <1>5 DEF SetRounds, duelVars, bufVars, battleVars
<1>6. CASE BeginRound \/ Panic \/ EndBattle \/ Destroy
  BY <1>1, <1>6 DEF BeginRound, Panic, EndBattle, Destroy, battleVars
<1>7. ASSUME NEW s \in Two, NEW a \in PAddr, Store(s, a)
      PROVE  CountInv' /\ SurvivorInv'
  BY <1>1, <1>7 DEF Store, battleVars
<1>8. CASE EndRound
  BY <1>8, EndRoundCounts DEF EndRound
<1>9. QED
  BY <1>3, <1>4, <1>5, <1>6, <1>7, <1>8 DEF DuelNext

(* After a battle there is a result for each of the rounds that the world  *)
(* asks for, although fight() has its own copy of that number, and the     *)
(* results of the two warriors mirror each other and location 0.           *)
THEOREM ResultsTheorem == DuelSpec => []ResultsAddUp
<1>1. DuelInit => ResultsInv
  BY AllRoundsAssumption DEF DuelInit, BufInit, NoResults, ResultsInv, PspacesInv,
     IsPspaces, RoundsInv, CountInv, SurvivorInv, Two, Unset
<1>2. ResultsInv /\ [DuelNext]_duelVars => ResultsInv'
  BY PspacesStep, RoundsStep, CountStep DEF ResultsInv
<1>3. ResultsInv => ResultsAddUp
  BY DEF ResultsInv, RoundsInv, CountInv, SurvivorInv, ResultsAddUp
<1>4. QED
  BY <1>1, <1>2, <1>3, PTL DEF DuelSpec
-----------------------------------------------------------------------------
(* Fresh p-spaces.                                                         *)

(* What each of two warriors has, in its own block and in location 0.      *)
FreshInv ==
    at \in {"fighting", "round"} /\ NWarriors = 2 =>
        \A s \in Two :
            /\ pspaces.mem[s] = s
            /\ pspaces.own[s] \in [PAddr -> {0, Stamp(s)}]
            /\ pspaces.last[s]
                  \in {Stamp(s)} \cup (IF i = 0 THEN {Coresize - 1} ELSE 0 .. 2)

LEMMA ResetIs ==
    ASSUME NEW ps, IsPspaces(ps), Two \subseteq DOMAIN ps.last,
           Two \subseteq DOMAIN ps.mem, Two \subseteq DOMAIN ps.own, NEW s \in Two
    PROVE  /\ ResetPspaces(ps).mem[s] = s
           /\ ResetPspaces(ps).own[s] = [a \in PAddr |-> 0]
           /\ ResetPspaces(ps).last[s] = Coresize - 1
<1> DEFINE mems  == [j \in DOMAIN ps.mem |-> PPrivate(ps, j)]
           x     == [ps EXCEPT !.mem = mems]
           lasts == [k \in DOMAIN ps.last |-> Coresize - 1]
           owns  == [k \in DOMAIN ps.own |->
                       IF \E j \in DOMAIN mems : mems[j] = k
                       THEN [a \in PAddr |-> 0] ELSE ps.own[k]]
<1>1. mems[s] = s /\ s \in DOMAIN mems
  BY DEF PPrivate
<1>2. lasts[s] = Coresize - 1 /\ owns[s] = [a \in PAddr |-> 0]
  BY <1>1
<1> HIDE DEF mems
<1>3. x = [last |-> ps.last, mem |-> mems, own |-> ps.own]
  BY DEF IsPspaces
<1>4. ResetPspaces(ps) = PCleared(x, Coresize - 1)
  BY DEF ResetPspaces, ClearPspaces, mems
<1> HIDE DEF x
<1>5. PCleared(x, Coresize - 1) = [x EXCEPT !.last = lasts, !.own = owns]
  BY <1>3 DEF PCleared
<1> HIDE DEF lasts, owns
<1>6. PCleared(x, Coresize - 1) = [last |-> lasts, mem |-> mems, own |-> owns]
  BY <1>3, <1>5
<1>7. QED
  BY <1>1, <1>2, <1>4, <1>6

(* A warrior changes its own p-space only, and leaves its stamp there.     *)
LEMMA StoreFresh ==
    ASSUME PspacesInv, FreshInv, NEW s \in Two, NEW a \in PAddr, Store(s, a)
    PROVE  FreshInv'
<1> SUFFICES ASSUME NWarriors' = 2, NEW t \in Two
             PROVE  /\ pspaces'.mem[t] = t
                    /\ pspaces'.own[t] \in [PAddr -> {0, Stamp(t)'}]
                    /\ pspaces'.last[t] \in {Stamp(t)'} \cup
                          (IF i' = 0 THEN {Coresize - 1} ELSE 0 .. 2)
  BY DEF FreshInv
<1>1. /\ pspaces' = PSet(pspaces, s, a, Stamp(s)) /\ i' = i /\ NWarriors = 2
      /\ Stamp(t)' = Stamp(t) /\ at = "round"
  BY DEF Store, battleVars, Stamp
<1>2. /\ IsPspaces(pspaces) /\ Two \subseteq DOMAIN pspaces.last
      /\ Two \subseteq DOMAIN pspaces.own
  BY <1>1 DEF PspacesInv, Two
<1>3. \A u \in Two :
         /\ pspaces.mem[u] = u /\ pspaces.own[u] \in [PAddr -> {0, Stamp(u)}]
         /\ pspaces.last[u] \in {Stamp(u)} \cup
               (IF i = 0 THEN {Coresize - 1} ELSE 0 .. 2)
  BY <1>1 DEF FreshInv
<1>4. a % PSpace_size = a
  BY PSpaceSizeAssumption DEF PAddr
<1>5. CASE a = 0
  <2>1. pspaces' = [pspaces EXCEPT !.last[s] = Stamp(s)]
    BY <1>1, <1>4, <1>5 DEF PSet
  <2>2. /\ pspaces'.mem = pspaces.mem /\ pspaces'.own = pspaces.own
        /\ pspaces'.last = [pspaces.last EXCEPT ![s] = Stamp(s)]
    BY <1>2, <2>1 DEF IsPspaces
  <2>3. QED
    BY <1>1, <1>2, <1>3, <2>2
<1>6. CASE a # 0
  <2>1. pspaces' = [pspaces EXCEPT !.own[s][a] = Stamp(s)]
    BY <1>1, <1>3, <1>4, <1>6 DEF PSet
  <2>2. /\ pspaces'.mem = pspaces.mem /\ pspaces'.last = pspaces.last
        /\ pspaces'.own = [pspaces.own EXCEPT ![s][a] = Stamp(s)]
    BY <1>2, <2>1 DEF IsPspaces
  <2>3. pspaces'.own[t] = IF t = s THEN [pspaces.own[s] EXCEPT ![a] = Stamp(s)]
                          ELSE pspaces.own[t]
    BY <1>2, <2>2
  <2>4. QED
    BY <1>1, <1>3, <2>2, <2>3
<1>7. QED
  BY <1>5, <1>6

(* What sim() tells the two is no stamp, and no trace of another battle.   *)
LEMMA EndRoundFresh ==
    ASSUME PspacesInv, RoundsInv, FreshInv, EndRound
    PROVE  FreshInv'
<1> SUFFICES ASSUME NWarriors' = 2, NEW s \in Two
             PROVE  /\ pspaces'.mem[s] = s
                    /\ pspaces'.own[s] \in [PAddr -> {0, Stamp(s)'}]
                    /\ pspaces'.last[s] \in 0 .. 2 /\ i' # 0
  BY DEF FreshInv
<1>1. PICK dead \in {{}, {0}, {1}} : pspaces' = Told(pspaces, dead)
  BY DEF EndRound
<1>2. /\ Stamp(s)' = Stamp(s) /\ NWarriors = 2 /\ at = "round" /\ i' # 0
  BY DEF EndRound, Stamp, RoundsInv
<1>3. pspaces.mem[s] = s /\ pspaces.own[s] \in [PAddr -> {0, Stamp(s)}]
  BY <1>2 DEF FreshInv
<1>4. IsPspaces(pspaces) /\ Two \subseteq DOMAIN pspaces.last
  BY <1>2 DEF PspacesInv, Two
<1>5. Cardinality(dead) \in {0, 1}
  BY FS_EmptySet, FS_Singleton
<1>6. /\ pspaces'.mem = pspaces.mem /\ pspaces'.own = pspaces.own
      /\ pspaces'.last[s] = IF s \in dead THEN 0 ELSE 2 - Cardinality(dead)
  BY <1>1, <1>4 DEF Told, IsPspaces
<1>7. QED
  BY <1>2, <1>3, <1>5, <1>6

LEMMA FreshStep ==
    PspacesInv /\ RoundsInv /\ FreshInv /\ [DuelNext]_duelVars => FreshInv'
<1> SUFFICES ASSUME PspacesInv, RoundsInv, FreshInv, [DuelNext]_duelVars
             PROVE  FreshInv'
  OBVIOUS
<1>1. CASE at' \notin {"fighting", "round"}
  BY <1>1 DEF FreshInv
<1>2. CASE /\ UNCHANGED <<pspaces, NWarriors, battles, i>>
           /\ at \in {"fighting", "round"} \/ at' = at
  BY <1>2 DEF FreshInv, Stamp
<1>3. ASSUME NEW nwars \in Sizes, Alloc(nwars)
      PROVE  FreshInv'
  <2>1. at' \in {"idle", "crashed"}
    BY <1>3 DEF Alloc, SimAllocBufs2
  <2>2. QED
    BY <1>1, <2>1
<1>4. CASE Schedule
  <2>1. /\ i' = 0 /\ NWarriors' = NWarriors
        /\ NWarriors = 2 => pspaces' = ResetPspaces(pspaces)
    BY <1>4 DEF Schedule, FreshPspaces
  <2>2. ASSUME NWarriors = 2, NEW s \in Two
        PROVE  /\ pspaces'.mem[s] = s /\ pspaces'.own[s] = [a \in PAddr |-> 0]
               /\ pspaces'.last[s] = Coresize - 1
    <3>1. /\ IsPspaces(pspaces) /\ Two \subseteq DOMAIN pspaces.last
          /\ Two \subseteq DOMAIN pspaces.mem /\ Two \subseteq DOMAIN pspaces.own
      BY <2>2 DEF PspacesInv, Two
    <3>2. QED
      BY <2>1, <2>2, <3>1, ResetIs
  <2>3. QED
    BY <2>1, <2>2 DEF FreshInv
<1>5. ASSUME NEW s \in Two, NEW a \in PAddr, Store(s, a)
      PROVE  FreshInv'
  BY <1>5, StoreFresh
<1>6. CASE EndRound
  BY <1>6, EndRoundFresh
<1>7. CASE SetRounds \/ Panic \/ EndBattle \/ Destroy
  BY <1>1, <1>7 DEF SetRounds, Panic, EndBattle, Destroy
<1>8. CASE BeginRound \/ UNCHANGED duelVars
  BY <1>2, <1>8 DEF BeginRound, duelVars, bufVars, battleVars
<1>9. QED
  BY <1>3, <1>4, <1>5, <1>6, <1>7, <1>8 DEF DuelNext

(* No warrior ever finds in its p-space what was stored in an earlier      *)
(* battle or by the other warrior: sim_reset_pspaces() before the first    *)
(* round reaches every location that can be read.                          *)
THEOREM FreshTheorem == DuelSpec => []PSpaceFresh
<1> DEFINE Inv == PspacesInv /\ RoundsInv /\ FreshInv
<1>1. DuelInit => Inv
  BY AllRoundsAssumption DEF DuelInit, BufInit, PspacesInv, IsPspaces, RoundsInv,
     FreshInv, Unset
<1>2. Inv /\ [DuelNext]_duelVars => Inv'
  BY PspacesStep, RoundsStep, FreshStep
<1>3. Inv => PSpaceFresh
  <2> SUFFICES ASSUME Inv, at \in {"round", "fighting"}, NWarriors = 2, NEW s \in Two
               PROVE  /\ PGet(pspaces, s, 0) \in {Stamp(s)} \cup
                            (IF i = 0 THEN {Coresize - 1} ELSE 0 .. 2)
                      /\ \A a \in PAddr \ {0} : PGet(pspaces, s, a) \in {0, Stamp(s)}
    BY DEF PSpaceFresh
  <2>1. \A a \in PAddr : a % PSpace_size = a
    BY PSpaceSizeAssumption DEF PAddr
  <2>2. 0 \in PAddr
    BY PSpaceSizeAssumption DEF PAddr
  <2>3. QED
    BY <2>1, <2>2 DEF FreshInv, PGet
<1>4. QED
  BY <1>1, <1>2, <1>3, PTL DEF DuelSpec
=============================================================================
