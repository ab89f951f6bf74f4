------------------------------ MODULE Buffers ------------------------------
(***************************************************************************)
(* The memory of the simulator: sim_alloc_bufs2() and sim_free_bufs() of   *)
(* exhaust-1.9.2/sim.c with pspace_alloc() and pspace_free() of pspace.c.  *)
(* Any malloc() may fail, and the allocation that it belongs to is undone, *)
(* as far as the code does that: not every block is freed.  A program may allocate again without     *)
(* freeing before (README:97).                                             *)
(***************************************************************************)
EXTENDS Core, PSpace, FiniteSets

CONSTANTS
    MaxAllocs     \* bound of the model: calls of sim_alloc_bufs2()

Tables == {"core", "queue", "war_tab", "table"}    \* one block of each
Block  == Tables \cup {"pspace", "own"}            \* two for each p-space

ASSUME MaxAllocsAssumption == MaxAllocs \in Nat

VARIABLES
    heap,         \* how many blocks of a kind are allocated
    pointers,     \* those of Core_Mem, Queue_Mem, War_Tab and PSpaces (the
                  \* table) that are not NULL
    NWarriors,    \* the number of warriors there is room for
    pspaces,      \* what PSpaces points to
    allocs,       \* the calls of sim_alloc_bufs2() so far
    at            \* what the program is doing

bufVars == <<heap, pointers, NWarriors, pspaces, allocs>>

BufInit ==
    /\ heap = [b \in Block |-> 0]
    /\ pointers = {} /\ NWarriors = 0
    /\ pspaces = [last |-> <<>>, mem |-> <<>>, own |-> <<>>]
    /\ allocs = 0

(* The blocks that the pointers lead to when there are nwars p-spaces.     *)
Reachable(ptrs, nwars) ==
    [b \in Block |->
        IF b \in Tables THEN Cardinality({b} \cap ptrs)
        ELSE nwars * Cardinality({"table"} \cap ptrs)]

(* Mutant of FreeBufs: NWarriors is reset before the p-spaces are freed.   *)
FreeBufsTooLate(h, ptrs, nwars) ==
    [b \in Block |->
        h[b] - Reachable(ptrs \ {"table"}, nwars)[b]]

(* sim_free_bufs(): all that the pointers lead to is freed, but the        *)
(* p-spaces only if NWarriors says that there are some.                    *)
FreeBufs(h, ptrs, nwars) ==
    LET known == IF nwars > 0 THEN ptrs ELSE ptrs \ {"table"}
    IN  [b \in Block |-> h[b] - Reachable(known, nwars)[b]]

(* What malloc() grants: which tables, how many p-spaces with both blocks, *)
(* and the block of the next p-space that it refuses, if it does.          *)
Grants(nwars) ==
    {g \in [tables : SUBSET Tables, pspaces : 0 .. nwars,
            refused : {"pspace", "own"}] :
        "table" \notin g.tables => g.pspaces = 0}

(* Did alloc_pspaces() get everything?                                     *)
Whole(g, nwars) == "table" \in g.tables /\ g.pspaces = nwars

(* pspace_alloc() writes to p->mem although it has just freed p.           *)
WritesToNull(g, nwars) ==
    "table" \in g.tables /\ g.pspaces < nwars /\ g.refused = "own"

(* All pointers of the simulator after the mallocs: alloc_pspaces() undoes *)
(* its work when it has not got everything.                                *)
Obtained(g, nwars) ==
    IF Whole(g, nwars) THEN g.tables ELSE g.tables \ {"table"}

(* Mutant of Complete: only the pointer that is returned is looked at.     *)
CompleteCore(ptrs) == "core" \in ptrs

(* The simulator has got everything.                                       *)
Complete(ptrs) == ptrs = Tables

(* sim_clear_pspaces() ...                                                 *)
ClearPspaces(ps) == PCleared(ps, Coresize - 1)

(* ... of the new p-spaces.                                                *)
NewPspaces(nwars) ==
    ClearPspaces([last |-> [i \in 0 .. nwars - 1 |-> 0],
                  mem  |-> [i \in 0 .. nwars - 1 |-> i],
                  own  |-> [i \in 0 .. nwars - 1 |-> <<>>]])

(* sim_reset_pspaces(): everybody gets its own block back, cleared.        *)
ResetPspaces(ps) ==
    ClearPspaces([ps EXCEPT !.mem = [i \in DOMAIN @ |-> PPrivate(ps, i)]])

(* sim_alloc_bufs2(): all or nothing.  When it has to give up NWarriors is *)
(* still 0, so that sim_free_bufs() does not free the p-spaces and their   *)
(* table, but forgets them.                                                *)
SimAllocBufs2(nwars) ==
    /\ allocs < MaxAllocs
    /\ allocs' = allocs + 1
    /\ \E g \in Grants(nwars) :
          LET free == FreeBufs(heap, pointers, NWarriors)
              ptrs == Obtained(g, nwars)
              used == [b \in Block |-> free[b] + Reachable(ptrs, nwars)[b]]
          IN  IF WritesToNull(g, nwars)
              THEN at' = "crashed" /\ UNCHANGED <<heap, pointers, NWarriors,
                                                  pspaces>>
              ELSE /\ UNCHANGED at
                   /\ IF Complete(ptrs)
                      THEN /\ heap' = used /\ pointers' = ptrs
                           /\ NWarriors' = nwars
                           /\ pspaces' = NewPspaces(nwars)
                      ELSE /\ heap' = FreeBufs(used, ptrs, 0)
                           /\ pointers' = {} /\ NWarriors' = 0
                           /\ UNCHANGED pspaces

(* sim_free_bufs()                                                         *)
SimFreeBufs ==
    /\ heap' = FreeBufs(heap, pointers, NWarriors)
    /\ pointers' = {} /\ NWarriors' = 0
    /\ UNCHANGED <<pspaces, allocs>>

-----------------------------------------------------------------------------
(* Properties.                                                             *)

(* The blocks that are allocated and that no pointer leads to.             *)
Lost == [b \in Block |-> heap[b] - Reachable(pointers, NWarriors)[b]]

(* Whatever malloc() refuses, and in whatever order the buffers are        *)
(* allocated and freed: the simulator has all of its buffers or none, no   *)
(* block is freed twice or while a pointer leads to it, and core, queue and*)
(* table of warriors are not lost (sim.c:110-116).                         *)
AllOrNothing ==
    at # "crashed" =>
        /\ pointers = IF NWarriors > 0 THEN Tables ELSE {}
        /\ \A b \in Block : Lost[b] >= 0
        /\ \A b \in Tables \ {"table"} : Lost[b] = 0

(* Memory is lost by calls of sim_alloc_bufs2() that return NULL and by    *)
(* nothing else: neither by allocating anew what has been allocated, for   *)
(* more warriors or fewer, nor by sim_free_bufs() (sim.c:123-137).         *)
LostInFailure == Lost' # Lost => allocs' # allocs /\ NWarriors' = 0

(* "Any earlier memories are freed before new allocations are made"        *)
(* (sim.c:111-112): when the buffers have been allocated there is nothing  *)
(* else.                                                                   *)
EarlierFreed == pointers = Tables => heap = Reachable(pointers, NWarriors)
=============================================================================
