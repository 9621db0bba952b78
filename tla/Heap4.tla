------------------------------- MODULE Heap4 -------------------------------
(***************************************************************************)
(* The heap of the RTOS build (portable/MemMang/heap_4.c): first fit on a  *)
(* list of free blocks in the order of their addresses, which joins        *)
(* neighbours again.                                                       *)
(*                                                                         *)
(* Addresses and sizes count units of portBYTE_ALIGNMENT (16 bytes) from   *)
(* the start of the aligned heap.  pvPortMalloc does its work with the     *)
(* scheduler suspended, in one step; vPortFree marks the block before it   *)
(* suspends the scheduler, and other tasks may run between the two.        *)
(***************************************************************************)
EXTENDS Integers, Sequences, FiniteSets, SequencesExt

CONSTANTS
  Task,      \* the tasks that use the heap
  HeapEnd,   \* the address of pxEnd
  Header,    \* xHeapStructSize
  Alignment, \* portBYTE_ALIGNMENT, the bytes of a unit
  Request,   \* the sizes asked for, in bytes
  HoldBound  \* bound: blocks a task has at a time

ASSUME HeapAssumption ==
  /\ HeapEnd \in Nat \ {0} /\ Header \in Nat \ {0}
  /\ Alignment \in Nat \ {0} /\ Request \subseteq Nat /\ HoldBound \in Nat

Address      == 0 .. HeapEnd - 1
MinimumBlock == 2 * Header   \* heapMINIMUM_BLOCK_SIZE

VARIABLES
  free,       \* the free blocks in the order of the list from xStart to pxEnd
  size,       \* xBlockSize of the block at an address, 0 where there is none
  used,       \* the blocks with xBlockAllocatedBit
  remaining,  \* xFreeBytesRemaining
  least,      \* xMinimumEverFreeBytesRemaining
  has,        \* the blocks each task was given and has not freed, and the
              \* bytes it asked for
  freeing     \* the blocks each task has marked and not yet inserted

vars == <<free, size, used, remaining, least, has, freeing>>

\* prvHeapInit
Init ==
  /\ free = <<0>>
  /\ size = [a \in Address |-> IF a = 0 THEN HeapEnd ELSE 0]
  /\ used = {}
  /\ remaining = HeapEnd /\ least = HeapEnd
  /\ has = [t \in Task |-> {}] /\ freeing = [t \in Task |-> {}]

-----------------------------------------------------------------------------
\* A mutant: the size is rounded down.
MutWantedSize(n) == IF n = 0 THEN 0 ELSE Header + n \div Alignment

\* The size in units with the header, 0 for a request of nothing.
WantedSize(n) ==
  IF n = 0 THEN 0 ELSE Header + (n + Alignment - 1) \div Alignment

\* The block at a of n units ends where the block at pos of the list begins.
MergesNext(l, pos, a, n) == pos <= Len(l) /\ a + n = l[pos]

\* A mutant: whatever ends before b is joined with it.
MutMergesPrevious(l, sz, pos, b) == pos > 1 /\ l[pos - 1] + sz[l[pos - 1]] <= b

\* The block before pos in the list (not xStart) ends where b begins.
MergesPrevious(l, sz, pos, b) == pos > 1 /\ l[pos - 1] + sz[l[pos - 1]] = b

\* prvInsertBlockIntoFreeList
PositionOf(l, b) ==
  LET i == SelectInSeq(l, LAMBDA a : a >= b) IN IF i = 0 THEN Len(l) + 1 ELSE i

InsertBlockIntoFreeList(l, sz, b) ==
  LET pos  == PositionOf(l, b)
      prev == MergesPrevious(l, sz, pos, b)
      a    == IF prev THEN l[pos - 1] ELSE b
      n    == IF prev THEN sz[a] + sz[b] ELSE sz[b]
      next == MergesNext(l, pos, a, n)
      gone == (IF prev THEN {b} ELSE {}) \cup (IF next THEN {l[pos]} ELSE {})
  IN  [free |-> SubSeq(l, 1, pos - 1) \o (IF prev THEN <<>> ELSE <<b>>)
                \o SubSeq(l, IF next THEN pos + 1 ELSE pos, Len(l)),
       size |-> [c \in Address |->
                   IF c \in gone THEN 0
                   ELSE IF c = a THEN (IF next THEN n + sz[l[pos]] ELSE n)
                   ELSE sz[c]]]

\* The first block of the list that is large enough, 0 for pxEnd.
FirstFit(l, sz, n) == SelectInSeq(l, LAMBDA a : sz[a] >= n)

Splits(n, w) == n - w > MinimumBlock

\* pvPortMalloc, when it finds a block; otherwise it changes nothing.
Malloc(t) ==
  /\ Cardinality(has[t]) < HoldBound
  /\ \E n \in Request :
       LET w    == WantedSize(n)
           i    == FirstFit(free, size, w)
           b    == free[i]
           rest == RemoveAt(free, i)
           cut  == [size EXCEPT ![b] = w, ![b + w] = size[b] - w]
           h    == IF Splits(size[b], w) THEN InsertBlockIntoFreeList(rest, cut, b + w)
                   ELSE [free |-> rest, size |-> size]
       IN  /\ w > 0 /\ w <= remaining /\ i # 0
           /\ free' = h.free /\ size' = h.size
           /\ used' = used \cup {b}
           /\ has' = [has EXCEPT ![t] = @ \cup {[at |-> b, bytes |-> n]}]
           /\ remaining' = remaining - h.size[b]
           /\ least' = IF remaining' < least THEN remaining' ELSE least
  /\ UNCHANGED freeing

\* vPortFree up to vTaskSuspendAll
FreeMark(t) ==
  /\ freeing[t] = {}
  /\ \E x \in has[t] :
       /\ x.at \in used
       /\ used' = used \ {x.at}
       /\ has' = [has EXCEPT ![t] = @ \ {x}]
       /\ freeing' = [freeing EXCEPT ![t] = {x.at}]
  /\ UNCHANGED <<free, size, remaining, least>>

\* A mutant: the size is added when the block may be joined already.
MutFreeInsert(t) ==
  /\ \E b \in freeing[t] :
       LET h == InsertBlockIntoFreeList(free, size, b)
       IN  /\ free' = h.free /\ size' = h.size
           /\ remaining' = remaining + h.size[b]
  /\ freeing' = [freeing EXCEPT ![t] = {}]
  /\ UNCHANGED <<used, least, has>>

\* vPortFree with the scheduler suspended
FreeInsert(t) ==
  /\ \E b \in freeing[t] :
       LET h == InsertBlockIntoFreeList(free, size, b)
       IN  /\ free' = h.free /\ size' = h.size
           /\ remaining' = remaining + size[b]
  /\ freeing' = [freeing EXCEPT ![t] = {}]
  /\ UNCHANGED <<used, least, has>>

Next == \E t \in Task : Malloc(t) \/ FreeMark(t) \/ FreeInsert(t)

Spec == Init /\ [][Next]_vars

-----------------------------------------------------------------------------
Between == UNION {freeing[t] : t \in Task}
Block   == ToSet(free) \cup used \cup Between
Units(b) == b .. b + size[b] - 1

SizeOf(S) == FoldSet(LAMBDA b, n : size[b] + n, 0, S)

(* The type invariant. *)
TypeOK ==
  /\ free \in Seq(Address) /\ used \subseteq Address
  /\ size \in [Address -> 0 .. HeapEnd]
  /\ remaining \in 0 .. HeapEnd /\ least \in 0 .. HeapEnd
  /\ has \in [Task -> SUBSET [at : Address, bytes : Request]]
  /\ freeing \in [Task -> SUBSET Address]

\* The blocks cover the heap from its start to pxEnd and no two overlap,
\* whatever was cut off, joined or is just between its mark and its insertion
\* (pvPortMalloc, vPortFree, prvInsertBlockIntoFreeList).
BlocksTileHeap ==
  /\ \A b, c \in Block : b # c => Units(b) \cap Units(c) = {}
  /\ UNION {Units(b) : b \in Block} = Address

\* The list is in the order of the addresses and no free block touches the
\* next: freed memory comes together again (prvInsertBlockIntoFreeList).
ListCoalesced ==
  \A i \in 1 .. Len(free) - 1 : free[i] + size[free[i]] < free[i + 1]

\* xFreeBytesRemaining counts what is in the list, which is what
\* pvPortMalloc compares with, and has not been less than the recorded least.
RemainingIsListed ==
  remaining = SizeOf(ToSet(free)) /\ least <= remaining

\* All of that together.
HeapConsistent == TypeOK /\ BlocksTileHeap /\ ListCoalesced

Piece(t, x) == [owner |-> t, first |-> x.at + Header,
                last |-> x.at + size[x.at] - 1, bytes |-> x.bytes]

Abstract ==
  INSTANCE Allocator WITH
    Unit  <- Address,
    given <- UNION {{Piece(t, x) : x \in has[t]} : t \in Task}

\* The heap implements Allocator: what a task was given is nobody else's and
\* stays untouched by the calls of the others.
ImplementsAllocator == Abstract!Spec
=============================================================================
