---------------------------------- MODULE Heap ----------------------------------
(***************************************************************************)
(* The kernel heap: heaperion's hybrid allocator (a slab allocator for small  *)
(* objects, a buddy allocator for the rest) behind the kernel's MUMcsLock.    *)
(* Addresses are numbers; a free list is the sequence of the addresses linked *)
(* through the free memory itself.  The lock makes every call one step.       *)
(***************************************************************************)
EXTENDS Integers, Sequences, FiniteSets, SequencesExt

CONSTANTS HeapStart, HeapSize,   \* the pages given to Heap::new by mem::heap::init
          SLAB_SIZES,            \* the slot sizes, ascending
          MinSlots,              \* a slab is made only if so many slots fit (4)
          MIN_BLOCK_SIZE, SLAB_THRESHOLD,
          MAX_ORDER,
          Layouts,               \* the layouts asked for: [size, align]
          MaxLive                \* bound: allocations alive at a time

VARIABLES slabs,        \* the Some slabs of SlabAllocator, in the order of SLAB_SIZES
          buddy_start, buddy_size, max_order,
          free_lists,   \* order -> the free blocks of that order, first to last
          live          \* what the kernel has allocated: [ptr, layout]

slabVars == <<slabs>>
buddyVars == <<buddy_start, buddy_size, max_order, free_lists>>
heapVars == <<slabs, buddy_start, buddy_size, max_order, free_lists, live>>

AlignUp(addr, align) == ((addr + align - 1) \div align) * align

NextPow2(n) == CHOOSE p \in {2^k : k \in 0..MAX_ORDER} : p >= n /\ (p = 1 \/ p \div 2 < n)

OrderToSize(order) == 2^order

SizeToOrder(size) == CHOOSE k \in 0..MAX_ORDER : OrderToSize(k) = NextPow2(size)

Larger(a, b) == IF a > b THEN a ELSE b

---------------------------------------------------------------------------
\* The slabs.

\* The slots are linked in the order of their addresses, from the aligned start.
NewSlab(slot, start, size) ==
    LET first == AlignUp(start, slot)
        n == (size - (first - start)) \div slot
    IN  [slot_size |-> slot, start |-> first, end |-> start + size, capacity |-> n,
         free |-> [i \in 1..n |-> first + (i - 1) * slot]]

\* Each class gets an equal share; the first class for which MinSlots slots would
\* not fit ends the loop.
NewSlabs(ptr, size) ==
    LET base == size \div Len(SLAB_SIZES)
        fit == {k \in 0..Len(SLAB_SIZES) : \A i \in 1..k : base >= SLAB_SIZES[i] * MinSlots}
        count == CHOOSE k \in fit : \A j \in fit : j <= k
        all == [i \in 1..count |-> NewSlab(SLAB_SIZES[i], ptr + (i - 1) * base, base)]
    IN  SelectSeq(all, LAMBDA s : s.capacity > 0)

\* The first slab whose slots are large enough answers, also when it is full.
SlabFor(layout) ==
    LET size == Larger(layout.size, layout.align)
    IN  SelectInSeq(slabs, LAMBDA s : s.slot_size >= size)

SlabAllocates(layout) == SlabFor(layout) # 0 /\ slabs[SlabFor(layout)].free # <<>>

SlabAllocate(layout) ==
    LET i == SlabFor(layout)
    IN  /\ slabs' = [slabs EXCEPT ![i].free = Tail(@)]
        /\ live' = live \union {[ptr |-> Head(slabs[i].free), layout |-> layout]}
        /\ UNCHANGED buddyVars

SlabContaining(ptr) == SelectInSeq(slabs, LAMBDA s : s.start <= ptr /\ ptr < s.end)

SlabTakesBack(ptr) ==
    LET i == SlabContaining(ptr)
    IN  i # 0 /\ (ptr - slabs[i].start) % slabs[i].slot_size = 0

SlabDeallocate(ptr) ==
    /\ slabs' = [slabs EXCEPT ![SlabContaining(ptr)].free = <<ptr>> \o @]
    /\ UNCHANGED buddyVars

---------------------------------------------------------------------------
\* The buddies.

\* One initial block: half of the next power of two.
NewBuddy(ptr, size) ==
    LET start == AlignUp(ptr, MIN_BLOCK_SIZE)
        left == size - (start - ptr)
        initial == SizeToOrder(NextPow2(left) \div 2)
    IN  [start |-> start, size |-> left,
         max_order |-> IF initial < MAX_ORDER THEN initial ELSE MAX_ORDER - 1,
         lists |-> [k \in 0..MAX_ORDER |-> IF k = initial /\ OrderToSize(initial) <= left
                                           THEN <<start>> ELSE <<>>]]

RequiredOrder(layout) ==
    SizeToOrder(NextPow2(Larger(Larger(layout.size, layout.align), MIN_BLOCK_SIZE)))

Add(lists, ptr, order) == [lists EXCEPT ![order] = <<ptr>> \o @]

\* Mutant: the second half starts where the block ends.
SplitBlockLate(lists, order) ==
    LET ptr == Head(lists[order])
        popped == [lists EXCEPT ![order] = Tail(@)]
    IN  Add(Add(popped, ptr, order - 1), ptr + OrderToSize(order), order - 1)

\* The block at the head is popped, its halves are pushed one after the other.
SplitBlock(lists, order) ==
    LET ptr == Head(lists[order])
        popped == [lists EXCEPT ![order] = Tail(@)]
    IN  Add(Add(popped, ptr, order - 1), ptr + OrderToSize(order) \div 2, order - 1)

\* Splits from the order `from' down to `order'.
SplitDown(lists, from, order) ==
    LET step[k \in order..from] == IF k = from THEN lists ELSE SplitBlock(step[k + 1], k + 1)
    IN  step[order]

\* The orders, from `order' up, that have a free block: find_block takes the first.
Available(order) == {k \in order..max_order : free_lists[k] # <<>>}

BuddyAllocates(layout) ==
    RequiredOrder(layout) <= max_order /\ Available(RequiredOrder(layout)) # {}

FindBlock(order) ==
    LET from == CHOOSE k \in Available(order) : \A j \in Available(order) : k <= j
    IN  SplitDown(free_lists, from, order)

BuddyAllocate(layout) ==
    LET order == RequiredOrder(layout)
        lists == FindBlock(order)
    IN  /\ free_lists' = [lists EXCEPT ![order] = Tail(@)]
        /\ live' = live \union {[ptr |-> Head(lists[order]), layout |-> layout]}
        /\ UNCHANGED <<slabs, buddy_start, buddy_size, max_order>>

\* offset XOR size, for an offset that is a multiple of the size.
BuddyOf(ptr, order) ==
    LET off == ptr - buddy_start
        size == OrderToSize(order)
    IN  IF (off \div size) % 2 = 0 THEN ptr + size ELSE ptr - size

IsBlockFree(lists, ptr, order) == Contains(lists[order], ptr)

RemoveBlock(lists, ptr, order) == [lists EXCEPT ![order] = Remove(@, ptr)]

\* The block and the lists after merging it with free buddies, up to order k.
FreeBlock(ptr, order) ==
    LET merge[k \in order..max_order] ==
          IF k = order THEN [ptr |-> ptr, order |-> order, lists |-> free_lists]
          ELSE LET m == merge[k - 1]
                   b == BuddyOf(m.ptr, m.order)
               IN  IF m.order = k - 1 /\ IsBlockFree(m.lists, b, m.order)
                   THEN [ptr |-> IF m.ptr < b THEN m.ptr ELSE b, order |-> k,
                         lists |-> RemoveBlock(m.lists, b, m.order)]
                   ELSE m
        done == merge[max_order]
    IN  Add(done.lists, done.ptr, done.order)

BuddyTakesBack(ptr) == buddy_start <= ptr /\ ptr < buddy_start + buddy_size

BuddyDeallocate(ptr, layout) ==
    /\ free_lists' = FreeBlock(ptr, RequiredOrder(layout))
    /\ UNCHANGED <<slabs, buddy_start, buddy_size, max_order>>

---------------------------------------------------------------------------
\* The hybrid.

\* A quarter of the heap for the slabs, the rest for the buddies.
HeapInit ==
    LET slab_size == HeapSize \div 4
        buddy == NewBuddy(HeapStart + slab_size, HeapSize - slab_size)
    IN  /\ slabs = NewSlabs(HeapStart, slab_size)
        /\ buddy_start = buddy.start /\ buddy_size = buddy.size
        /\ max_order = buddy.max_order /\ free_lists = buddy.lists
        /\ live = {}

SmallLayout(layout) ==
    layout.size <= SLAB_THRESHOLD /\ layout.size <= SLAB_SIZES[Len(SLAB_SIZES)]

\* alloc: the slab first for a small layout, the buddies when it is full or the
\* layout is large.
HeapAlloc(layout) ==
    /\ layout.size > 0 /\ Cardinality(live) < MaxLive
    /\ \/ SmallLayout(layout) /\ SlabAllocates(layout) /\ SlabAllocate(layout)
       \/ /\ ~(SmallLayout(layout) /\ SlabAllocates(layout))
          /\ BuddyAllocates(layout) /\ BuddyAllocate(layout)

\* dealloc of something allocated with the same layout.
HeapDealloc(a) ==
    /\ live' = live \ {a}
    /\ IF SmallLayout(a.layout) /\ SlabTakesBack(a.ptr)
       THEN SlabDeallocate(a.ptr)
       ELSE IF BuddyTakesBack(a.ptr)
            THEN BuddyDeallocate(a.ptr, a.layout)
            ELSE UNCHANGED <<slabVars, buddyVars>>   \* the InvalidPointer is dropped

HeapNext ==
    \/ \E layout \in Layouts : HeapAlloc(layout)
    \/ \E a \in live : HeapDealloc(a)

---------------------------------------------------------------------------
Block(ptr, size) == ptr .. ptr + size - 1

\* Everything that is free, as <<start, size>>.
FreeBlocks ==
    UNION {{<<p, slabs[i].slot_size>> : p \in Range(slabs[i].free)} : i \in DOMAIN slabs}
      \union UNION {{<<p, OrderToSize(k)>> : p \in Range(free_lists[k])} : k \in DOMAIN free_lists}

Disjoint(S) ==
    \A b, c \in S : b # c => Block(b[1], b[2]) \intersect Block(c[1], c[2]) = {}

\* What the free lists lose and gain: no address is in two free blocks, or in a free
\* block and an allocation, or in two allocations, and none is listed twice.
NoOverlap ==
    /\ Disjoint(FreeBlocks \union {<<a.ptr, a.layout.size>> : a \in live})
    /\ Cardinality({<<a.ptr, a.layout.size>> : a \in live}) = Cardinality(live)
    /\ \A i \in DOMAIN slabs : IsInjective(slabs[i].free)
    /\ \A k \in DOMAIN free_lists : IsInjective(free_lists[k])

\* An allocation lies in the heap and is aligned as asked, for every alignment the
\* start of the buddies has: the buddies' alignment is relative to it.
AlignedInside ==
    \A a \in live :
      /\ HeapStart <= a.ptr /\ a.ptr + a.layout.size <= HeapStart + HeapSize
      /\ buddy_start % a.layout.align = 0 => a.ptr % a.layout.align = 0

\* Freeing everything brings back every slot and merges every block: with nothing
\* allocated, what the heap can serve is what it could serve at first.
FullyCoalesced ==
    live = {} =>
      LET buddy == NewBuddy(HeapStart + HeapSize \div 4, HeapSize - HeapSize \div 4)
      IN  /\ free_lists = buddy.lists
          /\ \A i \in DOMAIN slabs : Len(slabs[i].free) = slabs[i].capacity

\* The heap: allocations are disjoint, inside, aligned, and all of them come back
\* (dealloc drops deallocate's InvalidPointer: no pointer handed out may meet it).
HeapIsSound == NoOverlap /\ AlignedInside /\ FullyCoalesced
=================================================================================
