# A TLA+ development for BeskarOS

BeskarOS is a 64-bit operating system in Rust: a UEFI bootloader, a kernel for
several cores, a no-std synchronisation library (hyperdrive), a heap allocator
(heaperion), drivers, a storage stack and user programs. This directory models
the parts of it whose correctness depends on the order of steps, checks the
models with TLC on small instances, and proves the most important facts with
TLAPS for all instances.

`PROJECT.json` lists components, runs, mutants, findings, hazards and theorems,
and maps every definition to the lines of code it models.

## The system and its parts

| Part | State | Operations | What makes it hard | What should hold |
|---|---|---|---|---|
| `hyperdrive/locks` MCS, ticket, RW | tail pointer and stack nodes; two counters; reader count and writer flag | lock, try_lock, drop, init | a lock or unlock is several atomic accesses; nodes live on other stacks; counters wrap | first come, first served; no access to a dead node; a writer is alone and not starved; a lazily initialised value is seen whole and written once |
| `hyperdrive/once` | a state and a cell | call_once, get | initialisers that panic, readers that arrive in between | a borrowed value is written and final; get returns |
| `hyperdrive/sync` barriers | three counters | wait | reset while the next round arrives | rounds do not mix; every round completes |
| `hyperdrive/queues` MPSC, MPMC, Ring | linked list with a stub; slots with sequence numbers; ring | enqueue/dequeue, push/pop | two-step enqueue, full and empty boundary | first in, first out, nothing lost; one owner per slot |
| `kernel/process/scheduler` | per-core current thread, ready queues by priority, sleep queues, finished queue | spawn, yield, tick, sleep, wake, exit | several cores, interrupts inside thread code, stack switching | each thread in one place; a core on a saved stack of its own; round robin; sleepers are woken, exited threads dropped |
| `kernel/mem`, `heaperion`, `beskar-hal` paging | free ranges, buddy and slab lists, page tables | allocate, free, map, unmap | partial failure, boundaries, two CPUs between two locks | what is handed out is disjoint and mapped where it should be |
| `storage`: VFS, FAT, RAM disk, devices | mounts, handles, cluster chains, directory entries, boot sectors | open, close, read, write, seek, truncate | calls of several threads, process exit, packed encodings, cluster borders | handles belong to one live process; devices are closed as often as opened; chains do not cross |
| start-up: boot loader, ACPI, APICs, other cores, clocks | memory map, kernel image, firmware tables, core ids and stacks, rates | load, relocate, hand over, parse, route, calibrate | cores that start at different times, tables in any order, integer rounding | memory is handed over once; the image holds what the file says; nobody is in kmain too early |
| drivers: PS/2 keyboard, e1000e, NVMe | rings, queues and registers shared with a device | start-up, interrupt, submit, complete | device and driver interleave | both sides agree who owns what; keys arrive in order |
| network stack, user library, shell | packet buffers, stream buffers, a grid of cells | emit, parse, read, write, edit | lengths, checksums, short counts, wrapping | what goes in comes out |

Interactions: everything in the kernel uses the hyperdrive locks and `Once`; the
scheduler's ready queues and finished queue are MPSC queues of intrusive boxes;
the sleep queues sit behind an MCS lock; the timer interrupt enters the
scheduler on the stack of the thread it interrupts; the keyboard interrupt
wakes sleepers; the MPMC queue and `Ring` carry key events and driver state.

## Modules

| Module | Models | Steps |
|---|---|---|
| `Contexts` | who executes the code | the constants the others share |
| `FifoLock` | what a fair lock promises | Request, TakeFree, Grant, Leave |
| `McsLock` | `locks/mcs.rs`, `McsLock` | one action per atomic access of lock, try_lock, drop |
| `MUMcsLock` | `locks/mcs.rs`, `MUMcsLock` (extends `McsLock`) | init's check, swap and write; the lock functions' check |
| `TicketLock` | `locks/ticket.rs` | TakeTicket, TicketSpin, TicketDrop |
| `RwLock` | `locks/rw.rs` | reader: wait, add, check, back off; writer: cas, wait |
| `Once` | `once.rs` | call_once, poison guard, get |
| `BarrierSpec`, `Barrier` | `sync/barrier.rs` | rounds; both `wait` functions |
| `MpscQueue` | `queues/mpsc.rs` | enqueue, dequeue |
| `MpmcQueue` | `queues/mpmc.rs` | try_push, pop |
| `Ring` | `queues/ring.rs` | push, try_push, pop |
| `SleepQueues` | `scheduler/sleep.rs` | insert, expiry, signals, wake_up |
| `Scheduler` | `scheduler.rs`, `priority.rs`, the switch in `context.rs` | thread code, interrupts, reschedule, switch |
| `Heap` | `heaperion`: buddy, slab, hybrid | construction, allocate, deallocate |
| `PageTable` | `beskar-hal`, `page_table.rs` | map, unmap, update_flags, translate |
| `MemoryRanges` | `beskar-core`, `mem/ranges.rs` | insert, allocate, trim, remove, as operators |
| `Memory` | `kernel/mem`: frames, pages, address spaces, `PhysicalMapping` (extends `MemoryRanges`) | one step per critical section of alloc_map, unmap_free, stacks, mappings, new spaces |
| `Fat`, `FatDir`, `FatDirent`, `FatBoot` | `storage/fs/fat`: table and file; directory; entry fields; boot sector | one per method |
| `Vfs` | `storage/vfs.rs`, `in_mem.rs`, `dev.rs` | one step per look at the handle table or call of a file system |
| `ElfLoader` | `process/binary/elf` and the kernel's mapper | header, each segment, relocation, protection, TLS, rollback |
| `BootMemory` | boot loader: `kernel_elf.rs`, `mem/` | frames, image, relocation, RELRO, stack, regions |
| `SmpBoot` | `boot.rs`, `ap.rs` and its trampoline, `locals.rs`, vectors | one step per access another core sees |
| `Clock` | `time.rs`, `tsc.rs`, `hpet.rs`, `apic/timer.rs` | choice, calibration, wait |
| `Acpi`, `Apic` | `foundry/acpi`; `apic.rs`, `ipi.rs` (extends `Acpi`) | one step per table or entry; routing; IPIs |
| `Keyboard` | `ps2.rs`, `keyboard.rs` of kernel and library | start-up, interrupt, queue, reader, beside the controller and the keys |
| `E1000e` | `nic/e1000e.rs` | start-up, interrupt, poll, consume, send, beside the card |
| `Nvme` | `storage/nvme.rs` and its queues | start-up command by command, beside the controller |
| `Net` | `holonet` headers | emit, checksum, parse |
| `UserIo` | `beskar-lib/io.rs`, `io/file.rs`, `io/traits.rs` | streams over short and failing system calls |
| `Tty` | `bashkar/video/tty.rs` and its key handling | prompt, editing, output, clear |
| `McsLockProofs` | — | theorems about `McsLock` |
| `SpinLockProofs` | — | theorems about `TicketLock`, `RwLock` and `Once` |
| `BarrierProofs` | — | theorems about `Barrier` |
| `QueueProofs` | — | theorems about `Ring` and `MpmcQueue` |

The names of the source are kept, with a prefix where two modules use the same
one (`mpsc_tail`, `ring_read`, `kb_queue`, `nv_sq`). Four `MC` modules put
components that share no state into one specification: a behaviour is about one of
them, its `subject`, and the others stay as created, so their state spaces add up.
`MCHyperdrive` does so for hyperdrive, `MCResources` for memory, storage and program
images, `MCDevices` for start-up, devices and the user side, `MCKernelLive` for what
the kernel's cores must eventually do.

Apart from that an `MC` module adds only symmetry sets, constant values and
constraints for a run. Definitions whose comment starts with "Mutant" are
plausible mistakes; each shows that some property would notice it, none is used
by a specification.

### Conventions

*Contexts.* `Ctx` is a set of execution contexts: a thread on some core, or an
interrupt handler. Every atomic access that another context can see is a step of
its own, except where two accesses of one step commute with everybody else's.

*Memory model.* Steps interleave sequentially. The kernel runs on x86_64 only:
read-modify-write instructions are full fences there, loads are acquire and
stores are release. The code that relies on more than that would be a store
followed by a load of another location; `RwLock` uses read-modify-writes at both
places (`fetch_add` and `compare_exchange`), `Once` and the queues publish by a
store after their writes.

*History variables.* `queue` (`McsLock`), `ticket_queue` (`TicketLock`), `order`
and `stub_twice` (`MpscQueue`), `content` (`Ring`), `arrived` and `left`
(`Barrier`) record what happened for the properties; no guard reads them.
`wake_ups` (`SleepQueues`) counts for a property and for a bound.

### The memory, storage and device models

*Scale.* Addresses are small numbers: a page is two or four units, an image is a
sequence of words known by their offset, a frame of a packet is its bytes. Where
an encoding is the point (FAT12 entries, dates, header fields, I/O APIC entries,
the configuration byte), it is modelled bit by bit.

*Locks.* A closure under a lock (`with_pgalloc`, `with_frame_allocator`, a look at
the handle table) is one step; other CPUs come in between two of them.

*Failures.* Every allocation may find nothing, every device answer may be the bad
one, and a panic (a failed `unwrap`, `assert!` or `todo!`) stops the model, as it
stops the kernel. Properties speak of what holds up to there.

*Hardware.* The card, the controllers, the keyboard, the firmware's tables and the
timers are modelled from how the driver uses them: a device acts whenever it may,
on what it was told.

### The scheduler model

`Scheduler::reschedule` swaps the *contents* of two `Box<Thread>`, so the model
keeps boxes and threads apart: `content[b]` is the thread in box `b`, `sp[b]` the
stack pointer saved in it, or `Stale` when it was loaded and not saved since.
`cpu[c]` says what core `c` executes: the thread whose stack it is on, where in
the scheduler it is, whether interrupts are enabled, and the pending
`ContextSwitch`. An interrupt pushes the interrupted point onto the thread's
stack (`pend`). A ready queue is a sequence with the two windows of the MPSC
queue: an element swapped in and not linked hides what follows, and a dequeue of
its predecessor waits. `with_scheduler` turns interrupts back on when it returns,
which is what `LeaveWithSwitch` does. Time is left out: a timed sleeper may
expire at any tick.

## Runs

Passing runs:

| Run | Bound | Shows |
|---|---|---|
| `hyperdrive` | 3 contexts; 3 ticket values; barrier for 2; 4 elements; 3 slots used twice; ring of 4 | MCS and ticket locks implement `FifoLock`, also across the wrap of the counters; no write to a dead node; guards and borrowed values; writer exclusion; barrier rounds; list shape and order of the queues; slots with one owner; ring content |
| `hyperdrive_live` | 3 contexts, barrier for 3, 2 elements | locks are granted and released, a writer is not starved, get and wait return, elements come out |
| `sched_one` | 1 core, boot thread, 2 idle threads, cleaning thread, 1 user thread | threads are accounted for, stacks, flags, outside the switch window |
| `sched_two` | 2 cores, 4 idle threads, sleep and exit | one place per thread; pop_best always finds a thread |
| `kernel_live` | scheduler: 1 core; sleep queues: 3 threads, 3 instants; start-up: 3 cores | round robin, exited threads dropped, deadlines kept, every core enters kmain |
| `resources` | see below | heap blocks disjoint and accounted for; the walk finds what was mapped; frames with one owner on two CPUs; FAT chains, directories, entries and boot sectors; handles and devices; program and kernel images |
| `devices` | see below | sleepers can be found and signals wake the oldest; start-up order of 3 cores; clocks; MADT and IPIs; keys; descriptor rings and NVMe queues; packets, streams and the terminal |

The instances are small, but each holds the case its properties are about: a
holder, a context in the middle of an operation and one that arrives; a full and
an empty queue; a wrap; two cores inside `reschedule` at once. In `resources`: a
heap whose size is no power of two and whose start is unaligned, with a layout for
each path; pages of the three sizes that share tables; two CPUs, eight frames and
room for more ranges than they can make; a volume of five clusters in each of the
three encodings; volume sizes on both sides of each border of the layout; two
processes, three threads, two handles, a path below each mount and one that only
starts like a mount; programs and kernels that load and ones that fail in each
stage, with every number of frames that matters. In `devices`: three cores, more
vectors than they need and as many overrides as touch each other; machines with
and without each clock; firmware tables of each kind and order; keys with a
prefix, with two parts, and a queue of one; rings of three descriptors; admin
queues of four and eight entries; a screen of three rows of two columns, so that
every line wraps; buffers of three bytes and requests on both sides of that.

`hyperdrive` stops at a state in which the stub has been appended twice
(`UntilStubTwice`), because the run `mpsc_stub` shows what happens from there. The
scheduler's passing runs stop at a tick between `reschedule` and the switch
(`OutsideWindow`), and on two cores also at a stack pointer loaded before it was
saved (`UntilBroken`). `sched_two` uses a view that renames boxes by their content,
which is sound because a box has no identity for the code beyond what it holds.
Deadlock is not checked where a system may stop: a one-shot barrier is used up, an
initialiser that aborted stops everyone, a panic stops the machine, a start-up
ends, bounded clocks and counters end, and in `kernel_live`, whose fair behaviours
are explored without a constraint, a core that took a tick in the switch window
can lose its stack.

Violation runs, each against a sentence of the source (quoted in
`PROJECT.json`):

| Run | The code does |
|---|---|
| `mpsc_stub` | a dequeue can return the queue's own stub |
| `sleep_stale_timer` | a timer left by `wake_up` wakes the next sleep |
| `sched_saved` | another core loads a stack pointer before it is saved |
| `sched_spin` | a tick during `spawn_thread` spins for ever in `pop_best` |
| `vfs_exit` | a failed `open` leaves a handle that the drop of the process cannot close |

`wake_up` has no caller in the repository, so `sleep_stale_timer` is about the
function's own contract.

Also seen while modelling, and kept out of the runs by a bound or an assumption:

* While a producer is between its swap and its link, `dequeue` answers Empty even
  if later elements are completely enqueued (`EmptyMeansUnlinked` says so exactly).
* With `SIZE = 1` the MPMC queue's "published" and "free" sequence numbers are the
  same, and a push succeeds on a full queue. The runs use two or three slots, and the theorems
  about the queue assume `MpmcSize > 1`.
* After a stale timer has woken a thread from an event, its id stays in the
  event's queue and takes a signal (`SignalWakesOldest` excludes `wake_up`).
* `with_scheduler` re-enables interrupts between `reschedule` and the context
  switch; a tick in that window switches away from a thread that is already
  queued, asleep or finished. `OutsideWindow` excludes it.

Facts of the other components that the models reproduce, and that their properties
are worded around. Seven modules hold a property that is false for one of these
reasons and belongs to no run; its name is given.

* *Memory.* A block's alignment is relative to the start of the heap. A failed
  `alloc_map` loses the pages and frames it had; `MemoryRanges` drops a range that
  finds no place; dropping an `AddressSpace` frees nothing. Unmapping flushes the TLB
  of the calling core only. `update_flags` on a large page clears its huge-page bit,
  and a `map` that fails on a huge page has already widened the parents' flags. A
  `PhysicalMapping` that ends at a page border maps one more frame than it needs.
* *FAT.* After a seek to a multiple of the cluster size at the end of a file, the
  next write overwrites the last cluster (`WritesLandAtPosition`). `truncate` keeps
  one cluster too many at a border. `write_entry` needs room that somebody else has
  allocated. A last-write time loses its odd second. Volumes of 4085 to 8189 clusters
  get the type FAT16.
* *VFS.* A read of the RAM disk at an offset past the image panics. The check that a
  file is not open and the insertion of its handle are two steps, so two threads of a
  process can open it twice. `File::close` closes its handle again when dropped, which
  fails harmlessly.
* *Programs.* A relocation or TLS image on a read-only page is a fault, not an error;
  relocation targets do not take the lowest address of the image into account; a frame
  is lost when mapping it fails. The boot loader makes pages it copied writable again
  after RELRO (`RelroStaysReadOnly`), and the region behind its own frames starts a byte
  late.
* *Clocks.* `wait` counts whole milliseconds and may end up to one early, against its
  documentation (`WaitsAtLeast`). The clocks are chosen before the ACPI tables are read,
  so the HPET is never available at that point. The calibration with the PIT rounds to
  100 MHz, to zero below 50 MHz.
* *APICs.* The I/O APIC gets id 1 before the other cores, which may have it, are known
  (`ApicIdsAreUnique`). The keyboard's route overwrites an override of the firmware at
  the same pin (`KeyboardOverrideIsKept`). The last pin of an I/O APIC is never routed. An
  unknown MADT entry of length zero would be read for ever.
* *Keyboard.* The interrupt is on before the driver is registered: a byte that comes in
  between is not read, and the controller sends no other. Between an empty poll and the
  call that sleeps, an event wakes nobody; the shell then sleeps until the next key.
  The two parts of Pause are seen as a right Control key.
* *Network card.* The receive tail is set to the descriptor to be read next, so the one
  just consumed is not given back (`ConsumedBuffersAreReleased`), and the ring stalls when
  the card has used the others.
* *NVMe.* The driver's queues have as many entries as fit a frame, whatever the
  controller allows; the phase bit is not tracked; a start-up that fails late frees
  queues the controller still knows.
* *Packets.* IP flags are stored shifted by a place that parsing does not undo
  (`IpFlagsParseBack`).
* *Streams.* When a flush fails half-way, the bytes already delivered stay in the
  `BufWriter` and are delivered again by the next flush.

### Fairness

Locks, `Once`, barriers and queues: a context that has begun an operation keeps
running (weak fairness of its steps), and a holder drops its guard. Beginning an
operation is not fair, with two exceptions: all contexts come to every round of a
barrier, because a round is for a fixed number of participants, and consumers
come back to the MPSC queue (strong fairness of `Dequeue`, because a consumer that
was sent away must come again), as the scheduler does at every tick. Under the kernel this holds for threads on different
cores and for interrupt handlers, which run to completion; a thread that spins
on a lock held by a preempted thread of lower priority is outside these
assumptions. Scheduler: each core goes on, the local timer keeps firing
(strong fairness of `Tick`, because interrupts are off now and then), and a
quantum is long enough for a thread to take a step (strong fairness of its
calls). Liveness of the scheduler is stated for behaviours with no tick in the
switch window. Sleep queues: time passes and the tick's
`wake_sleeping_threads` runs (weak fairness of both), as long as the timer fires.
Start-up: every core goes on executing (weak fairness of its steps); cores run in
parallel and nothing of the start-up waits for a preempted thread.

## Proofs

`McsLockProofs` proves, for every set of contexts and assuming only that the
null pointer is not a context:

* `McsInvariant`: `McsSpec => []McsInv`. Mutual exclusion is not inductive.
  `McsInv` is the type invariant and `QueueShape`: the history queue lists exactly
  the contexts between swap and release, each once (`QueuedAreInside`,
  `QueuedOnce`); `tail` is its last element (`TailIsLast`); a waiter that has not
  linked itself remembers its predecessor, and one that has is its predecessor's
  `next` (`WaitersAreLinked`); only the head can find `locked` false
  (`HeadMayEnter`).
* `McsMutualExclusion`, `McsForeignNodeAlive`: from `McsInv`.
* `McsImplementsFifoLock`: every step of `McsSpec` is a step of `FifoLock` or a
  stutter, with the history queue and "some context owns the lock" as the mapping.

`SpinLockProofs` proves, for every finite set of contexts:

* `TicketInvariant`, with at most as many contexts as ticket values
  (`TicketAssumption`; the code has 2^32). Live tickets are consecutive from
  `now_serving` on, modulo the width (`LiveTickets`), so that a spinning context
  whose ticket is served is the first in the queue. That a ticket is left when a
  context takes one is a pigeonhole argument (`TicketLeft`).
* `TicketMutualExclusion` and `TicketIsFifoLock`: from it, as for the MCS lock.
* `RwInvariant`: `readers` is the cardinality of the set of contexts that were
  added and not yet taken back, and `writer` is set exactly while one context is
  past its compare_exchange. `RwExclusion` follows: a writer goes on only when that
  set is empty, and a reader that sees no writer finds nobody past the exchange.
* `OnceInvariant`: one initialiser at most, it runs only while the state is
  Initializing, and Initialized implies written. `OnceValueIsFinal` is the action
  property that follows.

`BarrierProofs` proves, for every count above zero and every finite set of
contexts:

* `BarrierInvariant`: in the reusable barrier the arrivals and the contexts still on
  their way to `current` are together as many as `rank` has admitted, at most `Count`;
  while nobody resets, `current` counts the arrivals and `out` the departures that
  have been announced; while somebody resets, it is one context, and everybody has
  left. In the one-shot barrier `current` counts the arrivals and, beyond `Count`, the
  panics. The waiting contexts are exactly those that arrived and did not leave.
* `BarrierImplementsRounds`: every step is a step of `BarrierSpec` or a stutter. A
  context at `current` has not arrived yet and the round is not complete
  (`AdmittedOnce`), so a fast context that is back early cannot arrive twice; one that
  stops waiting finds the round complete (`LeavesComplete`).

`QueueProofs` proves, for every size:

* `RingInvariant` and `RingHoldsContent`, for every set of values: the write index is
  `Len(content)` places behind the read index, fewer than `SIZE`, and the elements are
  the slots in between. The invariant speaks of a conditional subtraction instead of
  `%` (`BehindWraps`), which makes the steps linear arithmetic.
* `MpmcInvariant` and `MpmcQueueHandsOver`, for every set of contexts and
  `MpmcSize > 1`. The property is not inductive. `MpmcInv` adds that a claimed slot
  keeps the sequence number its claimant saw and a position has one claimant
  (`ClaimsAreHeld`); that a compare_exchange which is going to succeed finds the slot
  as the earlier check found it (`ChecksAreFresh`: the index only grows, so nobody has
  claimed the position in between); and that a slot whose number is not one of its own
  positions holds the value of the push that published it (`ValuesAreInPlace`). Two
  claims of one slot would need positions that are equal or neighbours, and neighbours
  have different slots when there is more than one. `MaxPos` bounds the positions as
  in the model; the argument does not use it.

The provers know nothing of `%` by a constant, so the module derives what it needs
from the uniqueness of the remainder.

Only model-checked: liveness (fairness and ENABLED are out of the prover's
reach), and the properties of all modules not named above. Those of the memory,
storage and device modules rest on folds over sequences and on encodings, which
the provers would have to treat by induction over data.

## Not modelled

* *Layouts and pixels*: CPU registers and descriptor tables, device register files,
  TRBs and FIS, drawing and fonts, logging. They hold no control of their own.
* *Drivers without a protocol yet*: the xHCI driver sets up rings nothing is pushed to,
  the AHCI driver enables ports and submits no command, no code issues NVMe reads or
  writes. PCI configuration space is read and written, and nothing in it changes
  between two looks.
* *Assembly*: the system call entry, exception stubs and the trampoline's change of
  mode. The trampoline's loop for a stack and the context switch are modelled.
* *VFS operations no caller uses or no mounted file system supports*: unmount, create,
  delete. File names of FAT and the FSInfo sector.
* *System calls* that only check arguments and enter a modelled function; the bit
  packing of a sleep reason.
* *The heap lock against interrupts*: which handler allocates depends on when a
  collection of the standard library grows.
* *User programs*: Doom (bindings to C), the UI library (layout arithmetic), the shell's
  commands beyond the lines they print, the frame buffer and the user heap, which is
  `heaperion` again.
* *Reordering by the compiler or by other processors than x86_64.*
