------------------------------- MODULE SmpBoot -------------------------------
(***************************************************************************)
(* The way of all cores from their entry points to kmain: kernel/src/boot.rs,*)
(* arch/x86_64/ap.rs with its trampoline, locals.rs, and the parts of        *)
(* interrupts.rs and apic.rs every core runs on that way.  The boot processor*)
(* (BSP) wakes the others (APs) with one broadcast, hands them their stacks  *)
(* through a single word, and gives the trampoline back; all of them meet at *)
(* a counter whose goal is itself still growing.                             *)
(***************************************************************************)
EXTENDS Integers, FiniteSets

CONSTANTS Bsp, Aps,         \* the cores
          ApicId,           \* CPUID's APIC id of every core
          NmiCores,         \* the cores the MADT lists a local NMI for
          IsoCounts,        \* numbers of interrupt source overrides a machine may have
          FIRST_IRQ,        \* 32: new_irq()'s counter skips the exceptions
          LAST_IRQ,         \* 255: the spurious vector, and the last value of the counter
          MAX_ID            \* IoApic::MAX_ID

Cores == Aps \cup {Bsp}
CoreCount == Cardinality(Cores)          \* BootInfo.cpu_count

VARIABLES sb_pc,
          sb_isos,      \* this machine's overrides still to be routed
          sb_count,     \* CORE_ID
          sb_id,        \* CoreLocalsInfo.core_id, -1 before locals::init()
          sb_table,     \* the cores whose locals are in ALL_CORE_LOCALS
          sb_once,      \* KERNEL_PROCESS, LAPIC_MMIO_BASE and kmain's call_once!
          sb_slot,      \* AP_STACK_TOP_ADDR
          sb_stacks,    \* stacks allocated
          sb_stack,     \* the stack a core runs on; while it looks for one, the value it read
          sb_tramp,     \* the trampoline page
          sb_fence,     \* KERNEL_MAIN_FENCE
          sb_seen,      \* the fence as enter_kmain() read it
          sb_idx,       \* new_irq()'s IDX
          sb_idt,       \* <<core, vector, handler>> written to the descriptor tables
          sb_ioapic,    \* ids given to I/O APICs
          sb_running,   \* SCHEDULER_SWITCH
          sb_spawned    \* times kmain's one-off block ran

bootState == <<sb_isos, sb_count, sb_id, sb_table, sb_once, sb_slot, sb_stacks, sb_stack, sb_tramp,
               sb_fence, sb_seen, sb_idx, sb_idt, sb_ioapic, sb_running, sb_spawned>>
smpVars == <<sb_pc, bootState>>

SmpInit ==
    /\ sb_pc = [c \in Cores |-> IF c = Bsp THEN "locals" ELSE "off"]
    /\ sb_isos \in IsoCounts
    /\ sb_count = 0 /\ sb_id = [c \in Cores |-> -1] /\ sb_table = {}
    /\ sb_once = [o \in {"process", "lapic", "kmain"} |-> "Uninitialized"]
    /\ sb_slot = 0 /\ sb_stacks = 0 /\ sb_stack = [c \in Cores |-> 0]
    /\ sb_tramp = "absent"
    /\ sb_fence = 0 /\ sb_seen = [c \in Cores |-> 0]
    /\ sb_idx = FIRST_IRQ /\ sb_idt = {} /\ sb_ioapic = {}
    /\ sb_running = FALSE /\ sb_spawned = 0

SbGoto(c, from, to) == sb_pc[c] = from /\ sb_pc' = [sb_pc EXCEPT ![c] = to]

-----------------------------------------------------------------------------
\* locals::init(): an id from the counter, then the entry of the table.
SbLocals(c) ==
    /\ SbGoto(c, "locals", "publish")
    /\ sb_id' = [sb_id EXCEPT ![c] = sb_count]
    /\ sb_count' = sb_count + 1
    /\ UNCHANGED <<sb_isos, sb_table, sb_once, sb_slot, sb_stacks, sb_stack, sb_tramp, sb_fence,
                   sb_seen, sb_idx, sb_idt, sb_ioapic, sb_running, sb_spawned>>

SbPublish(c) ==
    /\ SbGoto(c, "publish", "process")
    /\ sb_table' = sb_table \cup {sb_id[c]}
    /\ UNCHANGED <<sb_isos, sb_count, sb_id, sb_once, sb_slot, sb_stacks, sb_stack, sb_tramp,
                   sb_fence, sb_seen, sb_idx, sb_idt, sb_ioapic, sb_running, sb_spawned>>

\* Once::call_once() by the first comer; the others return from it at once.
Call(c, once, from, first, other) ==
    /\ SbGoto(c, from, IF sb_once[once] = "Uninitialized" THEN first ELSE other)
    /\ sb_once' = IF sb_once[once] = "Uninitialized"
                  THEN [sb_once EXCEPT ![once] = "Initializing"] ELSE sb_once
    /\ UNCHANGED <<sb_isos, sb_count, sb_id, sb_table, sb_slot, sb_stacks, sb_stack, sb_tramp,
                   sb_fence, sb_seen, sb_idx, sb_idt, sb_ioapic, sb_running, sb_spawned>>

Initialized(c, once, from, to) ==
    /\ SbGoto(c, from, to)
    /\ sb_once' = [sb_once EXCEPT ![once] = "Initialized"]
    /\ UNCHANGED <<sb_isos, sb_count, sb_id, sb_table, sb_slot, sb_stacks, sb_stack, sb_tramp,
                   sb_fence, sb_seen, sb_idx, sb_idt, sb_ioapic, sb_running>>

\* Once::get() waits for the first comer.
Obtain(c, once, from, to) ==
    /\ sb_once[once] = "Initialized"
    /\ SbGoto(c, from, to)
    /\ UNCHANGED bootState

\* process::init(): the kernel's process, then this core's scheduler.
SbProcess(c) ==
    \/ Call(c, "process", "process", "process_init", "process_get")
    \/ Initialized(c, "process", "process_init", "process_get") /\ UNCHANGED sb_spawned
    \/ Obtain(c, "process", "process_get", "interrupts")

\* interrupts::init(): this core's table, with the spurious vector.
SbInterrupts(c) ==
    /\ SbGoto(c, "interrupts", "lapic")
    /\ sb_idt' = sb_idt \cup {<<c, LAST_IRQ, "spurious">>}
    /\ UNCHANGED <<sb_isos, sb_count, sb_id, sb_table, sb_once, sb_slot, sb_stacks, sb_stack,
                   sb_tramp, sb_fence, sb_seen, sb_idx, sb_ioapic, sb_running, sb_spawned>>

Used(c, v) == \E h \in sb_idt : h[1] = c /\ h[2] = v

\* Mutant: the counter is read and stored back by two cores at once.
NewIrqStuck(c, handler, from, to) ==
    /\ SbGoto(c, from, to)
    /\ sb_idt' = sb_idt \cup {<<c, sb_idx, handler>>}
    /\ sb_idx' = IF c = Bsp THEN sb_idx + 1 ELSE sb_idx

\* new_irq(): the next vector, of a u8, for a handler on core c.  A vector below 32, or
\* one that is taken, panics.
NewIrq(c, handler, from, to) ==
    /\ sb_idx' = (sb_idx + 1) % (LAST_IRQ + 1)
    /\ IF sb_idx < FIRST_IRQ \/ Used(c, sb_idx)
       THEN SbGoto(c, from, "panic") /\ UNCHANGED sb_idt
       ELSE SbGoto(c, from, to) /\ sb_idt' = sb_idt \cup {<<c, sb_idx, handler>>}

KeepRouting == UNCHANGED <<sb_count, sb_id, sb_table, sb_once, sb_slot, sb_stacks, sb_stack,
                           sb_tramp, sb_fence, sb_seen, sb_running, sb_spawned>>

\* LocalApic::from_paddr(): the registers are mapped once for all cores, then this core's
\* NMI and timer get their vectors; init_lapic() starts the timer and stores the object.
SbMapLapic(c) ==
    \/ Call(c, "lapic", "lapic", "lapic_init", "lapic_get")
    \/ Initialized(c, "lapic", "lapic_init", "lapic_get") /\ UNCHANGED sb_spawned
    \/ Obtain(c, "lapic", "lapic_get", IF c \in NmiCores THEN "nmi" ELSE "timer")

SbLapicVectors(c) ==
    /\ \/ NewIrq(c, "nmi", "nmi", "timer")
       \/ NewIrq(c, "timer", "timer", IF c = Bsp THEN "ioapic" ELSE "ready")
    /\ KeepRouting /\ UNCHANGED <<sb_isos, sb_ioapic>>

\* IoApic::init(): an id above the cores counted so far, a vector for each override, and
\* one for the keyboard.
SbIoApicId ==
    /\ LET id == sb_count + Cardinality(sb_ioapic)
       IN  IF id < MAX_ID
           THEN SbGoto(Bsp, "ioapic", "routes") /\ sb_ioapic' = sb_ioapic \cup {id}
           ELSE SbGoto(Bsp, "ioapic", "panic") /\ UNCHANGED sb_ioapic
    /\ KeepRouting /\ UNCHANGED <<sb_isos, sb_idx, sb_idt>>

SbIoApicRoutes ==
    /\ IF sb_isos > 0
       THEN NewIrq(Bsp, "iso", "routes", "routes") /\ sb_isos' = sb_isos - 1
       ELSE NewIrq(Bsp, "keyboard", "routes", "start") /\ UNCHANGED sb_isos
    /\ KeepRouting /\ UNCHANGED sb_ioapic

-----------------------------------------------------------------------------
\* start_up_aps(): the trampoline is mapped and filled, and every AP starts in it.
SbStart ==
    /\ sb_pc[Bsp] = "start"
    /\ sb_pc' = IF CoreCount <= 1 THEN [sb_pc EXCEPT ![Bsp] = "ready"]
                ELSE [c \in Cores |-> IF c = Bsp THEN "give" ELSE "lookup"]
    /\ sb_tramp' = IF CoreCount <= 1 THEN sb_tramp ELSE "mapped"
    /\ UNCHANGED <<sb_isos, sb_count, sb_id, sb_table, sb_once, sb_slot, sb_stacks, sb_stack,
                   sb_fence, sb_seen, sb_idx, sb_idt, sb_ioapic, sb_running, sb_spawned>>

\* One stack at a time, each offered until an AP has taken it.
SbGiveStack ==
    /\ \/ /\ sb_stacks < CoreCount - 1
          /\ SbGoto(Bsp, "give", "given")
          /\ sb_stacks' = sb_stacks + 1 /\ sb_slot' = sb_stacks + 1
       \/ /\ sb_slot = 0
          /\ SbGoto(Bsp, "given", IF sb_stacks < CoreCount - 1 THEN "give" ELSE "register")
          /\ UNCHANGED <<sb_stacks, sb_slot>>
    /\ UNCHANGED <<sb_isos, sb_count, sb_id, sb_table, sb_once, sb_stack, sb_tramp, sb_fence,
                   sb_seen, sb_idx, sb_idt, sb_ioapic, sb_running, sb_spawned>>

Release(c) ==
    /\ SbGoto(c, "register", "ready")
    /\ sb_tramp' = "freed"
    /\ UNCHANGED <<sb_isos, sb_count, sb_id, sb_table, sb_once, sb_slot, sb_stacks, sb_stack,
                   sb_fence, sb_seen, sb_idx, sb_idt, sb_ioapic, sb_running, sb_spawned>>

\* Mutant: the BSP does not wait for the APs' registration.
SbFreeAtOnce == Release(Bsp)

\* Once all cores have registered, the trampoline is unmapped and its frame freed.
SbFreeTrampoline == sb_count = CoreCount /\ Release(Bsp)

\* The trampoline: a plain read of the slot, repeated while it is null ...
SbLookup(a) ==
    /\ sb_slot # 0
    /\ SbGoto(a, "lookup", "cmpxchg")
    /\ sb_stack' = [sb_stack EXCEPT ![a] = sb_slot]
    /\ UNCHANGED <<sb_isos, sb_count, sb_id, sb_table, sb_once, sb_slot, sb_stacks, sb_tramp,
                   sb_fence, sb_seen, sb_idx, sb_idt, sb_ioapic, sb_running, sb_spawned>>

\* Mutant: the stack is taken with a plain store.
SbTakeStore(a) ==
    /\ SbGoto(a, "cmpxchg", "locals")
    /\ sb_slot' = 0
    /\ UNCHANGED <<sb_isos, sb_count, sb_id, sb_table, sb_once, sb_stacks, sb_stack, sb_tramp,
                   sb_fence, sb_seen, sb_idx, sb_idt, sb_ioapic, sb_running, sb_spawned>>

\* ... and the lock cmpxchg that takes the stack; then load_ap_regs() and ap_init().
SbTakeStack(a) ==
    /\ IF sb_slot = sb_stack[a]
       THEN SbGoto(a, "cmpxchg", "locals") /\ sb_slot' = 0
       ELSE SbGoto(a, "cmpxchg", "lookup") /\ UNCHANGED sb_slot
    /\ UNCHANGED <<sb_isos, sb_count, sb_id, sb_table, sb_once, sb_stacks, sb_stack, sb_tramp,
                   sb_fence, sb_seen, sb_idx, sb_idt, sb_ioapic, sb_running, sb_spawned>>

-----------------------------------------------------------------------------
\* enter_kmain(): one more core is ready; then the fence and the number of cores are
\* read, in this order, until they agree.
SbArrive(c) ==
    /\ SbGoto(c, "ready", "fence")
    /\ sb_fence' = sb_fence + 1
    /\ UNCHANGED <<sb_isos, sb_count, sb_id, sb_table, sb_once, sb_slot, sb_stacks, sb_stack,
                   sb_tramp, sb_seen, sb_idx, sb_idt, sb_ioapic, sb_running, sb_spawned>>

SbReadFence(c) ==
    /\ SbGoto(c, "fence", "compare")
    /\ sb_seen' = [sb_seen EXCEPT ![c] = sb_fence]
    /\ UNCHANGED <<sb_isos, sb_count, sb_id, sb_table, sb_once, sb_slot, sb_stacks, sb_stack,
                   sb_tramp, sb_fence, sb_idx, sb_idt, sb_ioapic, sb_running, sb_spawned>>

\* Mutant: the fence is read before the loop.
SbCompareStale(c) ==
    /\ SbGoto(c, "compare", IF sb_seen[c] = sb_count THEN "kmain" ELSE "compare")
    /\ UNCHANGED bootState

SbCompare(c) ==
    /\ SbGoto(c, "compare", IF sb_seen[c] = sb_count THEN "kmain" ELSE "fence")
    /\ UNCHANGED bootState

\* kmain(): scheduling is switched on; one core spawns the drivers and the programs.
SbKmain(c) ==
    /\ SbGoto(c, "kmain", "once")
    /\ sb_running' = TRUE
    /\ UNCHANGED <<sb_isos, sb_count, sb_id, sb_table, sb_once, sb_slot, sb_stacks, sb_stack,
                   sb_tramp, sb_fence, sb_seen, sb_idx, sb_idt, sb_ioapic, sb_spawned>>

SbSpawn(c) ==
    \/ Call(c, "kmain", "once", "spawn", "exit")
    \/ Initialized(c, "kmain", "spawn", "exit") /\ sb_spawned' = sb_spawned + 1

SbBspStep == SbIoApicId \/ SbIoApicRoutes \/ SbStart \/ SbGiveStack \/ SbFreeTrampoline

SbCoreStep(c) ==
    \/ SbLocals(c) \/ SbPublish(c) \/ SbProcess(c) \/ SbInterrupts(c) \/ SbMapLapic(c)
    \/ SbLapicVectors(c) \/ SbArrive(c) \/ SbReadFence(c) \/ SbCompare(c) \/ SbKmain(c)
    \/ SbSpawn(c)

SbApStep(a) == SbLookup(a) \/ SbTakeStack(a)

SmpNext == SbBspStep \/ (\E c \in Cores : SbCoreStep(c)) \/ (\E a \in Aps : SbApStep(a))

SmpFairness ==
    /\ WF_smpVars(SbBspStep)
    /\ \A c \in Cores : WF_smpVars(SbCoreStep(c))
    /\ \A a \in Aps : WF_smpVars(SbApStep(a))

-----------------------------------------------------------------------------
InTrampoline == {"off", "lookup", "cmpxchg"}
Early == InTrampoline \cup {"locals", "publish", "process", "process_init", "process_get",
                            "interrupts", "lapic", "lapic_init", "lapic_get", "nmi", "timer"}
InKmain == {"kmain", "once", "spawn", "exit"}

\* What start_up_aps() and enter_kmain() rely on.  No two APs run on one stack; no AP is
\* left in the trampoline once its page is gone; cores have different ids, and their
\* locals can be looked up once they are ready; the vectors new_irq() hands out are
\* different from one another, so that a core's table never holds two handlers for one;
\* and no core enters kmain, or switches scheduling on, before every core has its
\* scheduler, its descriptor table and its timer, although the number of cores the
\* fence is compared with grows while they compare.
CoresMeetInKmain ==
    /\ \A a, b \in Aps : a # b /\ {sb_pc[a], sb_pc[b]} \cap InTrampoline = {}
                         => sb_stack[a] # sb_stack[b] /\ 0 \notin {sb_stack[a], sb_stack[b]}
    /\ sb_tramp = "freed" => \A a \in Aps : sb_pc[a] \notin InTrampoline
    /\ \A c, d \in Cores : c # d /\ sb_id[c] >= 0 => sb_id[c] # sb_id[d]
    /\ \A c \in Cores : sb_pc[c] \notin Early \cup {"panic"} => sb_id[c] \in sb_table
    /\ \A g, h \in sb_idt : g[2] = h[2] /\ g # h => g[3] = "spurious" /\ h[3] = "spurious"
    /\ (sb_running \/ \E c \in Cores : sb_pc[c] \in InKmain) =>
           /\ sb_fence = CoreCount
           /\ \A c \in Cores : \E v \in FIRST_IRQ..LAST_IRQ : <<c, v, "timer">> \in sb_idt
    /\ sb_spawned <= 1

\* "Each APIC device must have a unique ID to be uniquely addressed on the APIC Bus."
\* (apic.rs:496): once all cores have started, no I/O APIC shares its id with a core.
ApicIdsAreUnique ==
    \A c \in Cores : sb_id[c] >= 0 => ApicId[c] \notin sb_ioapic

\* If no vector is missing, every core gets to kmain and to the end of it.
EveryCoreEntersKmain ==
    \A c \in Cores : <>(sb_pc[c] = "exit" \/ \E d \in Cores : sb_pc[d] = "panic")
=============================================================================
