----------------------------- MODULE Scheduler -----------------------------
(***************************************************************************)
(* The kernel's scheduler (kernel/src/process/scheduler.rs) on several     *)
(* cores, from the moment set_scheduling(true) has been called.            *)
(*                                                                         *)
(* A Thread lives in a Box.  Scheduler::reschedule never moves the box of  *)
(* a core's `current`: it swaps the CONTENT of that box with the content   *)
(* of the candidate's box, and the ContextSwitch it returns carries a      *)
(* pointer into the candidate's box, through which the old stack pointer   *)
(* is saved later, by perform().  Boxes and threads are therefore told     *)
(* apart here.  A saved stack pointer is a token: sp[b] is the stack that  *)
(* can be resumed from box b, or Stale when the last value written there   *)
(* has already been resumed and not been saved again.                      *)
(*                                                                         *)
(* The ready queues are the FIFO queues MpscQueue promises, with its two   *)
(* windows: an element whose enqueuer has swapped the tail and not yet     *)
(* linked it (linking) hides itself and what is behind it, and a dequeue   *)
(* of the element before it spins until it is linked.                      *)
(***************************************************************************)
EXTENDS Naturals, Sequences, SequencesExt, FiniteSets

CONSTANTS Core,       \* the cores
          Boot,       \* [Core -> thread]: the kernel thread of each core
          Idle,       \* a sequence: the idle threads, in the order spawned
          Guard,      \* the cleaning thread
          User,       \* the threads kmain spawns for the ramdisk's programs
          Ops,        \* which of "sleep", "exit", "yield" the threads use
          Stale,      \* not a stack: a saved pointer already consumed
          Useless     \* the static exiting threads save their pointer to

Thread == Range(Boot) \cup Range(Idle) \cup {Guard} \cup User
Box == Thread             \* a box is named after its first content
Prio == 1..4              \* Low, Normal, High, Realtime (nobody is Idle)

ASSUME SchedulerAssumption ==
  /\ Stale \notin Thread /\ Useless \notin Thread
  /\ Ops \subseteq {"sleep", "exit", "yield"}

VARIABLES content,    \* Box -> Thread
          sp,         \* Box -> Thread \cup {Stale}: last_stack_ptr
          ready,      \* Prio -> Seq(Box): QUEUE
          linking,    \* boxes in `ready` whose enqueuer has not linked them
          sleeping,   \* Box -> reason, for the boxes in SLEEPING
          finished,   \* Seq(Box): FINISHED
          unborn,     \* boxes not yet spawned
          freed,      \* threads the cleaning thread has dropped
          cpu,        \* Core -> what the core executes
          sched,      \* Core -> should_exit and sleep_intent
          cont,       \* Thread -> where its own code stands
          pend        \* Thread -> what an interrupt on its stack returns to

vars == <<content, sp, ready, linking, sleeping, finished, unborn, freed,
          cpu, sched, cont, pend>>

priority(t) == CASE t \in Range(Boot) -> 3    \* Thread::new_kernel
                 [] t \in User        -> 4    \* kmain
                 [] OTHER             -> 1    \* idle, guard

\* Nobody: no thread has asked (should_exit false, sleep_intent None).
Nobody == [by |-> Stale, for |-> "none"]
NoSwitch == [old |-> Useless, new |-> Stale]

\* Running ordinary thread code, at no particular point of the scheduler.
Running == [pc |-> "run", box |-> Useless, ret |-> "run", cs |-> NoSwitch,
            act |-> "ready"]

\* A wrong stack has been loaded: what the core does then is not modelled.
Lost == [Running EXCEPT !.pc = "lost"]

Init ==
  /\ content = [b \in Box |-> b]
  /\ sp = [b \in Box |-> IF b \in Range(Boot) THEN Stale ELSE b]
  /\ ready = [p \in Prio |->
                IF p = 1 THEN Append(Idle, Guard) ELSE <<>>]
  /\ linking = {} /\ finished = <<>> /\ freed = {}
  /\ sleeping = [b \in {} |-> "none"]
  /\ unborn = User
  /\ cpu = [c \in Core |-> [do |-> Running, exec |-> Boot[c], if |-> TRUE,
                            tick |-> FALSE]]
  /\ sched = [c \in Core |-> [should_exit |-> Nobody, sleep_intent |-> Nobody]]
  /\ cont = [t \in Thread |-> "go"]
  /\ pend = [t \in Thread |-> Running]

-----------------------------------------------------------------------------
pc(c) == cpu[c].do.pc
exec(c) == cpu[c].exec
current(c) == content[Boot[c]]       \* the box never changes, its content does

\* The core goes on with d.
Goto(c, d) == cpu' = [cpu EXCEPT ![c].do = d]

\* The interrupt handler, or reschedule without a switch, returns: what ran
\* before goes on, with interrupts on again (iret, without_interrupts).
Return(c) ==
  /\ cpu' = [cpu EXCEPT ![c].do = pend[exec(c)], ![c].if = TRUE,
                        ![c].tick = FALSE]
  /\ pend' = [pend EXCEPT ![exec(c)] = Running]

\* Mutant: the queue is chosen by the thread the box held first.
EnqueueByBox(c, b) ==
  /\ ready' = [ready EXCEPT ![priority(b)] = Append(@, b)]
  /\ linking' = linking \cup {b}

\* The first half of RoundRobinQueues::append: box b is in its queue, and the
\* core still has to link it.
Enqueue(c, b) ==
  /\ ready' = [ready EXCEPT ![priority(content'[b])] = Append(@, b)]
  /\ linking' = linking \cup {b}

\* An interrupt: the interrupted point is on the stack, interrupts are off.
Interrupt(c, d, tick) ==
  /\ cpu[c].if
  /\ pend' = [pend EXCEPT ![exec(c)] = cpu[c].do]
  /\ cpu' = [cpu EXCEPT ![c].do = d, ![c].if = FALSE, ![c].tick = tick]

-----------------------------------------------------------------------------
\* Thread code.

InThread(c, state) == pc(c) = "run" /\ cont[exec(c)] = state

\* spawn_thread, from kmain.
SpawnThread(c) == \E b \in unborn :
  /\ InThread(c, "go") /\ exec(c) \in Range(Boot)
  /\ unborn' = unborn \ {b}
  /\ UNCHANGED content
  /\ Enqueue(c, b)
  /\ Goto(c, [Running EXCEPT !.pc = "link", !.box = b])
  /\ UNCHANGED <<sp, sleeping, finished, freed, sched, cont, pend>>

\* request_sleep, up to its call of thread_yield.
SetSleep(c) == \E reason \in {"timer", "event"} :
  /\ "sleep" \in Ops /\ InThread(c, "go") /\ exec(c) \in User
  /\ sched' = [sched EXCEPT ![c].sleep_intent =
                              [by |-> exec(c), for |-> reason]]
  /\ cont' = [cont EXCEPT ![exec(c)] = "asked"]
  /\ UNCHANGED <<content, sp, ready, linking, sleeping, finished, unborn,
                 freed, cpu, pend>>

\* exit_current_thread, up to its call of thread_yield.
SetExit(c) ==
  /\ "exit" \in Ops /\ InThread(c, "go")
  /\ exec(c) \in User \cup Range(Boot)
  /\ sched' = [sched EXCEPT ![c].should_exit =
                              [by |-> exec(c), for |-> "exit"]]
  /\ cont' = [cont EXCEPT ![exec(c)] = "exiting"]
  /\ UNCHANGED <<content, sp, ready, linking, sleeping, finished, unborn,
                 freed, cpu, pend>>

\* Mutant: reschedule runs with interrupts on.
YieldInterruptible(c) ==
  /\ pc(c) = "run" /\ cont[exec(c)] = "exiting"
  /\ cont' = [cont EXCEPT ![exec(c)] = "halt"]
  /\ cpu' = [cpu EXCEPT ![c].do.pc = "pop"]
  /\ UNCHANGED <<content, sp, ready, linking, sleeping, finished, unborn,
                 freed, sched, pend>>

\* thread_yield: with_scheduler turns interrupts off, then Scheduler::reschedule.
\* When the call returns, an exiting thread halts for ever.
ThreadYield(c) ==
  /\ pc(c) = "run"
  /\ \/ cont[exec(c)] = "asked" /\ cont' = [cont EXCEPT ![exec(c)] = "go"]
     \/ cont[exec(c)] = "exiting" /\ cont' = [cont EXCEPT ![exec(c)] = "halt"]
     \/ /\ cont[exec(c)] = "go" /\ "yield" \in Ops
        /\ exec(c) \in User \cup {Guard}
        /\ UNCHANGED cont
  /\ cpu' = [cpu EXCEPT ![c].do.pc = "pop", ![c].if = FALSE]
  /\ UNCHANGED <<content, sp, ready, linking, sleeping, finished, unborn,
                 freed, sched, pend>>

\* guard_thread: dequeue a finished thread and drop it, its stacks included.
DropFinished(c) ==
  /\ InThread(c, "go") /\ exec(c) = Guard /\ finished # <<>>
  /\ freed' = freed \cup {content[Head(finished)]}
  /\ finished' = Tail(finished)
  /\ UNCHANGED <<content, sp, ready, linking, sleeping, unborn, cpu, sched,
                 cont, pend>>

-----------------------------------------------------------------------------
\* Interrupts.

\* The timer interrupt: scheduler_tick.
Tick(c) ==
  /\ Interrupt(c, [Running EXCEPT !.pc = "wake"], TRUE)
  /\ UNCHANGED <<content, sp, ready, linking, sleeping, finished, unborn,
                 freed, sched, cont>>

\* wake_event_single, from the keyboard's interrupt handler, when some thread
\* sleeps on the event.
WakeEvent(c) == \E b \in DOMAIN sleeping :
  /\ sleeping[b] = "event"
  /\ sleeping' = [x \in DOMAIN sleeping \ {b} |-> sleeping[x]]
  /\ UNCHANGED content
  /\ Enqueue(c, b)
  /\ Interrupt(c, [Running EXCEPT !.pc = "link", !.box = b, !.ret = "return"],
               FALSE)
  /\ UNCHANGED <<sp, finished, unborn, freed, sched, cont>>

\* wake_sleeping_threads: one turn of its loop, for a deadline that has passed.
WakeTimer(c) == \E b \in DOMAIN sleeping :
  /\ pc(c) = "wake" /\ sleeping[b] = "timer"
  /\ sleeping' = [x \in DOMAIN sleeping \ {b} |-> sleeping[x]]
  /\ UNCHANGED content
  /\ Enqueue(c, b)
  /\ Goto(c, [Running EXCEPT !.pc = "link", !.box = b, !.ret = "wake"])
  /\ UNCHANGED <<sp, finished, unborn, freed, sched, cont, pend>>

\* No other deadline has passed (or another core holds SLEEPING).
WakeDone(c) ==
  /\ pc(c) = "wake"
  /\ Goto(c, [Running EXCEPT !.pc = "pop"])
  /\ UNCHANGED <<content, sp, ready, linking, sleeping, finished, unborn,
                 freed, sched, cont, pend>>

-----------------------------------------------------------------------------
\* Scheduler::reschedule, with interrupts off.

\* The priorities whose queue does not look empty: its first element is linked.
Visible == {p \in Prio : ready[p] # <<>> /\ Head(ready[p]) \notin linking}
Best == CHOOSE p \in Visible : \A q \in Visible : q <= p

\* pop_best.  A dequeue whose next element is being linked waits (no step).  The
\* branch for no candidate at all is never taken: see NoneOnlyWhenIdle.
PopBest(c) ==
  /\ pc(c) = "pop" /\ Visible # {}
  /\ LET q == ready[Best] IN
       /\ Len(q) > 1 => q[2] \notin linking
       /\ ready' = [ready EXCEPT ![Best] = Tail(q)]
       /\ Goto(c, [Running EXCEPT !.pc = "decide", !.box = Head(q)])
  /\ UNCHANGED <<content, sp, linking, sleeping, finished, unborn, freed,
                 sched, cont, pend>>

next_action(c) ==
  IF sched[c].should_exit # Nobody THEN "exit"
  ELSE IF sched[c].sleep_intent # Nobody THEN "sleep" ELSE "ready"

\* Mutant: the flags are read and not cleared.
ClearNothing(c) == UNCHANGED sched

\* The swaps of next_action: only the flag that is taken is cleared.
ClearFlag(c) ==
  IF sched[c].should_exit # Nobody
  THEN sched' = [sched EXCEPT ![c].should_exit = Nobody]
  ELSE sched' = [sched EXCEPT ![c].sleep_intent = Nobody]

\* Mutant: threads of the same priority do not take turns.
switch_strict(curr, cand) == priority(cand) > priority(curr)

\* Same priority: both reasons rotate, and no thread has priority Idle.
should_switch(curr, cand) == priority(cand) >= priority(curr)

\* Mutant: the candidate is dropped.
StayDrops(c) ==
  /\ pc(c) = "decide" /\ next_action(c) = "ready"
  /\ ~should_switch(current(c), content[cpu[c].do.box])
  /\ Return(c)
  /\ UNCHANGED <<content, sp, ready, linking, sleeping, finished, unborn, freed,
                 sched, cont>>

\* should_stay: the candidate goes back to the end of its queue.
Stay(c) == LET b == cpu[c].do.box IN
  /\ pc(c) = "decide" /\ next_action(c) = "ready"
  /\ ~should_switch(current(c), content[b])
  /\ UNCHANGED <<content, sched>>
  /\ Enqueue(c, b)
  /\ Goto(c, [Running EXCEPT !.pc = "link", !.box = b, !.ret = "return"])
  /\ UNCHANGED <<sp, sleeping, finished, unborn, freed, cont, pend>>

\* The contents of the two boxes are swapped, the pointers of the switch are
\* read: where the old stack pointer will be saved, and the new one.
Swap(c) ==
  LET b == cpu[c].do.box
      me == Boot[c]
      act == next_action(c)
  IN /\ pc(c) = "decide"
     /\ act # "ready" \/ should_switch(current(c), content[b])
     /\ ClearFlag(c)
     /\ content' = [content EXCEPT ![me] = content[b], ![b] = content[me]]
     /\ sp' = [sp EXCEPT ![me] = Stale, ![b] = sp[me]]
     /\ Goto(c, [pc |-> "stage", box |-> b, ret |-> "run",
                 act |-> IF act = "sleep" THEN sched[c].sleep_intent.for
                         ELSE act,
                 cs |-> [old |-> IF act = "exit" THEN Useless ELSE b,
                         new |-> sp[b]]])
     /\ UNCHANGED <<ready, linking, sleeping, finished, unborn, freed, cont,
                    pend>>

\* with_scheduler returns: interrupts are on again unless this is a tick.
LeaveWithSwitch(c) ==
  cpu' = [cpu EXCEPT ![c].do.pc = "perform", ![c].if = ~cpu[c].tick]

\* stage_old_thread, for its three actions.
StageExit(c) ==
  /\ pc(c) = "stage" /\ cpu[c].do.act = "exit"
  /\ finished' = Append(finished, cpu[c].do.box)
  /\ LeaveWithSwitch(c)
  /\ UNCHANGED <<content, sp, ready, linking, sleeping, unborn, freed, sched,
                 cont, pend>>

StageSleep(c) == LET b == cpu[c].do.box IN
  /\ pc(c) = "stage" /\ cpu[c].do.act \in {"timer", "event"}
  /\ sleeping' = [x \in DOMAIN sleeping \cup {b} |->
                    IF x = b THEN cpu[c].do.act ELSE sleeping[x]]
  /\ LeaveWithSwitch(c)
  /\ UNCHANGED <<content, sp, ready, linking, finished, unborn, freed, sched,
                 cont, pend>>

StageReady(c) == LET b == cpu[c].do.box IN
  /\ pc(c) = "stage" /\ cpu[c].do.act = "ready"
  /\ UNCHANGED content
  /\ Enqueue(c, b)
  /\ Goto(c, [cpu[c].do EXCEPT !.pc = "link", !.ret = "perform"])
  /\ UNCHANGED <<sp, sleeping, finished, unborn, freed, sched, cont, pend>>

\* The second half of an append: the element is linked.
Link(c) == LET d == cpu[c].do IN
  /\ d.pc = "link"
  /\ linking' = linking \ {d.box}
  /\ \/ d.ret = "run" /\ Goto(c, Running) /\ UNCHANGED pend
     \/ d.ret = "wake" /\ Goto(c, [Running EXCEPT !.pc = "wake"])
                       /\ UNCHANGED pend
     \/ d.ret = "return" /\ Return(c)
     \/ d.ret = "perform" /\ LeaveWithSwitch(c) /\ UNCHANGED pend
  /\ UNCHANGED <<content, sp, ready, sleeping, finished, unborn, freed, sched,
                 cont>>

\* Mutant: the old stack pointer is saved in the new thread.
PerformWrongBox(c) == LET cs == cpu[c].do.cs IN
  /\ pc(c) = "perform"
  /\ sp' = [sp EXCEPT ![Boot[c]] = exec(c)]
  /\ cpu' = [cpu EXCEPT ![c] =
       [do |-> IF cs.new = Stale THEN Lost ELSE pend[cs.new],
        exec |-> cs.new, if |-> cs.new # Stale, tick |-> FALSE]]
  /\ UNCHANGED <<content, ready, linking, sleeping, finished, unborn, freed,
                 sched, cont, pend>>

\* ContextSwitch::perform: the old stack pointer is saved through the pointer
\* taken by Swap, the new stack is loaded, interrupts are on (sti).
Perform(c) == LET cs == cpu[c].do.cs IN
  /\ pc(c) = "perform"
  /\ sp' = IF cs.old = Useless THEN sp ELSE [sp EXCEPT ![cs.old] = exec(c)]
  /\ cpu' = [cpu EXCEPT ![c] =
       [do |-> IF cs.new = Stale THEN Lost ELSE pend[cs.new],
        exec |-> cs.new, if |-> cs.new # Stale, tick |-> FALSE]]
  /\ pend' = IF cs.new = Stale THEN pend ELSE [pend EXCEPT ![cs.new] = Running]
  /\ UNCHANGED <<content, ready, linking, sleeping, finished, unborn, freed,
                 sched, cont>>

-----------------------------------------------------------------------------
Next == \E c \in Core :
  \/ SpawnThread(c) \/ SetSleep(c) \/ SetExit(c) \/ ThreadYield(c)
  \/ DropFinished(c)
  \/ Tick(c) \/ WakeEvent(c) \/ WakeTimer(c) \/ WakeDone(c)
  \/ PopBest(c) \/ Stay(c) \/ Swap(c)
  \/ StageExit(c) \/ StageSleep(c) \/ StageReady(c) \/ Link(c) \/ Perform(c)

Spec == Init /\ [][Next]_vars

\* Every core goes on, a pending timer interrupt is delivered once interrupts
\* are on, and a quantum is long enough for a thread to make a step: kmain ends
\* and the cleaning thread keeps cleaning.
FairScheduler ==
  /\ Spec
  /\ \A c \in Core :
       /\ SF_vars(Tick(c))
       /\ SF_vars(SetExit(c)) /\ SF_vars(ThreadYield(c))
       /\ SF_vars(DropFinished(c))
       /\ WF_vars(WakeDone(c)) /\ WF_vars(PopBest(c))
       /\ WF_vars(Stay(c)) /\ WF_vars(Swap(c))
       /\ WF_vars(StageExit(c)) /\ WF_vars(StageReady(c))
       /\ WF_vars(Link(c)) /\ WF_vars(Perform(c))

-----------------------------------------------------------------------------
\* Types of the scheduler's shared state and of each core's local state.
SchedTypeOK ==
  /\ content \in [Box -> Thread]
  /\ sp \in [Box -> Thread \cup {Stale}]
  /\ ready \in [Prio -> Seq(Box)]
  /\ linking \subseteq Box /\ unborn \subseteq Box /\ freed \subseteq Thread
  /\ DOMAIN sleeping \subseteq Box
  /\ Range(sleeping) \subseteq {"timer", "event"}
  /\ finished \in Seq(Box)
  /\ \A c \in Core :
       /\ exec(c) \in Thread \cup {Stale}
       /\ pc(c) \in {"run", "wake", "pop", "decide", "stage", "link", "perform",
                   "lost"}
       /\ pc(c) \in {"wake", "pop", "decide", "stage"} => ~cpu[c].if
  /\ cont \in [Thread -> {"go", "asked", "exiting", "halt"}]

\* The boxes a core holds: its `current`, and the candidate or old thread that
\* reschedule has in hand between pop_best and the append, insert or enqueue.
Held(c) == {Boot[c]} \cup
           (IF pc(c) \in {"decide", "stage"} THEN {cpu[c].do.box} ELSE {})

\* How often a box is in the ready queues, SLEEPING, FINISHED or not spawned.
Count(b, s) == Cardinality({i \in DOMAIN s : s[i] = b})
Queued(b) ==
  Count(b, ready[1]) + Count(b, ready[2]) + Count(b, ready[3])
    + Count(b, ready[4]) + Count(b, finished)
    + (IF b \in DOMAIN sleeping THEN 1 ELSE 0) + (IF b \in unborn THEN 1 ELSE 0)

\* No thread is lost or scheduled twice, whatever the cores interleave: every
\* box is in exactly one queue or in the hands of one core, until the cleaning
\* thread drops its content; no two boxes hold the same thread; and a ready thread
\* waits in the queue of its own priority, although threads move between boxes.
EveryThreadInOnePlace ==
  /\ \A a, b \in Box : content[a] = content[b] => a = b
  /\ \A b \in Box :
       Queued(b) + Cardinality({c \in Core : b \in Held(c)})
         = IF content[b] \in freed THEN 0 ELSE 1
  /\ \A p \in Prio : \A i \in DOMAIN ready[p] : priority(content[ready[p][i]]) = p

\* The scheduler's state has its type and each thread its place, with every operation of
\* one core: spawn, yield, sleep, exit, wake-ups and ticks.
ThreadsAreAccounted == SchedTypeOK /\ EveryThreadInOnePlace

\* The threads whose stack the Thread owns (new_kernel has stacks: None).
OwnsStack(t) == t \notin Range(Boot)

\* Every core runs on a stack that was saved when it was loaded, that no other
\* core runs on, and whose Thread has not been dropped.
StacksAreSafe ==
  \A c \in Core :
    /\ exec(c) # Stale
    /\ OwnsStack(exec(c)) => exec(c) \notin freed
    /\ \A d \in Core \ {c} : exec(c) # exec(d)

\* should_exit and sleep_intent apply to "the current thread" (set_exit,
\* set_sleep): whoever is exited or put to sleep has asked for it.
FlagsAreMine ==
  \A c \in Core : pc(c) = "decide" =>
    /\ sched[c].should_exit # Nobody => sched[c].should_exit.by = current(c)
    /\ sched[c].sleep_intent # Nobody => sched[c].sleep_intent.by = current(c)

\* last_stack_ptr of a new thread "will be overwritten before being used"
\* (thread.rs): a stack pointer is loaded only after it has been saved.
LoadsSavedStack ==
  \A c \in Core : pc(c) \in {"stage", "perform"} => cpu[c].do.cs.new # Stale

\* The assertion in reschedule (scheduler.rs:159): when pop_best finds no thread, the
\* current thread has priority Idle (0).  No thread has it, so pop_best must always
\* find one: IDLE_THREADS_PER_CORE idle threads per core are enough, even when every
\* other core has a candidate in hand or an append not yet linked.
NoneOnlyWhenIdle ==
  \A c \in Core : pc(c) = "pop" /\ Visible = {} => priority(current(c)) = 0

\* A core that looks for a thread finds one or gives up: pop_best, called with
\* interrupts off, does not wait for anybody (ThreadQueue's safety contract).
PopReturns == \A c \in Core : pc(c) = "pop" ~> pc(c) # "pop"

\* No timer interrupt has hit the window between reschedule and perform.
OutsideWindow == \A t \in Thread : pend[t].pc # "perform"

\* Round robin: when the kernel threads have exited, every thread of the lowest
\* priority runs again and again (as long as no tick hits that window).
EveryoneRuns ==
  []OutsideWindow =>
    \A t \in Range(Idle) \cup {Guard} : []<>(\E c \in Core : exec(c) = t)

\* A thread that exits is dropped in the end by the cleaning thread (as long as
\* no tick hits that window).
ExitedIsDropped ==
  []OutsideWindow => \A t \in Thread : (cont[t] = "exiting" ~> t \in freed)
=============================================================================
