------------------------------ MODULE SleepQueues ------------------------------
(***************************************************************************)
(* kernel/src/process/scheduler/sleep.rs, and the functions of scheduler.rs   *)
(* that use it under the SLEEPING lock, each of them one step.  A sleeper is   *)
(* found by its thread id through one of three indices: the timer heap, the    *)
(* queue of its event, the list of indefinite sleepers.                       *)
(***************************************************************************)
EXTENDS Naturals, Sequences, SequencesExt, Bags, BagsExt

CONSTANTS Thread,       \* threads, also their ids
          Handle,       \* SleepHandles
          Awake,        \* not a SleepReason
          MaxTime,      \* bound: the last instant
          MaxWakeUps    \* bound: calls of wake_up(), each of which may leave a stale id

ASSUME SleepAssumption == MaxTime \in Nat /\ MaxWakeUps \in Nat

\* SleepReason.  Reasons are told apart by their fields.
Until(d) == [deadline |-> d]
Event(h) == [event |-> h]
Indefinite == [indefinite |-> TRUE]
Reason == {Until(d) : d \in 0..MaxTime} \cup {Event(h) : h \in Handle} \cup {Indefinite}

VARIABLES sleepers,     \* SleepQueues.sleepers: the reason of each sleeper
          timers,       \* SleepQueues.timers: a bag of <<deadline, tid>>
          events,       \* SleepQueues.events: a queue of ids for each handle
          indefinite,   \* SleepQueues.indefinite
          now,          \* crate::time::now()
          wake_ups      \* history: how often wake_up() woke a thread

sleepVars == <<sleepers, timers, events, indefinite, now, wake_ups>>

SleepInit ==
    /\ sleepers = [t \in Thread |-> Awake]
    /\ timers = EmptyBag
    /\ events = [h \in Handle |-> <<>>]
    /\ indefinite = <<>>
    /\ now = 0 /\ wake_ups = 0

Sleeping == {t \in Thread : sleepers[t] # Awake}
Wake(T) == sleepers' = [t \in Thread |-> IF t \in T THEN Awake ELSE sleepers[t]]

\* Mutant: the parts of the timer's key are swapped.
InsertSwapsKey(t, reason) ==
    /\ t \notin Sleeping
    /\ \E d \in 0..MaxTime : reason = Until(d) /\ timers' = BagAdd(timers, <<t, d>>)
    /\ sleepers' = [sleepers EXCEPT ![t] = reason]
    /\ UNCHANGED <<events, indefinite, now, wake_ups>>

\* insert(), called by stage_old_thread() for a thread that asked to sleep.
Insert(t, reason) ==
    /\ t \notin Sleeping
    /\ sleepers' = [sleepers EXCEPT ![t] = reason]
    /\ \/ /\ \E d \in 0..MaxTime : reason = Until(d) /\ timers' = BagAdd(timers, <<d, t>>)
          /\ UNCHANGED <<events, indefinite>>
       \/ /\ \E h \in Handle : /\ reason = Event(h)
                               /\ events' = [events EXCEPT ![h] = Append(@, t)]
          /\ UNCHANGED <<timers, indefinite>>
       \/ /\ reason = Indefinite
          /\ indefinite' = Append(indefinite, t)
          /\ UNCHANGED <<timers, events>>
    /\ UNCHANGED <<now, wake_ups>>

\* Mutant: pop_ready() wakes one instant late.
ExpiredLate == {k \in BagToSet(timers) : k[1] < now}

Expired == {k \in BagToSet(timers) : k[1] <= now}

\* Mutant: only the earliest timer is popped, and no later one is looked at.
WakeFirstOnly ==
    /\ Expired # {}
    /\ LET k == CHOOSE x \in Expired : \A y \in Expired : x[1] <= y[1] IN
         /\ Wake({})
         /\ timers' = BagRemove(timers, k)
    /\ UNCHANGED <<events, indefinite, now, wake_ups>>

\* wake_sleeping_threads(): pop_ready() until it returns None.  Every expired
\* entry is popped and wakes whatever sleeper has its id, if there is one.
WakeSleepingThreads ==
    /\ Expired # {}
    /\ Wake({k[2] : k \in Expired})
    /\ timers' = [k \in BagToSet(timers) \ Expired |-> timers[k]]
    /\ UNCHANGED <<events, indefinite, now, wake_ups>>

\* Mutant: the newest sleeper is woken, not the oldest.
WakeEventNewest(h) ==
    /\ events[h] # <<>>
    /\ Wake({Last(events[h])})
    /\ events' = [events EXCEPT ![h] = Front(@)]
    /\ UNCHANGED <<timers, indefinite, now, wake_ups>>

\* wake_event_single(): the first id is popped whether or not it still sleeps.
WakeEventSingle(h) ==
    /\ events[h] # <<>>
    /\ Wake({Head(events[h])})
    /\ events' = [events EXCEPT ![h] = Tail(@)]
    /\ UNCHANGED <<timers, indefinite, now, wake_ups>>

\* wake_event_all()
WakeEventAll(h) ==
    /\ events[h] # <<>>
    /\ Wake(ToSet(events[h]))
    /\ events' = [events EXCEPT ![h] = <<>>]
    /\ UNCHANGED <<timers, indefinite, now, wake_ups>>

\* `position(|id| id == tid)` and `remove`: the first occurrence goes.
RemoveId(s, t) == RemoveFirst(s, t)

\* wake_up(): wake_thread() drops the id from its event's queue or from the
\* indefinite list, but leaves an entry in the timer heap.
WakeUp(t) ==
    /\ wake_ups < MaxWakeUps /\ wake_ups' = wake_ups + 1
    /\ t \in Sleeping
    /\ Wake({t})
    /\ events' = [h \in Handle |-> IF sleepers[t] = Event(h) THEN RemoveId(events[h], t)
                                                             ELSE events[h]]
    /\ indefinite' = IF sleepers[t] = Indefinite THEN RemoveId(indefinite, t) ELSE indefinite
    /\ UNCHANGED <<timers, now>>

\* Time passes; a tick that finds SLEEPING locked wakes nobody this time.
Tick ==
    /\ now < MaxTime /\ now' = now + 1
    /\ UNCHANGED <<sleepers, timers, events, indefinite, wake_ups>>

SleepNext ==
    \/ \E t \in Thread, reason \in Reason : Insert(t, reason)
    \/ WakeSleepingThreads
    \/ \E h \in Handle : WakeEventSingle(h) \/ WakeEventAll(h)
    \/ \E t \in Thread : WakeUp(t)
    \/ Tick

SleepSpec == SleepInit /\ [][SleepNext]_sleepVars

\* The timer keeps interrupting, and its try_lock succeeds now and then.
FairSleepSpec == SleepSpec /\ WF_sleepVars(Tick) /\ WF_sleepVars(WakeSleepingThreads)

--------------------------------------------------------------------------------
SleepTypeOK ==
    /\ sleepers \in [Thread -> Reason \cup {Awake}]
    /\ IsABag(timers) /\ BagToSet(timers) \subseteq (0..MaxTime) \X Thread
    /\ events \in [Handle -> Seq(Thread)]
    /\ indefinite \in Seq(Thread)
    /\ now \in 0..MaxTime /\ wake_ups \in 0..MaxWakeUps

\* A sleeper can be found the way its reason says, so it can be woken.
EverySleeperIsIndexed ==
    \A t \in Sleeping :
        /\ \A d \in 0..MaxTime : sleepers[t] = Until(d) => <<d, t>> \in BagToSet(timers)
        /\ \A h \in Handle : sleepers[t] = Event(h) => t \in ToSet(events[h])
        /\ sleepers[t] = Indefinite => t \in ToSet(indefinite)

\* wake_sleeping_threads() wakes only threads that sleep until a deadline that has
\* passed; this holds until wake_up() leaves an entry in the heap.
DueAndAsleep(t) == \E d \in 0..now : sleepers[t] = Until(d)
\* "wake a single sleeper waiting on it" (scheduler.rs:449): a signal on a handle
\* somebody sleeps on wakes exactly one of them, the one that has waited longest;
\* this, too, holds until a stale timer has left an id in the queue.
SignalWakesOldest ==
    [][\A h \in Handle :
         LET waiting == SelectSeq(events[h], LAMBDA t : sleepers[t] = Event(h))
         IN  wake_ups = 0 /\ WakeEventSingle(h) /\ waiting # <<>>
               => Sleeping \ {t \in Thread : sleepers'[t] # Awake} = {Head(waiting)}]_sleepVars

\* A sleeper whose deadline lies within the time that passes is woken.
DeadlinesAreKept ==
    \A t \in Thread : \A d \in 0..MaxTime : sleepers[t] = Until(d) ~> sleepers[t] # Until(d)

--------------------------------------------------------------------------------
(* A statement of the source that the code does not keep *)

\* "The timer heap may still contain an entry; it will be skipped once popped"
\* (sleep.rs:142): also after wake_up(), a timer wakes only a thread that sleeps
\* until a deadline that has passed.
StaleTimerIsSkipped ==
    [][\A t \in Sleeping : WakeSleepingThreads /\ sleepers'[t] = Awake
                             => \E d \in 0..now : sleepers[t] = Until(d)]_sleepVars
================================================================================
