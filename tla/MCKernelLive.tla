---------------------------- MODULE MCKernelLive ----------------------------
(***************************************************************************)
(* What the kernel's cores must eventually do: start and meet in kmain, give  *)
(* every thread its turn, wake sleepers when their deadline has passed.  The   *)
(* three are checked one at a time: a behaviour is about one of them, its      *)
(* subject, and the others stay as they began.                                *)
(***************************************************************************)
EXTENDS MCScheduler, SmpBoot

CONSTANTS Subjects,
          Sleepers, Handle, Awake, MaxTime, MaxWakeUps,     \* of SleepQueues
          b0, a1, a2                                         \* the cores that start

VARIABLES subject,
          sleepers, timers, events, indefinite, now, wake_ups   \* of SleepQueues

Sleep == INSTANCE SleepQueues WITH Thread <- Sleepers

sleepVars == <<sleepers, timers, events, indefinite, now, wake_ups>>
liveVars == <<subject, vars, sleepVars, smpVars>>

LiveInit == subject \in Subjects /\ Init /\ Sleep!SleepInit /\ SmpInit

LiveNext ==
    /\ UNCHANGED subject
    /\ \/ subject = "sched" /\ Next /\ UNCHANGED <<sleepVars, smpVars>>
       \/ subject = "sleep" /\ Sleep!SleepNext /\ UNCHANGED <<vars, smpVars>>
       \/ subject = "smp" /\ SmpNext /\ UNCHANGED <<vars, sleepVars>>

\* The fairness of FairScheduler, FairSleepSpec and SmpFairness, each for its subject.
LiveSpec ==
    /\ LiveInit /\ [][LiveNext]_liveVars
    /\ \A c \in Core :
         /\ SF_vars(subject = "sched" /\ Tick(c))
         /\ SF_vars(subject = "sched" /\ SetExit(c)) /\ SF_vars(subject = "sched" /\ ThreadYield(c))
         /\ SF_vars(subject = "sched" /\ DropFinished(c))
         /\ WF_vars(subject = "sched" /\ (\/ WakeDone(c) \/ PopBest(c) \/ Stay(c) \/ Swap(c) \/ StageExit(c)
                                          \/ StageReady(c) \/ Link(c) \/ Perform(c)))
    /\ WF_sleepVars(subject = "sleep" /\ Sleep!Tick)
    /\ WF_sleepVars(subject = "sleep" /\ Sleep!WakeSleepingThreads)
    /\ WF_smpVars(subject = "smp" /\ SbBspStep)
    /\ \A c \in Cores : WF_smpVars(subject = "smp" /\ SbCoreStep(c))
    /\ \A a \in Aps : WF_smpVars(subject = "smp" /\ SbApStep(a))

-----------------------------------------------------------------------------
\* With one core, every thread of the lowest priority runs again and again.
ThreadsTakeTurns == subject = "sched" => EveryoneRuns

\* With one core, a thread that exits is dropped by the cleaning thread.
ExitedThreadsAreDropped == subject = "sched" => ExitedIsDropped

\* A sleeper is woken when its deadline has passed, whoever else is woken by signals or
\* by wake_up(), and whatever timers are left over (wake_sleeping_threads).
DeadlinesAreKept == subject = "sleep" => Sleep!DeadlinesAreKept

\* Every core that is started enters kmain, unless one of them panics.
CoresEnterKmain == subject = "smp" => EveryCoreEntersKmain

ApicNumbers == [c \in {b0, a1, a2} |-> IF c = b0 THEN 0 ELSE IF c = a1 THEN 1 ELSE 2]
=============================================================================
