---------------------------- MODULE MCScheduler ----------------------------
(* Small instances of Scheduler: one or two cores, two idle threads per     *)
(* core as IDLE_THREADS_PER_CORE says, at most one user thread.             *)
EXTENDS Scheduler

CONSTANTS c1, c2, k1, k2, i1, i2, i3, i4

OneBoot == [c \in {c1} |-> k1]
TwoBoot == [c \in {c1, c2} |-> IF c = c1 THEN k1 ELSE k2]
OneIdle == <<i1, i2>>
TwoIdle == <<i1, i2, i3, i4>>

\* What a core does after it has read a wrong stack pointer is not modelled;
\* a tick in the window before perform leads there.
UntilBroken == StacksAreSafe /\ LoadsSavedStack /\ OutsideWindow

\* Boxes are anonymous: two states that differ only in the names of the boxes
\* have the same behaviours.  In the view a box is named by its content.
Named(b) == IF b = Useless THEN Useless ELSE content[b]
NamedDo(d) == [d EXCEPT !.box = Named(@), !.cs.old = Named(@)]
NamedSeq(s) == [i \in DOMAIN s |-> content[s[i]]]
BoxOf(t) == CHOOSE b \in Box : content[b] = t
AnonymousBoxes ==
  <<[t \in Thread |-> sp[BoxOf(t)]],
    [p \in Prio |-> NamedSeq(ready[p])],
    {content[b] : b \in linking}, {content[b] : b \in unborn},
    {<<content[b], sleeping[b]>> : b \in DOMAIN sleeping},
    NamedSeq(finished), freed,
    [c \in Core |-> [cpu[c] EXCEPT !.do = NamedDo(@)]],
    [c \in Core |-> current(c)],
    sched, cont, [t \in Thread |-> NamedDo(pend[t])]>>
=============================================================================
