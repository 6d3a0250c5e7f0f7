----------------------------- MODULE MCSleepQueues -----------------------------
(* Two threads on one event and one elsewhere; one call of wake_up() is enough  *)
(* for a stale timer, and for the stale id in an event queue it leads to.       *)
EXTENDS SleepQueues
================================================================================
