------------------------------- MODULE Contexts -------------------------------
(***************************************************************************)
(* Who executes hyperdrive's code.  A context is one use of a primitive: a   *)
(* thread, or an interrupt handler that preempted it; each core runs one at  *)
(* a time, so any number of them is in the middle of a call.                 *)
(***************************************************************************)
EXTENDS Naturals, Sequences, FiniteSets

CONSTANTS Ctx,          \* execution contexts
          Null          \* the null pointer

ASSUME NullAssumption == Null \notin Ctx
ASSUME CtxFinite == IsFiniteSet(Ctx)
===============================================================================
