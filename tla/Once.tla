--------------------------------- MODULE Once ---------------------------------
(***************************************************************************)
(* hyperdrive/src/once.rs: one-time initialization.  Contexts race           *)
(* call_once(), whose initializer may panic, with get().  With unwinds the    *)
(* panic unwinds through PoisonGuard; without it (panic = "abort", as the     *)
(* kernel is built) the panicking context just stops.                        *)
(***************************************************************************)
EXTENDS Contexts

VARIABLES state,        \* Once.state
          written,      \* has Once.value been written?
          unwinds,      \* the build: does a panic run destructors?
          once_pc

onceVars == <<state, written, unwinds, once_pc>>

OnceInit ==
    /\ state = "Uninitialized" /\ written = FALSE
    /\ unwinds \in BOOLEAN
    /\ once_pc = [c \in Ctx |-> "out"]

OnceStep(c, from, to) ==
    /\ once_pc[c] = from
    /\ once_pc' = [once_pc EXCEPT ![c] = to]
    /\ UNCHANGED unwinds

\* call_once(): the compare_exchange; if it fails call_once() returns at once.
CallOnce(c) ==
    /\ state = "Uninitialized"
    /\ OnceStep(c, "out", "init")
    /\ state' = "Initializing"
    /\ UNCHANGED written

\* Mutant: the state is stored before the value is written.
StoreEarly(c) == OnceStep(c, "init", "write") /\ state' = "Initialized" /\ UNCHANGED written

\* guard_call(): the initializer returned and the guard is forgotten.
InitSuccess(c) == OnceStep(c, "init", "write") /\ UNCHANGED <<state, written>>

\* Mutant: a panic leaves the state as it is.
InitPanicIgnored(c) ==
    /\ OnceStep(c, "init", IF unwinds THEN "out" ELSE "halted")
    /\ UNCHANGED <<state, written>>

\* guard_call(): the initializer panicked; dropping the guard poisons the Once.
InitPanic(c) ==
    /\ OnceStep(c, "init", IF unwinds THEN "out" ELSE "halted")
    /\ state' = IF unwinds THEN "Poisoned" ELSE state
    /\ UNCHANGED written

\* call_once(): the value is written, and only then the state is stored.
WriteValue(c) == OnceStep(c, "write", "store") /\ written' = TRUE /\ UNCHANGED state
StoreState(c) == OnceStep(c, "store", "out") /\ state' = "Initialized" /\ UNCHANGED written

\* get(): the first load.  None and the panic leave nothing behind.
GetLoad(c) ==
    /\ state \in {"Initialized", "Initializing"}
    /\ OnceStep(c, "out", IF state = "Initialized" THEN "some" ELSE "get_spin")
    /\ UNCHANGED <<state, written>>

\* get(): the spin loop saw another state, which is then loaded once more.
GetSpin(c) ==
    /\ state # "Initializing"
    /\ OnceStep(c, "get_spin", "get_load")
    /\ UNCHANGED <<state, written>>

GetReload(c) ==
    /\ OnceStep(c, "get_load", IF state = "Initialized" THEN "some" ELSE "poisoned")
    /\ UNCHANGED <<state, written>>

\* The caller lets go of the &T, or its panic has unwound.
GetDone(c) ==
    /\ once_pc[c] \in {"some"} \cup (IF unwinds THEN {"poisoned"} ELSE {})
    /\ OnceStep(c, once_pc[c], "out")
    /\ UNCHANGED <<state, written>>

OnceCall(c) == InitSuccess(c) \/ InitPanic(c) \/ WriteValue(c) \/ StoreState(c)
OnceGet(c) == GetSpin(c) \/ GetReload(c)

OnceNext == \E c \in Ctx : CallOnce(c) \/ OnceCall(c) \/ GetLoad(c) \/ OnceGet(c) \/ GetDone(c)

OnceSpec == OnceInit /\ [][OnceNext]_onceVars

\* The initializer returns or panics, and spinning contexts keep running.
FairOnceSpec == OnceSpec /\ \A c \in Ctx : WF_onceVars(OnceCall(c)) /\ WF_onceVars(OnceGet(c))

--------------------------------------------------------------------------------
Initializer == {"init", "write", "store"}

OnceTypeOK ==
    /\ state \in {"Uninitialized", "Initializing", "Initialized", "Poisoned"}
    /\ written \in BOOLEAN /\ unwinds \in BOOLEAN
    /\ once_pc \in [Ctx -> Initializer \cup {"out", "halted", "get_spin", "get_load",
                                             "some", "poisoned"}]

\* get() never returns a reference to memory that has not been written, and a value
\* that can be borrowed is never written again: Initialized and Poisoned are final,
\* however many callers of call_once() race.
ValueIsFinal ==
    [][/\ \A c \in Ctx : once_pc[c] = "some" => written /\ state = "Initialized"
       /\ (state \in {"Initialized", "Poisoned"}) => state' = state /\ written' = written]_onceVars

\* "this function will block until initialization is complete" (once.rs:261), and
\* no longer, provided a panic unwinds.
GetReturns ==
    \A c \in Ctx : unwinds /\ once_pc[c] = "get_spin" ~> once_pc[c] \in {"some", "poisoned"}
===============================================================================
