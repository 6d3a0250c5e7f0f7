------------------------------- MODULE MUMcsLock -------------------------------
(***************************************************************************)
(* hyperdrive/src/locks/mcs.rs: MUMcsLock, an MCS lock around a value that   *)
(* is written later.  The kernel keeps its heap, frame allocator and screen  *)
(* in such locks, and any core may race init() with a first use.            *)
(***************************************************************************)
EXTENDS McsLock

VARIABLES is_init,      \* MUMcsLock.is_init
          data,         \* Null while uninitialized, else who initialized it
          op            \* the method each context is in, and its progress

muVars == <<is_init, data, op>>
allVars == <<mcsVars, muVars>>

MUInit ==
    /\ McsInit
    /\ is_init = FALSE
    /\ data = Null
    /\ op = [c \in Ctx |-> "none"]

\* init(): returns at once when initialized, else locks the inner lock.
InitCall(c) ==
    /\ op[c] = "none" /\ ~is_init
    /\ LockEnter(c)
    /\ op' = [op EXCEPT ![c] = "init"]
    /\ UNCHANGED <<is_init, data>>

\* Mutant: init() does not check a second time.
InitNoRecheck(c) ==
    /\ op[c] = "init" /\ pc[c] = "held"
    /\ is_init' = TRUE
    /\ op' = [op EXCEPT ![c] = "write"]
    /\ UNCHANGED <<mcsVars, data>>

\* init(), inside the lock: is_init.swap(true), the second check.
InitSwap(c) ==
    /\ op[c] = "init" /\ pc[c] = "held"
    /\ is_init' = TRUE
    /\ op' = [op EXCEPT ![c] = IF is_init THEN "done" ELSE "write"]
    /\ UNCHANGED <<mcsVars, data>>

\* init(), inside the lock: inner.write(value).
InitWrite(c) ==
    /\ op[c] = "write" /\ pc[c] = "held"
    /\ data' = c
    /\ op' = [op EXCEPT ![c] = "done"]
    /\ UNCHANGED <<mcsVars, is_init>>

\* lock(), lock_if_init() and try_lock() look at the flag without the lock; an
\* uninitialized lock makes them panic or return None and changes nothing.
UseCall(c) ==
    /\ op[c] = "none" /\ is_init
    /\ LockEnter(c) \/ TryEnter(c)
    /\ op' = [op EXCEPT ![c] = "use"]
    /\ UNCHANGED <<is_init, data>>

\* The inner lock's own steps; the guard is dropped when the method is through.
Inner(c) ==
    /\ \/ Lock(c) \/ TryCas(c)
       \/ op[c] \in {"use", "done"} /\ DropGuard(c)
    /\ op' = [op EXCEPT ![c] = IF pc'[c] = "out" THEN "none" ELSE @]
    /\ UNCHANGED <<is_init, data>>

MUNext ==
    \E c \in Ctx : InitCall(c) \/ InitSwap(c) \/ InitWrite(c) \/ UseCall(c) \/ Inner(c)

MUSpec == MUInit /\ [][MUNext]_allVars

--------------------------------------------------------------------------------
MUTypeOK ==
    /\ is_init \in BOOLEAN
    /\ data \in Ctx \cup {Null}
    /\ op \in [Ctx -> {"none", "init", "write", "done", "use"}]
    /\ \A c \in Ctx : op[c] # "none" => pc[c] # "out"

\* "The lock is initialized if the guard exists" (mcs.rs:546) and "If the lock is
\* already initialized, this function doesn't change the value" (mcs.rs:400):
\* although the flag is raised before the value is written and is read without the
\* lock, no guard is handed out over an unwritten value, and however many contexts
\* race through init() the value is written once.
GuardSeesValue ==
    [][/\ \A c \in Ctx : op[c] = "use" /\ pc[c] \in Owning => data # Null
       /\ data # Null => data' = data]_allVars
===============================================================================
