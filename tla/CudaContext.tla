----------------------------- MODULE CudaContext -----------------------------
(***************************************************************************)
(* What the models of one CUDA context have in common: the threads that    *)
(* share it and ContextResourceLifecycle (j2k-cuda-runtime/src/context/    *)
(* lifecycle.rs), the gate that serialises driver calls and the flag that  *)
(* quarantines the context.                                                *)
(***************************************************************************)
CONSTANTS
    Threads,    \* the threads that share the context
    NoThread    \* nobody: the gate is free, a buffer is not checked out

VARIABLES
    gate,       \* the thread inside ContextResourceLifecycle.gate
    poisoned,   \* ContextResourceLifecycle.poisoned
    pc          \* where each thread stands

Goto(t, where) == pc' = [pc EXCEPT ![t] = where]
=============================================================================
