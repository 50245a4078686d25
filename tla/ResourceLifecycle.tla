-------------------------- MODULE ResourceLifecycle --------------------------
(***************************************************************************)
(* The resource lifecycle of a CUDA context: the gate that serialises      *)
(* driver operations, the poison flag that quarantines the context when    *)
(* completion of submitted work is uncertain, and the teardown of the      *)
(* context (j2k-cuda-runtime/src/context/lifecycle.rs, operations.rs and   *)
(* inner.rs).                                                              *)
(*                                                                         *)
(* A step is what runs between two points where another thread can see     *)
(* the difference: the gate, the atomic flag and the driver call.  A       *)
(* closure may panic at any of them; unwinding publishes the flag first    *)
(* and then unlocks the gate, which the standard library marks poisoned.   *)
(***************************************************************************)
EXTENDS CudaContext

ASSUME LifecycleAssumption == NoThread \notin Threads

\* with_current_resource_operation, with_current_completion_operation,
\* with_current_stateful_operation, and the last one as the drop of a device
\* allocation uses it.
Kinds == {"recoverable", "completion", "stateful", "release"}

VARIABLES
    gatePoisoned,   \* a panic unlocked the gate
    kind,           \* the kind of operation it runs
    doubt,          \* an error was reported and nothing proved completion
    handles,        \* the threads that hold a reference to the context
    retained,       \* a reference was leaked by mem::forget
    teardown        \* how ContextInner::drop released the context's resources

lifecycleVars == <<gate, gatePoisoned, poisoned, pc, kind, doubt, handles, retained,
          teardown>>

sharedVars == <<handles, retained, teardown>>

LifecycleInit ==
    /\ gate = NoThread
    /\ gatePoisoned = "no" /\ poisoned = "no"
    /\ pc = [t \in Threads |-> "idle"]
    /\ kind = [t \in Threads |-> "recoverable"]
    /\ doubt = "no"
    /\ handles = Threads
    /\ retained = "no"
    /\ teardown = "none"

\* The call returns and the gate is unlocked.
Leave(t) == gate' = NoThread /\ Goto(t, "idle")

\* Drop of a device allocation forgets a clone of the context when the
\* release was refused or failed.
RetainOnError(t) == retained' = IF kind[t] = "release" THEN "yes" ELSE retained

-----------------------------------------------------------------------------
(* run_gated                                                               *)

RunGated(t, k) ==
    /\ pc[t] = "idle" /\ t \in handles
    /\ kind' = [kind EXCEPT ![t] = k]
    /\ Goto(t, "lock")
    /\ UNCHANGED <<gate, gatePoisoned, poisoned, doubt, sharedVars>>

Lock(t) ==
    /\ pc[t] = "lock" /\ gate = NoThread /\ gatePoisoned = "no"
    /\ gate' = t
    /\ Goto(t, "check")
    /\ UNCHANGED <<gatePoisoned, poisoned, kind, doubt, sharedVars>>

\* The lock call reports that a holder panicked.
LockPoisoned(t) ==
    /\ pc[t] = "lock" /\ gate = NoThread /\ gatePoisoned = "yes"
    /\ poisoned' = "yes"
    /\ RetainOnError(t)
    /\ Goto(t, "idle")
    /\ UNCHANGED <<gate, gatePoisoned, kind, doubt, handles, teardown>>

Refuse(t) ==
    /\ pc[t] = "check" /\ poisoned = "yes"
    /\ RetainOnError(t)
    /\ Leave(t)
    /\ UNCHANGED <<gatePoisoned, poisoned, kind, doubt, handles, teardown>>

\* Mutant: the flag is read before the gate is taken, not under it.
MutCheck(t) ==
    /\ pc[t] = "check"
    /\ Goto(t, "current")
    /\ UNCHANGED <<gate, gatePoisoned, poisoned, kind, doubt, sharedVars>>

Check(t) ==
    /\ pc[t] = "check" /\ poisoned = "no"
    /\ Goto(t, "current")
    /\ UNCHANGED <<gate, gatePoisoned, poisoned, kind, doubt, sharedVars>>

SetCurrent(t) ==
    /\ pc[t] = "current"
    /\ Goto(t, "operation")
    /\ UNCHANGED <<gate, gatePoisoned, poisoned, kind, doubt, sharedVars>>

SetCurrentFails(t) ==
    /\ pc[t] = "current"
    /\ poisoned' = "yes"
    /\ RetainOnError(t)
    /\ Leave(t)
    /\ UNCHANGED <<gatePoisoned, kind, doubt, handles, teardown>>

-----------------------------------------------------------------------------
(* run_recoverable, run_completion and run_stateful                        *)

OperationSucceeds(t) ==
    /\ pc[t] = "operation"
    /\ Leave(t)
    /\ UNCHANGED <<gatePoisoned, poisoned, kind, doubt, sharedVars>>

OperationFails(t) ==
    /\ pc[t] = "operation"
    /\ doubt' = "yes"
    /\ Goto(t, "failed")
    /\ UNCHANGED <<gate, gatePoisoned, poisoned, kind, sharedVars>>

\* run_completion: the failed operation was itself the proof of completion.
CompletionUncertain(t) ==
    /\ pc[t] = "failed" /\ kind[t] = "completion"
    /\ poisoned' = "yes"
    /\ Leave(t)
    /\ UNCHANGED <<gatePoisoned, kind, doubt, sharedVars>>

\* Mutant: the flag is left to the end of the synchronization.
MutQuarantineThenSync(t) ==
    /\ pc[t] = "failed" /\ kind[t] \in {"stateful", "release"}
    /\ Goto(t, "sync")
    /\ UNCHANGED <<gate, gatePoisoned, poisoned, kind, doubt, sharedVars>>

\* run_stateful publishes the flag before it blocks in the driver.
QuarantineThenSync(t) ==
    /\ pc[t] = "failed" /\ kind[t] \in {"stateful", "release"}
    /\ poisoned' = "yes"
    /\ Goto(t, "sync")
    /\ UNCHANGED <<gate, gatePoisoned, kind, doubt, sharedVars>>

RecoverableSync(t) ==
    /\ pc[t] = "failed" /\ kind[t] = "recoverable"
    /\ Goto(t, "sync")
    /\ UNCHANGED <<gate, gatePoisoned, poisoned, kind, doubt, sharedVars>>

SyncSucceeds(t) ==
    /\ pc[t] = "sync"
    /\ doubt' = "no"
    /\ RetainOnError(t)
    /\ Leave(t)
    /\ UNCHANGED <<gatePoisoned, poisoned, kind, handles, teardown>>

\* Mutant: a failed recovery is reported but not published.
MutSyncFails(t) ==
    /\ pc[t] = "sync"
    /\ RetainOnError(t)
    /\ Leave(t)
    /\ UNCHANGED <<gatePoisoned, poisoned, kind, doubt, handles, teardown>>

\* run_recoverable publishes the flag now; run_stateful has done so before.
SyncFails(t) ==
    /\ pc[t] = "sync"
    /\ poisoned' = "yes"
    /\ RetainOnError(t)
    /\ Leave(t)
    /\ UNCHANGED <<gatePoisoned, kind, doubt, handles, teardown>>

\* Mutant: no PoisonOnUnwind.
MutPanic(t) ==
    /\ pc[t] \in {"current", "operation", "sync"}
    /\ doubt' = IF pc[t] = "operation" THEN "yes" ELSE doubt
    /\ Goto(t, "unwind")
    /\ UNCHANGED <<gate, gatePoisoned, poisoned, kind, sharedVars>>

\* A panic of a closure: PoisonOnUnwind is dropped before the gate's guard.
Panic(t) ==
    /\ pc[t] \in {"current", "operation", "sync"}
    /\ doubt' = IF pc[t] = "operation" THEN "yes" ELSE doubt
    /\ poisoned' = "yes"
    /\ Goto(t, "unwind")
    /\ UNCHANGED <<gate, gatePoisoned, kind, sharedVars>>

Unwind(t) ==
    /\ pc[t] = "unwind"
    /\ gatePoisoned' = "yes"
    /\ Leave(t)
    /\ UNCHANGED <<poisoned, kind, doubt, sharedVars>>

-----------------------------------------------------------------------------
(* Teardown                                                                *)

\* Mutant: teardown trusts the mutex alone.
MutCanReleaseIndividually == gatePoisoned = "no"

CanReleaseIndividually == gatePoisoned = "no" /\ poisoned = "no"

\* The last reference goes away: ContextInner::drop.  Resources are released
\* one by one, or left to the destruction of the whole context.
Dropped(individually) ==
    /\ poisoned' = IF gatePoisoned = "yes" THEN "yes" ELSE poisoned
    /\ teardown' = IF CanReleaseIndividually /\ individually
                   THEN "individual" ELSE "whole"

\* individually is FALSE when the context cannot be made current any more.
DropHandle(t, individually) ==
    /\ pc[t] = "idle" /\ t \in handles
    /\ handles' = handles \ {t}
    /\ IF handles = {t} /\ retained = "no"
       THEN Dropped(individually)
       ELSE UNCHANGED <<poisoned, teardown>>
    /\ UNCHANGED <<gate, gatePoisoned, pc, kind, doubt, retained>>

LifecycleNext ==
    \E t \in Threads :
        \/ \E k \in Kinds : RunGated(t, k)
        \/ Lock(t) \/ LockPoisoned(t) \/ Refuse(t) \/ Check(t)
        \/ SetCurrent(t) \/ SetCurrentFails(t)
        \/ OperationSucceeds(t) \/ OperationFails(t)
        \/ CompletionUncertain(t) \/ QuarantineThenSync(t)
        \/ RecoverableSync(t) \/ SyncSucceeds(t) \/ SyncFails(t)
        \/ Panic(t) \/ Unwind(t)
        \/ \E ind \in BOOLEAN : DropHandle(t, ind)

LifecycleSpec == LifecycleInit /\ [][LifecycleNext]_lifecycleVars

-----------------------------------------------------------------------------
Locations == {"idle", "lock", "check", "current", "operation", "failed",
              "sync", "unwind"}

TypeOK ==
    /\ gate \in Threads \cup {NoThread}
    /\ gatePoisoned \in {"no", "yes"} /\ poisoned \in {"no", "yes"}
    /\ pc \in [Threads -> Locations]
    /\ kind \in [Threads -> Kinds]
    /\ doubt \in {"no", "yes"}
    /\ handles \subseteq Threads
    /\ retained \in {"no", "yes"}
    /\ teardown \in {"none", "individual", "whole"}

\* Whoever finds the gate free while completion is in doubt also finds the
\* context quarantined, whichever of the error, recovery and unwinding paths
\* the last holder left by; a panic is visible in the flag too, which the
\* pools read without ever touching the gate.
DoubtIsQuarantined ==
    /\ gate = NoThread /\ doubt = "yes" => poisoned = "yes"
    /\ gatePoisoned = "yes" => poisoned = "yes"

\* A stateful failure is visible to unlocked readers for the whole time its
\* thread blocks in the driver; otherwise they could reuse what the failed
\* operation may still be using (the comment in run_stateful).
PublishedBeforeBlocking ==
    \A t \in Threads :
        pc[t] = "sync" /\ kind[t] # "recoverable" => poisoned = "yes"

\* Resources are released one by one only when no submitted work can still
\* be using them, and never while a thread is inside a driver operation.
TeardownSafe ==
    teardown = "individual" =>
        doubt = "no" /\ poisoned = "no" /\ gate = NoThread

\* The thread inside the driver, for the abstract specification.
Driving ==
    IF gate # NoThread /\ pc[gate] \in {"operation", "failed", "sync"}
    THEN gate ELSE NoThread

Driver == INSTANCE SerialDriver
    WITH running <- Driving,
         certain <- IF doubt = "yes" THEN "no" ELSE "yes",
         quarantined <- poisoned

\* The lifecycle implements the serial, quarantining driver: operations never
\* overlap, none begins after the flag is published by any thread, and none
\* ends in doubt without publishing it.
SerialisesDriver == Driver!Spec
=============================================================================
