----------------------------- MODULE BufferPool -----------------------------
(***************************************************************************)
(* The CUDA device-buffer pool and the queued executions that use it       *)
(* (j2k-cuda-runtime/src/memory/pool.rs, memory/pool/*.rs,                 *)
(* execution/queued.rs and the launch and synchronize paths of             *)
(* execution.rs).                                                          *)
(*                                                                         *)
(* Threads share one pool of one CUDA context.  A thread checks buffers    *)
(* out, submits kernels that read and write them asynchronously, and drops *)
(* its checkouts at any time, also while the kernels still run.  A reuse   *)
(* hold (CudaBufferPoolReuseGuard) parks dropped buffers in deferred until *)
(* the submitting thread has proof of completion.                          *)
(*                                                                         *)
(* Steps end where the code gives up a lock: the pool mutex, the lifecycle *)
(* gate that serialises driver calls, or the unlocked read of the poison   *)
(* flag.  Calls that fail without changing anything are not steps.  The    *)
(* order of the free list is abstracted: a set of candidates stands for    *)
(* "oldest" and "newest" among buffers the policy treats alike.            *)
(***************************************************************************)
EXTENDS ByteTotals, CudaContext

CONSTANTS
    Buffers,      \* the device allocations that can exist
    Size,         \* byte_len of each allocation
    MaxSize,      \* the largest of them
    Policy,       \* "FirstFit" or "SizeBuckets"
    MaxBuffers,   \* CudaBufferPoolLimits.max_cached_buffers
    MaxBytes,     \* CudaBufferPoolLimits.max_cached_bytes
    MaxBuckets,   \* CudaBufferPoolLimits.max_size_buckets
    NoBuffer

ASSUME PoolAssumption ==
    /\ IsFiniteSet(Threads) /\ IsFiniteSet(Buffers)
    /\ MaxSize \in Nat
    /\ Size \in [Buffers -> 1..MaxSize]
    /\ Policy \in {"FirstFit", "SizeBuckets"}
    /\ MaxBuffers \in Nat /\ MaxBytes \in Nat /\ MaxBuckets \in Nat
    /\ NoThread \notin Threads /\ NoBuffer \notin Buffers

VARIABLES
    free,           \* CudaBufferPoolState.free
    deferred,       \* CudaBufferPoolState.deferred
    deferredBytes,  \* CudaBufferPoolState.deferred_bytes
    holds,          \* CudaBufferPoolState.reuse_holds
    live,           \* the allocations the driver has not freed
    owner,          \* who has each buffer checked out
    leaked,         \* tokens forgotten or whose release was refused
    guard,          \* each thread's reuse guard: none, active or synced
    abandoned,      \* how many guards were leaked with their hold
    inflight,       \* buffers each thread's submitted work may still access
    orphaned,       \* the same for work whose guard was abandoned
    request,        \* the length a take is looking for
    cand,           \* the completed buffer a thread is offering to the cache
    victim,         \* the evicted buffer a thread is about to release
    todo            \* the buffers a thread still has to recycle or release

lockVars == <<free, deferred, deferredBytes, holds>>
workVars == <<guard, abandoned, inflight, orphaned>>
localVars == <<request, cand, victim, todo>>
vars == <<free, deferred, deferredBytes, holds, poisoned, gate, live, owner,
          leaked, guard, abandoned, inflight, orphaned, pc, request, cand,
          victim, todo>>

SizeTotal(F) == Total([b \in F |-> Size[b]], MaxSize)

Owned(t) == {b \in Buffers : owner[b] = t}

InFlight == orphaned \cup UNION {inflight[t] : t \in Threads}

Init ==
    /\ free = {} /\ deferred = {} /\ deferredBytes = 0 /\ holds = 0
    /\ poisoned = "no"
    /\ gate = NoThread
    /\ live = {}
    /\ owner = [b \in Buffers |-> NoThread]
    /\ leaked = {}
    /\ guard = [t \in Threads |-> "none"]
    /\ abandoned = 0
    /\ inflight = [t \in Threads |-> {}]
    /\ orphaned = {}
    /\ pc = [t \in Threads |-> "idle"]
    /\ request = [t \in Threads |-> 0]
    /\ cand = [t \in Threads |-> NoBuffer]
    /\ victim = [t \in Threads |-> NoBuffer]
    /\ todo = [t \in Threads |-> {}]

Available == poisoned = "no"

-----------------------------------------------------------------------------
(* take                                                                    *)

\* ensure_resource_lifetime_available, before the pool is locked.
TakeCheck(t, n) ==
    /\ pc[t] = "idle"
    /\ Available
    /\ Goto(t, "take")
    /\ request' = [request EXCEPT ![t] = n]
    /\ UNCHANGED <<lockVars, workVars, poisoned, gate, live, owner, leaked,
                   cand, victim, todo>>

Fitting(n) == {b \in free : Size[b] >= n}

\* pool_take_fit_buffer: the first that fits, or the smallest that fits.
TakeChoice(n) ==
    {b \in Fitting(n) :
        Policy = "SizeBuckets" => \A c \in Fitting(n) : Size[b] <= Size[c]}

Returned(t) == Goto(t, "idle") /\ request' = [request EXCEPT ![t] = 0]

TakeCached(t) ==
    /\ pc[t] = "take"
    /\ \E b \in TakeChoice(request[t]) :
          /\ free' = free \ {b}
          /\ owner' = [owner EXCEPT ![b] = t]
    /\ Returned(t)
    /\ UNCHANGED <<deferred, deferredBytes, holds, workVars, poisoned, gate,
                   live, leaked, cand, victim, todo>>

TakeMiss(t) ==
    /\ pc[t] = "take"
    /\ Fitting(request[t]) = {}
    /\ Goto(t, "alloc")
    /\ UNCHANGED <<lockVars, workVars, poisoned, gate, live, owner, leaked,
                   localVars>>

\* CudaContext::allocate, a stateful driver operation outside the pool lock.
Allocate(t) ==
    /\ pc[t] = "alloc" /\ gate = NoThread /\ Available
    /\ \E b \in Buffers \ live :
          /\ Size[b] = request[t]
          /\ live' = live \cup {b}
          /\ owner' = [owner EXCEPT ![b] = t]
    /\ Returned(t)
    /\ UNCHANGED <<lockVars, workVars, poisoned, gate, leaked, cand, victim,
                   todo>>

\* The driver call fails, or the gate refuses it: a stateful failure
\* publishes the poison flag before anything else.
AllocateFails(t) ==
    /\ pc[t] = "alloc" /\ gate = NoThread
    /\ poisoned' = "yes"
    /\ Returned(t)
    /\ UNCHANGED <<lockVars, workVars, gate, live, owner, leaked, cand,
                   victim, todo>>

-----------------------------------------------------------------------------
(* defer_reuse, asynchronous launches and synchronization                  *)

DeferCheck(t) ==
    /\ pc[t] = "idle" /\ guard[t] = "none"
    /\ Available
    /\ Goto(t, "hold")
    /\ UNCHANGED <<lockVars, workVars, poisoned, gate, live, owner, leaked,
                   localVars>>

\* Mutant: the guard is handed out without counting its hold.
MutAcquireReuseHold(t) ==
    /\ pc[t] = "hold"
    /\ guard' = [guard EXCEPT ![t] = "active"]
    /\ Goto(t, "idle")
    /\ UNCHANGED <<lockVars, abandoned, inflight, orphaned, poisoned, gate,
                   live, owner, leaked, localVars>>

AcquireReuseHold(t) ==
    /\ pc[t] = "hold"
    /\ holds' = holds + 1
    /\ guard' = [guard EXCEPT ![t] = "active"]
    /\ Goto(t, "idle")
    /\ UNCHANGED <<free, deferred, deferredBytes, abandoned, inflight,
                   orphaned, poisoned, gate, live, owner, leaked, localVars>>

\* launch_kernel_async under a guard: the kernel accesses checkouts of the
\* launching thread, which is what its safety contract asks of the caller.
Launch(t, S) ==
    /\ pc[t] = "idle" /\ guard[t] = "active"
    /\ gate = NoThread /\ Available
    /\ S # {} /\ S \subseteq Owned(t)
    /\ inflight' = [inflight EXCEPT ![t] = @ \cup S]
    /\ UNCHANGED <<lockVars, guard, abandoned, orphaned, poisoned, gate, live,
                   owner, leaked, pc, localVars>>

\* cuLaunchKernel reports an error, possibly of earlier work; the kernel may
\* have been queued.  run_recoverable keeps the gate and synchronizes.
LaunchFails(t, S) ==
    /\ pc[t] = "idle" /\ guard[t] = "active"
    /\ gate = NoThread /\ Available
    /\ S \subseteq Owned(t)
    /\ inflight' = [inflight EXCEPT ![t] = @ \cup S]
    /\ gate' = t
    /\ Goto(t, "recover")
    /\ UNCHANGED <<lockVars, guard, abandoned, orphaned, poisoned, live,
                   owner, leaked, localVars>>

\* copy_to_host of a status buffer fails: the same recovery, but the guard
\* goes to release_after_recoverable_operation_error.
ReadbackFails(t) ==
    /\ pc[t] = "idle" /\ guard[t] = "active"
    /\ gate = NoThread /\ Available
    /\ gate' = t
    /\ Goto(t, "readback")
    /\ UNCHANGED <<lockVars, workVars, poisoned, live, owner, leaked,
                   localVars>>

\* Work of the whole context has completed.
AllComplete == inflight' = [t \in Threads |-> {}]

\* A synchronous copy on the default stream completes what precedes it.
Readback(t) ==
    /\ pc[t] = "idle" /\ guard[t] = "active"
    /\ gate = NoThread /\ Available
    /\ AllComplete
    /\ guard' = [guard EXCEPT ![t] = "synced"]
    /\ UNCHANGED <<lockVars, abandoned, orphaned, poisoned, gate, live, owner,
                   leaked, pc, localVars>>

\* The context stays usable.  synchronize_then_error goes on to synchronize
\* once more; release_after_recoverable_operation_error does not.
RecoverySucceeds(t) ==
    /\ pc[t] \in {"recover", "readback"}
    /\ gate' = NoThread
    /\ AllComplete
    /\ Goto(t, IF pc[t] = "recover" THEN "finish" ELSE "recovered")
    /\ UNCHANGED <<lockVars, guard, abandoned, orphaned, poisoned, live,
                   owner, leaked, localVars>>

\* The guard is leaked: its hold is never released.
Abandon(t) ==
    /\ guard' = [guard EXCEPT ![t] = "none"]
    /\ abandoned' = abandoned + 1
    /\ orphaned' = orphaned \cup inflight[t]
    /\ inflight' = [inflight EXCEPT ![t] = {}]

RecoveryFails(t) ==
    /\ pc[t] \in {"recover", "readback"}
    /\ poisoned' = "yes"
    /\ gate' = NoThread
    /\ Abandon(t)
    /\ Goto(t, "idle")
    /\ UNCHANGED <<lockVars, live, owner, leaked, localVars>>

\* release_after_recoverable_operation_error.
AfterRecovery(t) ==
    /\ pc[t] = "recovered"
    /\ Goto(t, "idle")
    /\ IF Available
       THEN /\ guard' = [guard EXCEPT ![t] = "synced"]
            /\ UNCHANGED <<abandoned, inflight, orphaned>>
       ELSE Abandon(t)
    /\ UNCHANGED <<lockVars, poisoned, gate, live, owner, leaked, localVars>>

\* The guard's owner decides to finish: finish, finish_with_resources, the
\* drop of the queued execution or of the guard.
Finish(t) ==
    /\ pc[t] = "idle" /\ guard[t] = "active"
    /\ Goto(t, "finish")
    /\ UNCHANGED <<lockVars, workVars, poisoned, gate, live, owner, leaked,
                   localVars>>

\* synchronize_for_resource_release enters the gate.
Synchronize(t) ==
    /\ pc[t] = "finish" /\ gate = NoThread /\ Available
    /\ gate' = t
    /\ Goto(t, "sync")
    /\ UNCHANGED <<lockVars, workVars, poisoned, live, owner, leaked,
                   localVars>>

\* Only CUDA_SUCCESS is proof of completion.
SynchronizeSucceeds(t) ==
    /\ pc[t] = "sync"
    /\ gate' = NoThread
    /\ AllComplete
    /\ guard' = [guard EXCEPT ![t] = "synced"]
    /\ Goto(t, "idle")
    /\ UNCHANGED <<lockVars, abandoned, orphaned, poisoned, live, owner,
                   leaked, localVars>>

\* Mutant: the error path leaves the gate locked.
MutSynchronizeFails(t) ==
    /\ pc[t] = "sync"
    /\ poisoned' = "yes"
    /\ Abandon(t)
    /\ Goto(t, "idle")
    /\ UNCHANGED <<lockVars, gate, live, owner, leaked, localVars>>

SynchronizeFails(t) ==
    /\ pc[t] = "sync"
    /\ poisoned' = "yes"
    /\ gate' = NoThread
    /\ Abandon(t)
    /\ Goto(t, "idle")
    /\ UNCHANGED <<lockVars, live, owner, leaked, localVars>>

\* The context was poisoned meanwhile: completion is uncertain.
SynchronizeRefused(t) ==
    /\ pc[t] = "finish" /\ gate = NoThread /\ ~Available
    /\ Abandon(t)
    /\ Goto(t, "idle")
    /\ UNCHANGED <<lockVars, poisoned, gate, live, owner, leaked, localVars>>

\* Mutant: any hold, not only the last, hands out what is deferred.
MutReleaseAny(t) ==
    /\ pc[t] = "idle" /\ guard[t] = "synced"
    /\ holds' = holds - 1
    /\ guard' = [guard EXCEPT ![t] = "none"]
    /\ deferred' = {} /\ deferredBytes' = 0
    /\ todo' = [todo EXCEPT ![t] = deferred]
    /\ Goto(t, "next")
    /\ UNCHANGED <<free, abandoned, inflight, orphaned, poisoned, gate, live,
                   owner, leaked, request, cand, victim>>

\* release_reuse_hold: the last hold hands the deferred buffers, as
\* completed ones, to the releasing thread.
Release(t) ==
    /\ pc[t] = "idle" /\ guard[t] = "synced"
    /\ holds' = holds - 1
    /\ guard' = [guard EXCEPT ![t] = "none"]
    /\ IF holds = 1
       THEN /\ deferred' = {}
            /\ deferredBytes' = 0
            /\ todo' = [todo EXCEPT ![t] = deferred]
            /\ Goto(t, "next")
       ELSE UNCHANGED <<deferred, deferredBytes, todo, pc>>
    /\ UNCHANGED <<free, abandoned, inflight, orphaned, poisoned, gate, live,
                   owner, leaked, request, cand, victim>>

-----------------------------------------------------------------------------
(* recycle_buffer: the drop of a checkout                                  *)

RecycleCheck(t, b) ==
    /\ pc[t] = "idle" /\ owner[b] = t
    /\ owner' = [owner EXCEPT ![b] = NoThread]
    /\ IF Available
       THEN Goto(t, "recycle") /\ cand' = [cand EXCEPT ![t] = b]
            /\ UNCHANGED todo
       ELSE Goto(t, "drain") /\ todo' = [todo EXCEPT ![t] = {b}]
            /\ UNCHANGED cand
    /\ UNCHANGED <<lockVars, workVars, poisoned, gate, live, leaked, request,
                   victim>>

RecycleDeferred(t) ==
    /\ pc[t] = "recycle" /\ holds # 0
    /\ deferred' = deferred \cup {cand[t]}
    /\ deferredBytes' = deferredBytes + Size[cand[t]]
    /\ cand' = [cand EXCEPT ![t] = NoBuffer]
    /\ Goto(t, "idle")
    /\ UNCHANGED <<free, holds, workVars, poisoned, gate, live, owner, leaked,
                   request, victim, todo>>

\* deferred cannot grow: the token is forgotten, never released early.
RecycleForgotten(t) ==
    /\ pc[t] = "recycle" /\ holds # 0
    /\ leaked' = leaked \cup {cand[t]}
    /\ cand' = [cand EXCEPT ![t] = NoBuffer]
    /\ Goto(t, "idle")
    /\ UNCHANGED <<lockVars, workVars, poisoned, gate, live, owner, request,
                   victim, todo>>

\* No hold at the moment of the check: the buffer counts as completed.
RecycleCompleted(t) ==
    /\ pc[t] = "recycle" /\ holds = 0
    /\ Goto(t, "admit")
    /\ UNCHANGED <<lockVars, workVars, poisoned, gate, live, owner, leaked,
                   localVars>>

\* into_device_buffer detaches a checkout from the pool; the raw buffer is
\* released when its owner drops it, which the launch contract forbids while
\* submitted work may access it.
DropDetached(t, b) ==
    /\ pc[t] = "idle" /\ owner[b] = t /\ b \notin InFlight
    /\ owner' = [owner EXCEPT ![b] = NoThread]
    /\ todo' = [todo EXCEPT ![t] = {b}]
    /\ Goto(t, "drain")
    /\ UNCHANGED <<lockVars, workVars, poisoned, gate, live, leaked, request,
                   cand, victim>>

-----------------------------------------------------------------------------
(* recycle_completed_buffer: cache admission, one pool-locked round a time *)

BucketCount(F) ==
    IF Policy = "SizeBuckets" THEN Cardinality({Size[b] : b \in F}) ELSE 0

AddsSizeBucket(b) ==
    Policy = "SizeBuckets" /\ Size[b] \notin {Size[c] : c \in free}

NeverFits(b) ==
    \/ MaxBuffers = 0
    \/ Size[b] > MaxBytes
    \/ AddsSizeBucket(b) /\ MaxBuckets = 0

\* Mutant: an admission test that forgets the bucket the candidate opens.
MutFitsBuckets(b) ==
    /\ Cardinality(free) + 1 <= MaxBuffers
    /\ SizeTotal(free) + Size[b] <= MaxBytes
    /\ BucketCount(free) <= MaxBuckets

FitsNow(b) ==
    /\ Cardinality(free) + 1 <= MaxBuffers
    /\ SizeTotal(free) + Size[b] <= MaxBytes
    /\ BucketCount(free) + (IF AddsSizeBucket(b) THEN 1 ELSE 0) <= MaxBuckets

CacheAdmissionDecision(b) ==
    IF NeverFits(b) THEN "Reject"
    ELSE IF FitsNow(b) THEN "Admit"
    ELSE IF free = {} THEN "Reject" ELSE "Evict"

\* evict_deterministic: the oldest, or the oldest of the largest size.
EvictChoice ==
    {b \in free : Policy = "SizeBuckets" => \A c \in free : Size[c] <= Size[b]}

\* The loop of release_reuse_hold takes up the next buffer, or returns.
NextDeferred(t) ==
    /\ pc[t] = "next"
    /\ IF todo[t] = {}
       THEN Goto(t, "idle") /\ UNCHANGED <<cand, todo>>
       ELSE /\ Goto(t, "admit")
            /\ \E b \in todo[t] :
                  /\ cand' = [cand EXCEPT ![t] = b]
                  /\ todo' = [todo EXCEPT ![t] = @ \ {b}]
    /\ UNCHANGED <<lockVars, workVars, poisoned, gate, live, owner, leaked,
                   request, victim>>

Admit(t) ==
    /\ pc[t] = "admit" /\ CacheAdmissionDecision(cand[t]) = "Admit"
    /\ free' = free \cup {cand[t]}
    /\ cand' = [cand EXCEPT ![t] = NoBuffer]
    /\ Goto(t, "next")
    /\ UNCHANGED <<deferred, deferredBytes, holds, workVars, poisoned, gate,
                   live, owner, leaked, request, victim, todo>>

\* try_recycle cannot grow the cache's own metadata: the candidate and,
\* through the error, everything not yet recycled are released.
AdmitFails(t) ==
    /\ pc[t] = "admit" /\ CacheAdmissionDecision(cand[t]) = "Admit"
    /\ todo' = [todo EXCEPT ![t] = @ \cup {cand[t]}]
    /\ cand' = [cand EXCEPT ![t] = NoBuffer]
    /\ Goto(t, "drain")
    /\ UNCHANGED <<lockVars, workVars, poisoned, gate, live, owner, leaked,
                   request, victim>>

Reject(t) ==
    /\ pc[t] = "admit" /\ CacheAdmissionDecision(cand[t]) = "Reject"
    /\ victim' = [victim EXCEPT ![t] = cand[t]]
    /\ cand' = [cand EXCEPT ![t] = NoBuffer]
    /\ Goto(t, "free")
    /\ UNCHANGED <<lockVars, workVars, poisoned, gate, live, owner, leaked,
                   request, todo>>

\* Mutant: the victim is read but not removed from the cache.
MutEvict(t) ==
    /\ pc[t] = "admit" /\ CacheAdmissionDecision(cand[t]) = "Evict"
    /\ \E b \in EvictChoice : victim' = [victim EXCEPT ![t] = b]
    /\ Goto(t, "free")
    /\ UNCHANGED <<lockVars, workVars, poisoned, gate, live, owner, leaked,
                   request, cand, todo>>

Evict(t) ==
    /\ pc[t] = "admit" /\ CacheAdmissionDecision(cand[t]) = "Evict"
    /\ \E b \in EvictChoice :
          /\ free' = free \ {b}
          /\ victim' = [victim EXCEPT ![t] = b]
    /\ Goto(t, "free")
    /\ UNCHANGED <<deferred, deferredBytes, holds, workVars, poisoned, gate,
                   live, owner, leaked, request, cand, todo>>

\* Mutant: the release does not look at the poison flag under the gate.
MutFreeVictim(t) ==
    /\ pc[t] = "free" /\ gate = NoThread
    /\ live' = live \ {victim[t]}
    /\ victim' = [victim EXCEPT ![t] = NoBuffer]
    /\ Goto(t, "freed")
    /\ UNCHANGED <<lockVars, workVars, poisoned, gate, owner, leaked, request,
                   cand, todo>>

\* Drop of a device buffer, rejected or evicted, outside the pool lock.  It
\* is followed by a check of the poison flag: the loop goes on, or the
\* candidate is forgotten and everything behind it dropped.
FreeVictim(t) ==
    /\ pc[t] = "free" /\ gate = NoThread /\ Available
    /\ live' = live \ {victim[t]}
    /\ victim' = [victim EXCEPT ![t] = NoBuffer]
    /\ Goto(t, "freed")
    /\ UNCHANGED <<lockVars, workVars, poisoned, gate, owner, leaked, request,
                   cand, todo>>

ContinueAfterFree(t) ==
    /\ pc[t] = "freed" /\ Available
    /\ Goto(t, IF cand[t] = NoBuffer THEN "next" ELSE "admit")
    /\ UNCHANGED <<lockVars, workVars, poisoned, gate, live, owner, leaked,
                   localVars>>

\* Tokens of t that are forgotten on the error path after a release.
ForgetCandidate(t, lost) ==
    /\ leaked' = leaked \cup ((lost \cup {cand[t]}) \ {NoBuffer})
    /\ cand' = [cand EXCEPT ![t] = NoBuffer]
    /\ Goto(t, "drain")

StopAfterFree(t) ==
    /\ pc[t] = "freed" /\ ~Available
    /\ ForgetCandidate(t, {})
    /\ UNCHANGED <<lockVars, workVars, poisoned, gate, live, owner, request,
                   victim, todo>>

\* The driver refuses the release, or the gate does because the context is
\* poisoned: the token is never released and the context retained.
FreeVictimFails(t) ==
    /\ pc[t] = "free" /\ gate = NoThread
    /\ poisoned' = "yes"
    /\ ForgetCandidate(t, {victim[t]})
    /\ victim' = [victim EXCEPT ![t] = NoBuffer]
    /\ UNCHANGED <<lockVars, workVars, gate, live, owner, request, todo>>

\* Buffers dropped without going through the cache.
Drain(t) ==
    /\ pc[t] = "drain" /\ gate = NoThread
    /\ \E b \in todo[t] :
          /\ todo' = [todo EXCEPT ![t] = @ \ {b}]
          /\ \/ /\ Available
                /\ live' = live \ {b}
                /\ UNCHANGED <<leaked, poisoned>>
             \/ /\ leaked' = leaked \cup {b}
                /\ poisoned' = "yes"
                /\ UNCHANGED live
    /\ UNCHANGED <<lockVars, workVars, gate, owner, pc, request, cand, victim>>

Drained(t) ==
    /\ pc[t] = "drain" /\ todo[t] = {}
    /\ Goto(t, "idle")
    /\ UNCHANGED <<lockVars, workVars, poisoned, gate, live, owner, leaked,
                   localVars>>

-----------------------------------------------------------------------------
\* What a thread must do to bring a started call to its end.
Step(t) ==
    \/ TakeCached(t) \/ TakeMiss(t) \/ Allocate(t) \/ AllocateFails(t)
    \/ AcquireReuseHold(t)
    \/ RecoverySucceeds(t) \/ RecoveryFails(t) \/ AfterRecovery(t)
    \/ Synchronize(t) \/ SynchronizeSucceeds(t) \/ SynchronizeFails(t)
    \/ SynchronizeRefused(t)
    \/ RecycleDeferred(t) \/ RecycleForgotten(t) \/ RecycleCompleted(t)
    \/ NextDeferred(t) \/ Admit(t) \/ AdmitFails(t) \/ Reject(t) \/ Evict(t)
    \/ FreeVictim(t) \/ FreeVictimFails(t)
    \/ ContinueAfterFree(t) \/ StopAfterFree(t)
    \/ Drain(t) \/ Drained(t)

\* The calls a thread may make.
Call(t) ==
    \/ \E n \in {Size[b] : b \in Buffers} : TakeCheck(t, n)
    \/ DeferCheck(t)
    \/ \E S \in SUBSET Buffers : Launch(t, S) \/ LaunchFails(t, S)
    \/ Readback(t) \/ ReadbackFails(t)
    \/ Finish(t) \/ Release(t)
    \/ \E b \in Buffers : RecycleCheck(t, b) \/ DropDetached(t, b)

Next == \E t \in Threads : Step(t) \/ Call(t)

Spec == Init /\ [][Next]_vars

\* A thread that started a call is not stopped in the middle of it: no code
\* path waits for anything but the pool mutex and the lifecycle gate, and a
\* thread whose next step stays possible is scheduled in the end.
FairSpec == Spec /\ \A t \in Threads : WF_vars(Step(t))

-----------------------------------------------------------------------------
\* No buffer that submitted work may still access is freed, sits in the cache
\* where any take would hand it out, or is checked out by anyone but the
\* submitter.  This is what reuse_holds and deferred exist for
\* (recycle_buffer, release_reuse_hold).
NoReuseInFlight ==
    /\ InFlight \subseteq live
    /\ InFlight \cap free = {}
    /\ \A t \in Threads : \A b \in inflight[t] : owner[b] \in {t, NoThread}

\* The hold count is the number of guards alive or leaked, so it never
\* underflows ("reuse hold is already released") and one thread's release
\* cannot end another's hold; deferred_bytes is exact, and buffers wait in
\* deferred only while a hold exists whose release will take them out: none is
\* stranded.
HoldsExact ==
    /\ holds = Cardinality({t \in Threads : guard[t] # "none"}) + abandoned
    /\ deferredBytes = SizeTotal(deferred)
    /\ holds = 0 => deferred = {}

\* What a thread carries through a recycle.
Carried(t) == {b \in Buffers : b = cand[t] \/ b = victim[t] \/ b \in todo[t]}

\* Every allocation has exactly one owner: a checkout, the cache, the deferred
\* list, a thread recycling it, or the leaked tokens.  None is lost, freed
\* twice or reachable from two places, on any error path.
OneOwner ==
    /\ live = free \cup deferred \cup leaked
                \cup {b \in Buffers : owner[b] # NoThread}
                \cup UNION {Carried(t) : t \in Threads}
    /\ free \cap deferred = {} /\ leaked \cap (free \cup deferred) = {}
    /\ \A b \in Buffers :
          owner[b] # NoThread => b \notin free \cup deferred \cup leaked
    /\ \A t \in Threads : \A b \in Carried(t) :
          /\ b \notin free \cup deferred \cup leaked /\ owner[b] = NoThread
          /\ \A u \in Threads \ {t} : b \notin Carried(u)
          /\ ~ (b = cand[t] /\ b = victim[t])
          /\ b \in todo[t] => b # cand[t] /\ b # victim[t]

\* The completed-buffer cache stays within every limit of
\* CudaBufferPoolLimits although inventory and admission are separated from
\* the releases that make room by unlocked regions.
CacheWithinLimits ==
    /\ Cardinality(free) <= MaxBuffers
    /\ SizeTotal(free) <= MaxBytes
    /\ BucketCount(free) <= MaxBuckets

\* Once completion is uncertain the context stays quarantined and nothing is
\* handed to cuMemFree or cuMemAlloc any more, whichever call was under way
\* when the flag was published.
QuarantineIsFinal ==
    [][poisoned = "yes" => poisoned' = "yes" /\ live' = live]_vars

\* If callers stop making calls, the ones under way come to an end: the
\* eviction loop terminates and nobody waits on anybody for ever.
CallsEnd ==
    (<>[][~ \E t \in Threads : Call(t)]_vars)
        => <>[](\A t \in Threads : pc[t] = "idle")
=============================================================================
