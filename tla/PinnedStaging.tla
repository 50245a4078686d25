---------------------------- MODULE PinnedStaging ----------------------------
(***************************************************************************)
(* Page-locked upload staging of a CUDA context, composed with the         *)
(* context-wide host-memory authority                                      *)
(* (j2k-cuda-runtime/src/memory/pinned_staging.rs and pinned_staging/**,   *)
(* the teardown in context/inner.rs, and module HostBudget).               *)
(*                                                                         *)
(* The operation gate admits one upload transaction at a time, so pc is    *)
(* the program counter of its holder.  Its calls interleave with external  *)
(* owners of the authority and with other threads that quarantine the      *)
(* context.  Steps end where the code gives up the pool's mutex, the       *)
(* authority's, or the lifecycle gate.                                     *)
(*                                                                         *)
(* A block's length is its charge pin[b]: it stays charged from before the *)
(* driver allocates it until after the driver has freed it.  Which of two  *)
(* equally long blocks is the older is abstracted.                         *)
(***************************************************************************)
EXTENDS HostBudget

CONSTANTS
    MaxCachedBuffers,             \* CudaPinnedUploadStagingPoolLimits
    MaxCachedBytes,
    NoBlock

ASSUME StagingAssumption ==
    MaxCachedBuffers \in Nat /\ MaxCachedBytes \in Nat /\ NoBlock \notin Blocks

VARIABLES
    cached, cachedBytes,          \* PinnedUploadStagingPool.buffers
    uncertain, uncertainBytes,    \* PinnedUploadStagingPool.uncertain
    slots,                        \* the capacity of uncertain
    activeBuffers, activeBytes,   \* the counters of checked-out blocks
    accounting,                   \* "ok" until accounting_poisoned is set
    lifecycle,                    \* "ok" until the context is quarantined
    pc, job, victim,              \* the holder of the operation gate
    request,
    checkouts,                    \* its live CudaPinnedUploadStagingCheckouts
    alive,                        \* what cuMemHostAlloc gave and nobody freed
    dma                           \* blocks a failed transfer may still read

ownerVars == <<registered, bytes, open, reserved, excluded, working>>
budgetVars == <<auth, ownerVars, pin, context>>
poolVars == <<cached, cachedBytes, uncertain, uncertainBytes, slots,
              activeBuffers, activeBytes, accounting>>
opVars == <<pc, job, victim, request, checkouts>>
driverVars == <<lifecycle, alive, dma>>
stagingVars == <<auth, registered, bytes, open, reserved, excluded, working,
                 pin, context, cached, cachedBytes, uncertain, uncertainBytes,
                 slots, activeBuffers, activeBytes, accounting, lifecycle, pc,
                 job, victim, request, checkouts, alive, dma>>

StagingInit ==
    /\ Init
    /\ cached = {} /\ cachedBytes = 0
    /\ uncertain = {} /\ uncertainBytes = 0 /\ slots = 0
    /\ activeBuffers = 0 /\ activeBytes = 0
    /\ accounting = "ok" /\ lifecycle = "ok"
    /\ pc = "idle" /\ job = NoBlock /\ victim = NoBlock /\ request = 0
    /\ checkouts = {} /\ alive = {} /\ dma = {}

RetainedBytes == cachedBytes + uncertainBytes + activeBytes

\* ensure_no_uncertain_release
Usable == accounting = "ok" /\ uncertain = {}

-----------------------------------------------------------------------------
(* Pool transitions under its mutex.                                       *)

\* finish_active_checkout
FinishActive(n) ==
    IF activeBuffers > 0 /\ activeBytes >= n
    THEN /\ activeBuffers' = activeBuffers - 1
         /\ activeBytes' = activeBytes - n
         /\ UNCHANGED accounting
    ELSE /\ accounting' = "poisoned"
         /\ UNCHANGED <<activeBuffers, activeBytes>>

\* Mutant: the quarantined block stays counted as active.
MutQuarantineActive(b) ==
    /\ uncertain' = uncertain \cup {b}
    /\ uncertainBytes' = uncertainBytes + pin[b]
    /\ UNCHANGED <<activeBuffers, activeBytes, accounting>>

\* try_quarantine_active_checkout; without a prepared slot the metadata may
\* fail to grow and the block is lost from the books.
QuarantineActive(b) ==
    IF /\ activeBuffers > 0 /\ activeBytes >= pin[b]
       /\ Cardinality(uncertain) < slots
    THEN /\ uncertain' = uncertain \cup {b}
         /\ uncertainBytes' = uncertainBytes + pin[b]
         /\ activeBuffers' = activeBuffers - 1
         /\ activeBytes' = activeBytes - pin[b]
         /\ UNCHANGED accounting
    ELSE /\ accounting' = "poisoned"
         /\ UNCHANGED <<uncertain, uncertainBytes, activeBuffers, activeBytes>>

\* try_retain_after_uncertain_release
RetainUncertain(b) ==
    IF Cardinality(uncertain) < slots
    THEN /\ uncertain' = uncertain \cup {b}
         /\ uncertainBytes' = uncertainBytes + pin[b]
         /\ UNCHANGED accounting
    ELSE /\ accounting' = "poisoned"
         /\ UNCHANGED <<uncertain, uncertainBytes>>

Fitting == {b \in cached : pin[b] >= request}

BestFit == {b \in Fitting : \A c \in Fitting : pin[b] <= pin[c]}

Admission(b) ==
    IF MaxCachedBuffers = 0 \/ pin[b] > MaxCachedBytes THEN "Reject"
    ELSE IF /\ Cardinality(cached) + 1 <= MaxCachedBuffers
            /\ cachedBytes + pin[b] <= MaxCachedBytes THEN "Admit"
    ELSE IF cached = {} THEN "Reject" ELSE "Evict"

LargestCached == {b \in cached : \A c \in cached : pin[c] <= pin[b]}

-----------------------------------------------------------------------------
(* Checkout                                                                *)

\* begin_pinned_upload_operation
BeginOperation ==
    /\ pc = "idle" /\ context = "live"
    /\ pc' = "open"
    /\ UNCHANGED <<budgetVars, poolVars, driverVars, job, victim, request,
                   checkouts>>

\* Dropping the guard; the borrow checker ends every checkout before it.
EndOperation ==
    /\ pc = "open" /\ checkouts = {}
    /\ pc' = "idle"
    /\ UNCHANGED <<budgetVars, poolVars, driverVars, job, victim, request,
                   checkouts>>

\* The length and the poison flag are checked before the pool is locked.
TakeCheck(n) ==
    /\ pc = "open"
    /\ n \in 1..Cap /\ lifecycle = "ok"
    /\ pc' = "take" /\ request' = n
    /\ UNCHANGED <<budgetVars, poolVars, driverVars, job, victim, checkouts>>

\* Mutant: slots for the checkouts that exist, none for an evicted block.
MutPreparedSlots == activeBuffers + 1

PreparedSlots == activeBuffers + 2

\* prepare_unwind_quarantine_slots
Prepare ==
    slots' = IF slots < PreparedSlots THEN PreparedSlots ELSE slots

\* Quarantined staging, or slots that cannot be allocated.
TakeRefused ==
    /\ pc = "take"
    /\ pc' = "open" /\ request' = 0
    /\ UNCHANGED <<budgetVars, poolVars, driverVars, job, victim, checkouts>>

TakeCached ==
    /\ pc = "take" /\ Usable
    /\ Prepare
    /\ \E b \in BestFit :
          /\ cached' = cached \ {b}
          /\ cachedBytes' = cachedBytes - pin[b]
          /\ activeBytes' = activeBytes + pin[b]
          /\ checkouts' = checkouts \cup {b}
    /\ activeBuffers' = activeBuffers + 1
    /\ pc' = "open" /\ request' = 0
    /\ UNCHANGED <<budgetVars, driverVars, uncertain, uncertainBytes,
                   accounting, job, victim>>

\* cached_plus_request_fits_host_cap
GrowthFits == cachedBytes + activeBytes + request <= Cap

\* The charge comes first, under the pool lock.  A refusal of the authority
\* ends the call; its disagreement with the pool gives the charge back.
Grow(b) ==
    /\ pc = "take" /\ Usable /\ Fitting = {} /\ pin[b] = 0
    /\ Prepare
    /\ IF ReservePinnedOk(auth, request) /\ GrowthFits
       THEN /\ auth' = ReservePinnedBytes(auth, request)
            /\ pin' = [pin EXCEPT ![b] = request]
            /\ activeBuffers' = activeBuffers + 1
            /\ activeBytes' = activeBytes + request
            /\ job' = b
            /\ pc' = "allocate"
       ELSE /\ pc' = "open"
            /\ UNCHANGED <<auth, pin, activeBuffers, activeBytes, job>>
    /\ request' = 0
    /\ UNCHANGED <<ownerVars, context, cached, cachedBytes, uncertain,
                   uncertainBytes, accounting, driverVars, victim, checkouts>>

\* cuMemHostAlloc, a stateful operation.
HostAlloc ==
    /\ pc = "allocate" /\ lifecycle = "ok"
    /\ alive' = alive \cup {job}
    /\ checkouts' = checkouts \cup {job}
    /\ job' = NoBlock
    /\ pc' = "open"
    /\ UNCHANGED <<budgetVars, poolVars, lifecycle, dma, victim, request>>

HostAllocFails ==
    /\ pc = "allocate"
    /\ lifecycle' = "quarantined"
    /\ pc' = "finish"
    /\ UNCHANGED <<budgetVars, poolVars, job, victim, request, checkouts,
                   alive, dma>>

\* rollback_active_checkout_error, and the end of a successful release.
FinishJob ==
    /\ pc = "finish"
    /\ FinishActive(pin[job])
    /\ pc' = "unpin"
    /\ UNCHANGED <<budgetVars, driverVars, cached, cachedBytes, uncertain,
                   uncertainBytes, slots, job, victim, request, checkouts>>

\* Mutant: the rollback forgets the authority.
MutUnpin ==
    /\ pc = "unpin"
    /\ job' = NoBlock /\ pc' = "open"
    /\ pin' = [pin EXCEPT ![job] = 0]
    /\ UNCHANGED <<auth, ownerVars, context, poolVars, driverVars, victim,
                   request, checkouts>>

Unpin ==
    /\ pc = "unpin"
    /\ auth' = ReleasePinnedBytes(auth, pin[job])
    /\ pin' = [pin EXCEPT ![job] = 0]
    /\ job' = NoBlock /\ pc' = "open"
    /\ UNCHANGED <<ownerVars, context, poolVars, driverVars, victim, request,
                   checkouts>>

-----------------------------------------------------------------------------
(* Upload, recycle and abandonment of a checkout                           *)

\* A transfer whose completion stays uncertain; the context is quarantined
\* before the call returns and the block is recycled all the same.
UploadFails(b) ==
    /\ pc = "open" /\ b \in checkouts /\ lifecycle = "ok"
    /\ lifecycle' = "quarantined"
    /\ dma' = dma \cup {b}
    /\ UNCHANGED <<budgetVars, poolVars, opVars, alive>>

\* recycle_inner, after the upload or without one.
Recycle(b) ==
    /\ pc = "open" /\ b \in checkouts
    /\ checkouts' = checkouts \ {b}
    /\ job' = b
    /\ pc' = "admit"
    /\ UNCHANGED <<budgetVars, poolVars, driverVars, victim, request>>

\* Drop of a checkout that was neither uploaded nor recycled.
AbandonCheckout(b) ==
    /\ pc = "open" /\ b \in checkouts
    /\ checkouts' = checkouts \ {b}
    /\ QuarantineActive(b)
    /\ UNCHANGED <<budgetVars, driverVars, cached, cachedBytes, slots, pc, job,
                   victim, request>>

Admit ==
    /\ pc = "admit" /\ Usable /\ Admission(job) = "Admit"
    /\ cached' = cached \cup {job}
    /\ cachedBytes' = cachedBytes + pin[job]
    /\ FinishActive(pin[job])
    /\ job' = NoBlock /\ pc' = "open"
    /\ UNCHANGED <<budgetVars, driverVars, uncertain, uncertainBytes, slots,
                   victim, request, checkouts>>

\* Rejected; or refused because staging is quarantined; or the cache's
\* metadata cannot grow: the block is released instead.
AdmitInstead ==
    /\ pc = "admit"
    /\ ~Usable \/ Admission(job) # "Evict"
    /\ pc' = "release"
    /\ UNCHANGED <<budgetVars, poolVars, driverVars, job, victim, request,
                   checkouts>>

\* Mutant: the victim is chosen and freed but stays in the cache.
MutEvict ==
    /\ pc = "admit" /\ Usable /\ Admission(job) = "Evict"
    /\ \E b \in LargestCached : victim' = b
    /\ pc' = "evicted"
    /\ UNCHANGED <<budgetVars, driverVars, poolVars, job, request, checkouts>>

Evict ==
    /\ pc = "admit" /\ Usable /\ Admission(job) = "Evict"
    /\ \E b \in LargestCached :
          /\ cached' = cached \ {b}
          /\ cachedBytes' = cachedBytes - pin[b]
          /\ victim' = b
    /\ pc' = "evicted"
    /\ UNCHANGED <<budgetVars, driverVars, uncertain, uncertainBytes, slots,
                   activeBuffers, activeBytes, accounting, job, request,
                   checkouts>>

-----------------------------------------------------------------------------
(* release_pinned_upload_staging                                           *)

ReleaseActive ==
    /\ pc = "release" /\ lifecycle = "ok"
    /\ alive' = alive \ {job}
    /\ pc' = "finish"
    /\ UNCHANGED <<budgetVars, poolVars, lifecycle, dma, job, victim, request,
                   checkouts>>

\* The driver or the quarantined lifecycle refuses; the charge is kept.
ReleaseActiveFails ==
    /\ pc = "release"
    /\ lifecycle' = "quarantined"
    /\ QuarantineActive(job)
    /\ job' = NoBlock /\ pc' = "open"
    /\ UNCHANGED <<budgetVars, cached, cachedBytes, slots, victim, request,
                   checkouts, alive, dma>>

\* Mutant: the lifecycle is not consulted when an evicted block is freed.
MutReleaseVictim ==
    /\ pc = "evicted"
    /\ alive' = alive \ {victim}
    /\ pc' = "unpinVictim"
    /\ UNCHANGED <<budgetVars, poolVars, lifecycle, dma, job, victim, request,
                   checkouts>>

ReleaseVictim ==
    /\ pc = "evicted" /\ lifecycle = "ok"
    /\ alive' = alive \ {victim}
    /\ pc' = "unpinVictim"
    /\ UNCHANGED <<budgetVars, poolVars, lifecycle, dma, job, victim, request,
                   checkouts>>

UnpinVictim ==
    /\ pc = "unpinVictim"
    /\ auth' = ReleasePinnedBytes(auth, pin[victim])
    /\ pin' = [pin EXCEPT ![victim] = 0]
    /\ victim' = NoBlock
    /\ pc' = "admit"
    /\ UNCHANGED <<ownerVars, context, poolVars, driverVars, job, request,
                   checkouts>>

\* The candidate goes the same way, with the release error.
ReleaseVictimFails ==
    /\ pc = "evicted"
    /\ lifecycle' = "quarantined"
    /\ RetainUncertain(victim)
    /\ victim' = NoBlock
    /\ pc' = "release"
    /\ UNCHANGED <<budgetVars, cached, cachedBytes, slots, activeBuffers,
                   activeBytes, job, request, checkouts, alive, dma>>

-----------------------------------------------------------------------------
(* Verification, teardown and the rest of the program                      *)

\* verify_host_budget poisons the authority when the totals have diverged.
VerifyHostBudget ==
    /\ pc = "open" /\ accounting = "ok"
    /\ auth' = IF auth.poisoned \/ auth.pinned = RetainedBytes
               THEN auth ELSE Poisoned(auth)
    /\ UNCHANGED <<ownerVars, pin, context, poolVars, driverVars, opVars>>

\* ContextInner::drop.  Blocks are freed one by one, or with the context.
DropContext ==
    /\ pc = "idle"
    /\ ClearPinnedAfterContextDrop
    /\ cached' = {} /\ cachedBytes' = 0
    /\ uncertain' = {} /\ uncertainBytes' = 0
    /\ alive' = {}
    /\ UNCHANGED <<slots, activeBuffers, activeBytes, accounting, lifecycle,
                   dma, opVars>>

\* Another thread's driver operation quarantines the context.
PeerQuarantines ==
    /\ lifecycle = "ok" /\ context = "live"
    /\ lifecycle' = "quarantined"
    /\ UNCHANGED <<budgetVars, poolVars, opVars, alive, dma>>

\* What sessions do with their external owners meanwhile.
OwnerStep ==
    /\ \E o \in Owners :
          \/ \E n \in Bytes :
                \/ RegisterExternalOwner(o, n)
                \/ Reconcile(o, n)
                \/ ReserveReplacement(o, n)
                \/ Allocate(o, n)
                \/ Commit(o, n)
          \/ DropReservation(o)
          \/ DropOwner(o)
    /\ UNCHANGED <<poolVars, opVars, driverVars>>

StagingNext ==
    \/ BeginOperation \/ EndOperation
    \/ \E n \in Bytes : TakeCheck(n)
    \/ TakeRefused \/ TakeCached
    \/ \E b \in Blocks : Grow(b)
    \/ HostAlloc \/ HostAllocFails \/ FinishJob \/ Unpin
    \/ \E b \in Blocks : UploadFails(b) \/ Recycle(b) \/ AbandonCheckout(b)
    \/ Admit \/ AdmitInstead \/ Evict
    \/ ReleaseActive \/ ReleaseActiveFails
    \/ ReleaseVictim \/ UnpinVictim \/ ReleaseVictimFails
    \/ VerifyHostBudget \/ DropContext \/ PeerQuarantines \/ OwnerStep

StagingSpec == StagingInit /\ [][StagingNext]_stagingVars

-----------------------------------------------------------------------------
\* Between two calls of the transaction the authority is charged for exactly
\* what the pool retains, so verify_host_budget never poisons it and the
\* "disagree about growth admission" path of take_pinned_upload_staging is
\* dead: the authority admits a growth only if the pool does.
TotalsAgree ==
    /\ pc \in {"idle", "open", "take"} => auth.pinned = RetainedBytes
    /\ pc = "take" /\ ReservePinnedOk(auth, request) => GrowthFits

\* No sequence of checkouts, evictions, refused releases and abandonments
\* loses a block from the books: the slots prepared before a checkout always
\* suffice for quarantining it and one evicted block on top.
NeverUntracked == accounting = "ok"

\* Every block the driver allocated is in exactly one place, and a block is
\* charged as long as it is allocated.
EveryBlockPlaced ==
    LET carried == {b \in Blocks : b = victim \/ b = job}
        places  == <<cached, uncertain, checkouts>> IN
    /\ alive \subseteq cached \cup uncertain \cup checkouts \cup carried
    /\ \A i, j \in 1..3 : i # j => places[i] \cap places[j] = {}
    /\ carried \cap (cached \cup uncertain \cup checkouts) = {}
    /\ \A b \in alive : pin[b] > 0

\* A block that a failed transfer may still read is neither freed on its own
\* nor handed to another upload, although it is recycled into the cache.
NoReuseUnderTransfer ==
    [][/\ dma \cap alive \subseteq alive' \/ context' = "dropped"
       /\ dma \cap (checkouts' \ checkouts) = {}]_stagingVars

\* The staging pool is a well-behaved client of the authority: whatever it
\* does is a pinned charge, a pinned release or the final clearing of
\* HostBudget, so everything shown there holds in this composition.
ImplementsBudget == Spec
=============================================================================
