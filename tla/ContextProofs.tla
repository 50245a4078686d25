--------------------------- MODULE ContextProofs ---------------------------
(***************************************************************************)
(* Proofs about one CUDA context, for every number of threads.             *)
(*                                                                         *)
(* ResourceLifecycle keeps its promises and implements SerialDriver.       *)
(*                                                                         *)
(* The safety properties of the device-buffer pool (BufferPool) hold for   *)
(* any buffers, both policies and all limits.  None of them is inductive   *)
(* alone: that a buffer in flight is not freed needs to know where it may  *)
(* be (Flights), that it may only be there needs one owner to each buffer  *)
(* (Places), and that the last release of a hold finds no work in flight   *)
(* needs the exact count of holds (Guards and HoldsExact).                 *)
(***************************************************************************)
EXTENDS ResourceLifecycle, BufferPool, ByteTotalsTheorems

-----------------------------------------------------------------------------
(* The resource lifecycle                                                  *)

Inside == {"check", "current", "operation", "failed", "sync", "unwind"}

\* The gate excludes, and its holder is known.
Exclusive ==
    /\ \A t \in Threads : pc[t] \in Inside <=> gate = t
    /\ \A t \in Threads : t \notin handles => pc[t] = "idle"

\* Past the check the flag is down until the holder itself raises it.
FlagOwned ==
    /\ \A t \in Threads : pc[t] \in {"current", "operation"} => poisoned = "no"
    /\ \A t \in Threads : pc[t] = "unwind" => poisoned = "yes"

\* Unpublished doubt belongs to a holder that is still dealing with it.
DoubtOwned ==
    /\ doubt = "yes" /\ poisoned = "no" =>
          \E t \in Threads : gate = t /\ pc[t] \in {"failed", "sync"}
    /\ gatePoisoned = "yes" => poisoned = "yes"

\* After the teardown nobody is left to change anything.
TornDown ==
    /\ teardown # "none" => handles = {}
    /\ teardown = "individual" => doubt = "no" /\ poisoned = "no"

LifecycleInv ==
    /\ TypeOK
    /\ Exclusive
    /\ FlagOwned
    /\ DoubtOwned
    /\ PublishedBeforeBlocking
    /\ TornDown

\* A context starts idle, certain and available.
LEMMA InitLifecycle == LifecycleInit => LifecycleInv
  BY LifecycleAssumption
  DEF LifecycleInit, LifecycleInv, TypeOK, Exclusive, FlagOwned, DoubtOwned,
      PublishedBeforeBlocking, TornDown, Inside, Locations, Kinds

\* Every step of run_gated, of the three operation kinds, of unwinding and of
\* the teardown preserves the invariant.
LEMMA StepLifecycle == LifecycleInv /\ [LifecycleNext]_lifecycleVars => LifecycleInv'
<1> SUFFICES ASSUME LifecycleInv, [LifecycleNext]_lifecycleVars PROVE LifecycleInv'
  OBVIOUS
<1> USE LifecycleAssumption
    DEF LifecycleInv, TypeOK, Exclusive, FlagOwned, DoubtOwned,
        PublishedBeforeBlocking, TornDown, Inside, Locations, Kinds,
        sharedVars, Goto, Leave, RetainOnError
<1>1. ASSUME NEW t \in Threads, NEW k \in Kinds, RunGated(t, k)
      PROVE  LifecycleInv'
  BY <1>1 DEF RunGated
<1>2. ASSUME NEW t \in Threads, Lock(t) PROVE LifecycleInv'
  BY <1>2 DEF Lock
<1>3. ASSUME NEW t \in Threads, LockPoisoned(t) PROVE LifecycleInv'
  BY <1>3 DEF LockPoisoned
<1>4. ASSUME NEW t \in Threads, Refuse(t) PROVE LifecycleInv'
  BY <1>4 DEF Refuse
<1>5. ASSUME NEW t \in Threads, Check(t) PROVE LifecycleInv'
  BY <1>5 DEF Check
<1>6. ASSUME NEW t \in Threads, SetCurrent(t) PROVE LifecycleInv'
  BY <1>6 DEF SetCurrent
<1>7. ASSUME NEW t \in Threads, SetCurrentFails(t) PROVE LifecycleInv'
  BY <1>7 DEF SetCurrentFails
<1>8. ASSUME NEW t \in Threads, OperationSucceeds(t) PROVE LifecycleInv'
  BY <1>8 DEF OperationSucceeds
<1>9. ASSUME NEW t \in Threads, OperationFails(t) PROVE LifecycleInv'
  BY <1>9 DEF OperationFails
<1>10. ASSUME NEW t \in Threads, CompletionUncertain(t) PROVE LifecycleInv'
  BY <1>10 DEF CompletionUncertain
<1>11. ASSUME NEW t \in Threads, QuarantineThenSync(t) PROVE LifecycleInv'
  BY <1>11 DEF QuarantineThenSync
<1>12. ASSUME NEW t \in Threads, RecoverableSync(t) PROVE LifecycleInv'
  BY <1>12 DEF RecoverableSync
<1>13. ASSUME NEW t \in Threads, SyncSucceeds(t) PROVE LifecycleInv'
  BY <1>13 DEF SyncSucceeds
<1>14. ASSUME NEW t \in Threads, SyncFails(t) PROVE LifecycleInv'
  BY <1>14 DEF SyncFails
<1>15. ASSUME NEW t \in Threads, Panic(t) PROVE LifecycleInv'
  BY <1>15 DEF Panic
<1>16. ASSUME NEW t \in Threads, Unwind(t) PROVE LifecycleInv'
  BY <1>16 DEF Unwind
<1>17. ASSUME NEW t \in Threads, NEW ind \in BOOLEAN, DropHandle(t, ind)
       PROVE  LifecycleInv'
  BY <1>17 DEF DropHandle, Dropped, CanReleaseIndividually
<1>18. CASE UNCHANGED lifecycleVars
  BY <1>18 DEF lifecycleVars
<1> QED
  BY <1>1, <1>2, <1>3, <1>4, <1>5, <1>6, <1>7, <1>8, <1>9, <1>10, <1>11,
     <1>12, <1>13, <1>14, <1>15, <1>16, <1>17, <1>18 DEF LifecycleNext

\* The inductive invariant holds in every reachable state.
THEOREM LifecycleInvariant == LifecycleSpec => []LifecycleInv
  BY InitLifecycle, StepLifecycle, PTL DEF LifecycleSpec

\* Doubt about completion never outlives the gate unpublished.
THEOREM DoubtAlwaysQuarantined == LifecycleSpec => []DoubtIsQuarantined
<1>1. LifecycleInv => DoubtIsQuarantined
  BY LifecycleAssumption
  DEF LifecycleInv, DoubtOwned, DoubtIsQuarantined, TypeOK
<1> QED
  BY <1>1, LifecycleInvariant, PTL

\* Unlocked readers see a stateful failure while its thread still blocks.
THEOREM FailuresPublishedFirst == LifecycleSpec => []PublishedBeforeBlocking
<1>1. LifecycleInv => PublishedBeforeBlocking
  BY DEF LifecycleInv
<1> QED
  BY <1>1, LifecycleInvariant, PTL

\* Individual release of resources at teardown is safe.
THEOREM TeardownIsSafe == LifecycleSpec => []TeardownSafe
<1>1. LifecycleInv => TeardownSafe
  BY LifecycleAssumption
  DEF LifecycleInv, TornDown, Exclusive, TeardownSafe, TypeOK, Inside
<1> QED
  BY <1>1, LifecycleInvariant, PTL

\* The refinement: initial states and steps of the lifecycle are initial
\* states and steps, or stutters, of the serial driver.
THEOREM LifecycleImplementsSerialDriver == LifecycleSpec => SerialisesDriver
<1>1. LifecycleInit => Driver!Init
  BY LifecycleAssumption DEF LifecycleInit, Driver!Init, Driving
<1>2. LifecycleInv /\ [LifecycleNext]_lifecycleVars => [Driver!Next]_(Driver!vars)
  <2> SUFFICES ASSUME LifecycleInv, [LifecycleNext]_lifecycleVars
               PROVE  [Driver!Next]_(Driver!vars)
    OBVIOUS
  <2> USE LifecycleAssumption
      DEF LifecycleInv, TypeOK, Exclusive, FlagOwned, DoubtOwned,
          PublishedBeforeBlocking, Inside, Locations, Kinds, sharedVars,
          Goto, Leave, Driving, Driver!vars
  <2>1. ASSUME NEW t \in Threads, NEW k \in Kinds, RunGated(t, k)
        PROVE  UNCHANGED Driver!vars
    BY <2>1 DEF RunGated
  <2>2. ASSUME NEW t \in Threads, Lock(t) PROVE UNCHANGED Driver!vars
    BY <2>2 DEF Lock
  <2>3. ASSUME NEW t \in Threads, LockPoisoned(t)
        PROVE  UNCHANGED Driver!vars
    BY <2>3 DEF LockPoisoned
  <2>4. ASSUME NEW t \in Threads, Refuse(t) PROVE UNCHANGED Driver!vars
    BY <2>4 DEF Refuse
  <2>5. ASSUME NEW t \in Threads, Check(t) PROVE UNCHANGED Driver!vars
    BY <2>5 DEF Check
  <2>6. ASSUME NEW t \in Threads, SetCurrent(t) PROVE Driver!Begin(t)
    BY <2>6 DEF SetCurrent, Driver!Begin
  <2>7. ASSUME NEW t \in Threads, SetCurrentFails(t) PROVE Driver!GiveUp
    BY <2>7 DEF SetCurrentFails, Driver!GiveUp
  <2>8. ASSUME NEW t \in Threads, OperationSucceeds(t) PROVE Driver!End
    BY <2>8 DEF OperationSucceeds, Driver!End
  <2>9. ASSUME NEW t \in Threads, OperationFails(t) PROVE Driver!Trouble
    BY <2>9 DEF OperationFails, Driver!Trouble
  <2>10. ASSUME NEW t \in Threads, CompletionUncertain(t) PROVE Driver!End
    BY <2>10 DEF CompletionUncertain, Driver!End
  <2>11. ASSUME NEW t \in Threads, QuarantineThenSync(t)
         PROVE  Driver!Trouble
    BY <2>11 DEF QuarantineThenSync, Driver!Trouble
  <2>12. ASSUME NEW t \in Threads, RecoverableSync(t)
         PROVE  UNCHANGED Driver!vars
    BY <2>12 DEF RecoverableSync
  <2>13. ASSUME NEW t \in Threads, SyncSucceeds(t) PROVE Driver!End
    BY <2>13 DEF SyncSucceeds, Driver!End
  <2>14. ASSUME NEW t \in Threads, SyncFails(t) PROVE Driver!End
    BY <2>14 DEF SyncFails, Driver!End
  <2>15. ASSUME NEW t \in Threads, Panic(t)
         PROVE  Driver!End \/ Driver!GiveUp
    BY <2>15 DEF Panic, Driver!End, Driver!GiveUp
  <2>16. ASSUME NEW t \in Threads, Unwind(t) PROVE UNCHANGED Driver!vars
    BY <2>16 DEF Unwind
  <2>17. ASSUME NEW t \in Threads, NEW ind \in BOOLEAN, DropHandle(t, ind)
         PROVE  UNCHANGED Driver!vars
    BY <2>17 DEF DropHandle, Dropped
  <2>18. CASE UNCHANGED lifecycleVars
    BY <2>18 DEF lifecycleVars
  <2> QED
    BY <2>1, <2>2, <2>3, <2>4, <2>5, <2>6, <2>7, <2>8, <2>9, <2>10, <2>11,
       <2>12, <2>13, <2>14, <2>15, <2>16, <2>17, <2>18
    DEF LifecycleNext, Driver!Next
<1> QED
  BY <1>1, <1>2, LifecycleInvariant, PTL DEF LifecycleSpec, SerialisesDriver, Driver!Spec

-----------------------------------------------------------------------------
(* The device-buffer pool                                                  *)


Labels == {"idle", "take", "alloc", "hold", "recover", "readback", "recovered",
           "finish", "sync", "recycle", "admit", "free", "freed", "next",
           "drain"}

\* The types of the variables.
Types ==
    /\ free \subseteq Buffers /\ deferred \subseteq Buffers
    /\ leaked \subseteq Buffers /\ live \subseteq Buffers
    /\ holds \in Nat /\ abandoned \in Nat /\ poisoned \in {"no", "yes"}
    /\ owner \in [Buffers -> Threads \cup {NoThread}]
    /\ guard \in [Threads -> {"none", "active", "synced"}]
    /\ inflight \in [Threads -> SUBSET Buffers]
    /\ orphaned \subseteq Buffers
    /\ pc \in [Threads -> Labels]
    /\ cand \in [Threads -> Buffers \cup {NoBuffer}]
    /\ victim \in [Threads -> Buffers \cup {NoBuffer}]
    /\ todo \in [Threads -> SUBSET Buffers]

\* What the location of a thread says of the buffers it carries.
Hands ==
    \A t \in Threads :
        /\ pc[t] \in {"recycle", "admit"} => cand[t] # NoBuffer
        /\ pc[t] \notin {"recycle", "admit", "free", "freed"} => cand[t] = NoBuffer
        /\ (pc[t] = "free") <=> (victim[t] # NoBuffer)
        /\ pc[t] \notin {"admit", "free", "freed", "next", "drain"} => todo[t] = {}

Carries(t, b) == b = cand[t] \/ b = victim[t] \/ b \in todo[t]

\* Each allocation is in one place; the same as OneOwner, buffer by buffer.
Places ==
    /\ \A b \in Buffers :
          /\ b \in live =>
                \/ b \in free \/ b \in deferred \/ b \in leaked
                \/ owner[b] # NoThread \/ \E t \in Threads : Carries(t, b)
          /\ b \in free => b \in live /\ b \notin deferred /\ b \notin leaked
          /\ b \in deferred => b \in live /\ b \notin leaked
          /\ b \in leaked => b \in live
          /\ owner[b] # NoThread =>
                b \in live /\ b \notin free /\ b \notin deferred /\ b \notin leaked
    /\ \A t \in Threads : \A b \in Buffers : Carries(t, b) =>
          /\ b \in live /\ b \notin free /\ b \notin deferred /\ b \notin leaked
          /\ owner[b] = NoThread
          /\ \A u \in Threads : u # t => ~Carries(u, b)
          /\ ~ (b = cand[t] /\ b = victim[t])
          /\ b \in todo[t] => b # cand[t] /\ b # victim[t]

\* A guard exists as long as its owner may have work in flight; one that was
\* abandoned has quarantined the context for good.
Guards ==
    /\ \A t \in Threads :
          /\ inflight[t] # {} => guard[t] = "active"
          /\ pc[t] = "recovered" => inflight[t] = {}
          /\ pc[t] = "hold" => guard[t] = "none"
          /\ pc[t] \in {"recover", "readback", "recovered", "finish", "sync"} =>
                guard[t] = "active"
    /\ orphaned # {} => abandoned > 0
    /\ abandoned > 0 => poisoned = "yes"

\* Where a buffer may be while submitted work may access it.
Sheltered(b) ==
    \/ owner[b] # NoThread \/ b \in deferred \/ b \in leaked
    \/ \E u \in Threads : pc[u] = "recycle" /\ cand[u] = b
    \/ poisoned = "yes" /\ \E u \in Threads : pc[u] = "drain" /\ b \in todo[u]

Flights ==
    /\ \A t \in Threads : \A b \in inflight[t] :
          Sheltered(b) /\ owner[b] \in {t, NoThread}
    /\ \A b \in orphaned : Sheltered(b)

\* Where every buffer is and who may still use it.
Whereabouts == Types /\ Hands /\ Places /\ Guards /\ Flights

\* The inductive invariant.
PoolInv == Whereabouts /\ HoldsExact /\ CacheWithinLimits

-----------------------------------------------------------------------------
(* Counting                                                                *)

Guarded == {t \in Threads : guard[t] # "none"}

\* The sizes of a set of buffers are tokens of the buffers.
LEMMA SizeTokens ==
    ASSUME NEW F \in SUBSET Buffers
    PROVE  /\ Tokens([b \in F |-> Size[b]], MaxSize)
                = {k \in F \X (1..MaxSize) : k[2] <= Size[k[1]]}
           /\ IsFiniteSet(Tokens([b \in F |-> Size[b]], MaxSize))
           /\ SizeTotal(F) \in Nat
<1>1. IsFiniteSet(F) /\ MaxSize \in Nat
  BY PoolAssumption, FS_Subset
<1>2. [b \in F |-> Size[b]] \in [F -> Nat]
  BY PoolAssumption
<1>3. Tokens([b \in F |-> Size[b]], MaxSize)
        = {k \in F \X (1..MaxSize) : k[2] <= Size[k[1]]}
  BY SMT DEF Tokens
<1> QED
  BY <1>1, <1>2, <1>3, TotalType DEF SizeTotal

\* A smaller cache has a smaller total.
LEMMA SizeTotalMonotone ==
    ASSUME NEW F \in SUBSET Buffers, NEW G \in SUBSET F
    PROVE  SizeTotal(G) <= SizeTotal(F)
<1> DEFINE TF == Tokens([b \in F |-> Size[b]], MaxSize)
<1> DEFINE TG == Tokens([b \in G |-> Size[b]], MaxSize)
<1>1. G \in SUBSET Buffers
  OBVIOUS
<1>2. IsFiniteSet(TF) /\ TG \subseteq TF
  BY <1>1, SizeTokens
<1> HIDE DEF TF, TG
<1>3. Cardinality(TG) <= Cardinality(TF)
  BY <1>2, FS_Subset
<1> QED
  BY <1>3 DEF SizeTotal, Total, TF, TG

\* A further buffer adds its size.
LEMMA SizeTotalAdd ==
    ASSUME NEW F \in SUBSET Buffers, NEW b \in Buffers, b \notin F
    PROVE  SizeTotal(F \cup {b}) = SizeTotal(F) + Size[b]
<1> DEFINE TF == Tokens([c \in F |-> Size[c]], MaxSize)
<1> DEFINE TG == Tokens([c \in F \cup {b} |-> Size[c]], MaxSize)
<1> DEFINE Own == {b} \X (1..Size[b])
<1>1. F \cup {b} \in SUBSET Buffers /\ Size[b] \in 1..MaxSize /\ MaxSize \in Nat
  BY PoolAssumption
<1>2. IsFiniteSet(Own) /\ Cardinality(Own) = Size[b]
  <2>1. Size[b] \in Nat
    BY <1>1
  <2> QED
    BY <2>1, OwnTokens
<1>3. /\ TF = {k \in F \X (1..MaxSize) : k[2] <= Size[k[1]]}
      /\ IsFiniteSet(TF)
      /\ TG = {k \in (F \cup {b}) \X (1..MaxSize) : k[2] <= Size[k[1]]}
  BY <1>1, SizeTokens
<1> HIDE DEF TF, TG
<1>4. TG = TF \cup Own /\ TF \cap Own = {}
  BY <1>1, <1>3, SMT
<1> HIDE DEF Own
<1>5. Cardinality(TG) = Cardinality(TF) + Cardinality(Own) - Cardinality({})
  BY <1>2, <1>3, <1>4, FS_Union
<1>6. Cardinality(TF) \in Nat
  BY <1>3, FS_CardinalityType
<1>7. Cardinality(TG) = Cardinality(TF) + Size[b]
  BY <1>1, <1>2, <1>5, <1>6, FS_EmptySet
<1> QED
  BY <1>7 DEF SizeTotal, Total, TF, TG

\* An empty list has no bytes.
LEMMA SizeTotalEmpty == SizeTotal({}) = 0
<1>1. MaxSize \in Nat /\ [b \in {} |-> Size[b]] \in [{} -> {0}]
  BY PoolAssumption
<1> QED
  BY <1>1, TotalZero DEF SizeTotal

\* The sizes of a set of buffers can be counted.
LEMMA SizesFinite ==
    ASSUME NEW F \in SUBSET Buffers
    PROVE  IsFiniteSet({Size[b] : b \in F})
<1>1. IsFiniteSet(1..MaxSize)
  BY PoolAssumption, FS_Interval, SMT
<1>2. {Size[b] : b \in F} \in SUBSET (1..MaxSize)
  BY PoolAssumption
<1> QED
  BY <1>1, <1>2, FS_Subset

\* The guards can be counted.
LEMMA GuardedFinite == IsFiniteSet(Guarded) /\ Cardinality(Guarded) \in Nat
<1>1. Guarded \in SUBSET Threads
  BY DEF Guarded
<1> QED
  BY <1>1, PoolAssumption, FS_Subset, FS_CardinalityType

\* Nothing is in flight when nobody holds a guard.
LEMMA NoHoldNoFlight ==
    ASSUME PoolInv, holds = 0
    PROVE  orphaned = {} /\ \A t \in Threads : inflight[t] = {}
<1>1. Cardinality(Guarded) = 0 /\ abandoned = 0
  BY GuardedFinite DEF PoolInv, Whereabouts, Types, HoldsExact, Guarded
<1>2. Guarded = {}
  BY <1>1, GuardedFinite, FS_EmptySet
<1> QED
  BY <1>1, <1>2 DEF PoolInv, Whereabouts, Types, Guards, Guarded

\* Nothing is in flight when the one guard left has proof of completion.
LEMMA LastHold ==
    ASSUME PoolInv, NEW t \in Threads, guard[t] = "synced", holds = 1
    PROVE  orphaned = {} /\ \A u \in Threads : inflight[u] = {}
<1>1. t \in Guarded
  BY DEF Guarded
<1>2. /\ IsFiniteSet(Guarded \ {t})
      /\ Cardinality(Guarded \ {t}) = Cardinality(Guarded) - 1
      /\ Cardinality(Guarded \ {t}) \in Nat
  BY <1>1, GuardedFinite, FS_RemoveElement, FS_CardinalityType
<1>3. Cardinality(Guarded \ {t}) = 0 /\ abandoned = 0
  BY <1>2, GuardedFinite DEF PoolInv, Whereabouts, Types, HoldsExact, Guarded
<1>4. Guarded \ {t} = {}
  BY <1>2, <1>3, FS_EmptySet
<1> QED
  BY <1>3, <1>4 DEF PoolInv, Whereabouts, Types, Guards, Guarded

-----------------------------------------------------------------------------
(* What the steps do to the counters                                       *)

\* A step that leaves the deferred list and the set of guards alone.
LEMMA HoldsKept ==
    ASSUME PoolInv, UNCHANGED <<holds, deferred, deferredBytes, abandoned>>,
           Guarded' = Guarded
    PROVE  HoldsExact'
  BY DEF PoolInv, HoldsExact, Guarded

\* An abandoned guard leaves its hold behind.
LEMMA HoldAbandoned ==
    ASSUME PoolInv, NEW t \in Threads, guard[t] = "active", Abandon(t),
           UNCHANGED lockVars
    PROVE  HoldsExact'
<1>1. t \in Guarded /\ Guarded' = Guarded \ {t}
  BY DEF PoolInv, Whereabouts, Types, Abandon, Guarded
<1>2. /\ Cardinality(Guarded \ {t}) = Cardinality(Guarded) - 1
      /\ Cardinality(Guarded) \in Nat
  BY <1>1, GuardedFinite, FS_RemoveElement
<1>3. holds = Cardinality(Guarded) + abandoned
  BY DEF PoolInv, HoldsExact, Guarded
<1>4. holds' = Cardinality(Guarded') + abandoned'
  BY <1>1, <1>2, <1>3 DEF PoolInv, Whereabouts, Types, Abandon, lockVars
<1> QED
  BY <1>4 DEF PoolInv, HoldsExact, lockVars, Guarded

\* A step that adds nothing to the cache.
LEMMA LimitsKept ==
    ASSUME PoolInv, free' \subseteq free
    PROVE  CacheWithinLimits'
<1>1. free \in SUBSET Buffers /\ IsFiniteSet(free) /\ free' \in SUBSET free
  BY PoolAssumption, FS_Subset DEF PoolInv, Whereabouts, Types
<1>2. /\ Cardinality(free') <= Cardinality(free) /\ Cardinality(free) \in Nat
      /\ Cardinality(free') \in Nat
  BY <1>1, FS_Subset, FS_CardinalityType
<1>3. /\ SizeTotal(free') <= SizeTotal(free)
      /\ SizeTotal(free) \in Nat /\ SizeTotal(free') \in Nat
  BY <1>1, SizeTokens, SizeTotalMonotone
<1>4. /\ BucketCount(free') <= BucketCount(free)
      /\ BucketCount(free) \in Nat /\ BucketCount(free') \in Nat
  <2> DEFINE Sizes(F) == {Size[b] : b \in F}
  <2>1. IsFiniteSet(Sizes(free)) /\ Sizes(free') \in SUBSET Sizes(free)
    BY <1>1, SizesFinite
  <2>2. /\ Cardinality(Sizes(free')) <= Cardinality(Sizes(free))
        /\ Cardinality(Sizes(free)) \in Nat /\ Cardinality(Sizes(free')) \in Nat
    BY <2>1, FS_Subset, FS_CardinalityType
  <2> QED
    BY <2>2 DEF BucketCount
<1> QED
  BY <1>2, <1>3, <1>4, PoolAssumption
  DEF PoolInv, CacheWithinLimits, SizeTotal, BucketCount

\* The admission test looks at exactly what the cache will hold.
LEMMA LimitsAdmit ==
    ASSUME PoolInv, NEW b \in Buffers, b \notin free, FitsNow(b),
           free' = free \cup {b}
    PROVE  CacheWithinLimits'
<1>1. free \in SUBSET Buffers /\ IsFiniteSet(free) /\ Cardinality(free) \in Nat
  BY PoolAssumption, FS_Subset, FS_CardinalityType DEF PoolInv, Whereabouts, Types
<1>2. Cardinality(free') = Cardinality(free) + 1
  BY <1>1, FS_AddElement
<1>3. SizeTotal(free') = SizeTotal(free) + Size[b]
  BY <1>1, SizeTotalAdd
<1>4. BucketCount(free') <= MaxBuckets
  <2>1. CASE Policy # "SizeBuckets"
    BY <2>1, PoolAssumption DEF BucketCount
  <2>2. CASE Policy = "SizeBuckets"
    <3> DEFINE Sizes == {Size[c] : c \in free}
    <3>1. {Size[c] : c \in free'} = Sizes \cup {Size[b]}
      OBVIOUS
    <3>2. IsFiniteSet(Sizes) /\ Cardinality(Sizes) \in Nat
      BY <1>1, SizesFinite, FS_CardinalityType
    <3>3. BucketCount(free') = Cardinality(Sizes \cup {Size[b]})
      BY <2>2, <3>1 DEF BucketCount
    <3>4. Cardinality(Sizes) + (IF AddsSizeBucket(b) THEN 1 ELSE 0) <= MaxBuckets
      BY <2>2 DEF FitsNow, BucketCount
    <3>5. AddsSizeBucket(b) <=> Size[b] \notin Sizes
      BY <2>2 DEF AddsSizeBucket
    <3> HIDE DEF Sizes
    <3>6. CASE Size[b] \in Sizes
      <4>1. Sizes \cup {Size[b]} = Sizes
        BY <3>6
      <4> QED
        BY <3>2, <3>3, <3>4, <3>5, <3>6, <4>1
    <3>7. CASE Size[b] \notin Sizes
      <4>1. Cardinality(Sizes \cup {Size[b]}) = Cardinality(Sizes) + 1
        BY <3>2, <3>7, FS_AddElement
      <4> QED
        BY <3>2, <3>3, <3>4, <3>5, <3>7, <4>1
    <3> QED
      BY <3>6, <3>7
  <2> QED
    BY <2>1, <2>2
<1>5. Cardinality(free') <= MaxBuffers /\ SizeTotal(free') <= MaxBytes
  BY <1>2, <1>3 DEF FitsNow
<1> QED
  BY <1>4, <1>5 DEF CacheWithinLimits, SizeTotal, BucketCount

-----------------------------------------------------------------------------
\* take and allocate hand a buffer out of the cache or a new one.
LEMMA TakePreserves ==
    ASSUME PoolInv, NEW t \in Threads,
           \/ \E n \in Nat : TakeCheck(t, n)
           \/ TakeCached(t)
           \/ TakeMiss(t)
           \/ Allocate(t)
           \/ AllocateFails(t)
    PROVE  PoolInv'
<1>1. ASSUME NEW n \in Nat, TakeCheck(t, n) PROVE PoolInv'
  <2>1. Whereabouts'
    <3>1. Types'
      BY PoolAssumption, <1>1 DEF PoolInv, Whereabouts, Types, Labels, Hands,
        TakeCheck, Goto, Available, lockVars, workVars
    <3>2. Hands'
      BY PoolAssumption, <1>1 DEF PoolInv, Whereabouts, Types, Labels, Hands,
        TakeCheck, Goto, Available, lockVars, workVars
    <3>3. Places'
      BY PoolAssumption, <1>1 DEF PoolInv, Whereabouts, Types, Hands, Places,
        Carries, TakeCheck, Goto, Available, lockVars, workVars
    <3>4. Guards'
      BY PoolAssumption, <1>1 DEF PoolInv, Whereabouts, Types, Hands, Guards,
        TakeCheck, Goto, Available, lockVars, workVars
    <3>5. Flights'
      BY PoolAssumption, <1>1 DEF PoolInv, Whereabouts, Types, Hands, Guards,
        Places, Carries, Flights, Sheltered, TakeCheck, Goto, Available,
        lockVars, workVars
    <3> QED
      BY <3>1, <3>2, <3>3, <3>4, <3>5 DEF Whereabouts
  <2>2. HoldsExact'
    BY <1>1, HoldsKept DEF Guarded, TakeCheck, lockVars, workVars
  <2>3. CacheWithinLimits'
    BY <1>1, LimitsKept DEF TakeCheck, lockVars
  <2> QED
    BY <2>1, <2>2, <2>3 DEF PoolInv
<1>2. ASSUME TakeCached(t) PROVE PoolInv'
  <2>1. Whereabouts'
    <3>1. Types'
      BY PoolAssumption, <1>2 DEF PoolInv, Whereabouts, Types, Labels, Hands,
        TakeCached, Returned, TakeChoice, workVars, Goto, Fitting
    <3>2. Hands'
      BY PoolAssumption, <1>2 DEF PoolInv, Whereabouts, Types, Labels, Hands,
        TakeCached, Returned, TakeChoice, workVars, Goto, Fitting
    <3>3. Places'
      BY PoolAssumption, <1>2 DEF PoolInv, Whereabouts, Types, Hands, Places,
        Carries, TakeCached, Returned, TakeChoice, workVars, Goto, Fitting
    <3>4. Guards'
      BY PoolAssumption, <1>2 DEF PoolInv, Whereabouts, Types, Guards,
        TakeCached, Returned, TakeChoice, workVars, Goto, Fitting
    <3>5. Flights'
      BY PoolAssumption, <1>2, SMTT(30) DEF PoolInv, Whereabouts, Types, Hands,
        Guards, Places, Carries, Flights, Sheltered, TakeCached, Returned,
        TakeChoice, workVars, Goto, Fitting
    <3> QED
      BY <3>1, <3>2, <3>3, <3>4, <3>5 DEF Whereabouts
  <2>2. HoldsExact'
    BY <1>2, HoldsKept DEF Guarded, TakeCached, workVars
  <2>3. CacheWithinLimits'
    BY <1>2, LimitsKept DEF TakeCached
  <2> QED
    BY <2>1, <2>2, <2>3 DEF PoolInv
<1>3. ASSUME TakeMiss(t) PROVE PoolInv'
  <2>1. Whereabouts'
    <3>1. Types'
      BY PoolAssumption, <1>3 DEF PoolInv, Whereabouts, Types, Labels, Hands,
        TakeMiss, Goto, Fitting, lockVars, workVars, localVars
    <3>2. Hands'
      BY PoolAssumption, <1>3 DEF PoolInv, Whereabouts, Types, Labels, Hands,
        TakeMiss, Goto, Fitting, lockVars, workVars, localVars
    <3>3. Places'
      BY PoolAssumption, <1>3 DEF PoolInv, Whereabouts, Types, Hands, Places,
        Carries, TakeMiss, Goto, Fitting, lockVars, workVars, localVars
    <3>4. Guards'
      BY PoolAssumption, <1>3 DEF PoolInv, Whereabouts, Types, Hands, Guards,
        TakeMiss, Goto, Fitting, lockVars, workVars, localVars
    <3>5. Flights'
      BY PoolAssumption, <1>3 DEF PoolInv, Whereabouts, Types, Hands, Guards,
        Places, Carries, Flights, Sheltered, TakeMiss, Goto, Fitting, lockVars,
        workVars, localVars
    <3> QED
      BY <3>1, <3>2, <3>3, <3>4, <3>5 DEF Whereabouts
  <2>2. HoldsExact'
    BY <1>3, HoldsKept DEF Guarded, TakeMiss, lockVars, workVars
  <2>3. CacheWithinLimits'
    BY <1>3, LimitsKept DEF TakeMiss, lockVars
  <2> QED
    BY <2>1, <2>2, <2>3 DEF PoolInv
<1>4. ASSUME Allocate(t) PROVE PoolInv'
  <2>1. Whereabouts'
    <3>1. Types'
      BY PoolAssumption, <1>4 DEF PoolInv, Whereabouts, Types, Labels, Hands,
        Allocate, Returned, Available, lockVars, workVars, Goto
    <3>2. Hands'
      BY PoolAssumption, <1>4 DEF PoolInv, Whereabouts, Types, Labels, Hands,
        Allocate, Returned, Available, lockVars, workVars, Goto
    <3>3. Places'
      BY PoolAssumption, <1>4 DEF PoolInv, Whereabouts, Types, Hands, Places,
        Carries, Allocate, Returned, Available, lockVars, workVars, Goto
    <3>4. Guards'
      BY PoolAssumption, <1>4 DEF PoolInv, Whereabouts, Types, Hands, Guards,
        Allocate, Returned, Available, lockVars, workVars, Goto
    <3>5. Flights'
      BY PoolAssumption, <1>4 DEF PoolInv, Whereabouts, Types, Hands, Guards,
        Places, Carries, Flights, Sheltered, Allocate, Returned, Available,
        lockVars, workVars, Goto
    <3> QED
      BY <3>1, <3>2, <3>3, <3>4, <3>5 DEF Whereabouts
  <2>2. HoldsExact'
    BY <1>4, HoldsKept DEF Guarded, Allocate, lockVars, workVars
  <2>3. CacheWithinLimits'
    BY <1>4, LimitsKept DEF Allocate, lockVars
  <2> QED
    BY <2>1, <2>2, <2>3 DEF PoolInv
<1>5. ASSUME AllocateFails(t) PROVE PoolInv'
  <2>1. Whereabouts'
    <3>1. Types'
      BY PoolAssumption, <1>5 DEF PoolInv, Whereabouts, Types, Labels, Hands,
        AllocateFails, Returned, lockVars, workVars, Goto
    <3>2. Hands'
      BY PoolAssumption, <1>5 DEF PoolInv, Whereabouts, Types, Labels, Hands,
        AllocateFails, Returned, lockVars, workVars, Goto
    <3>3. Places'
      BY PoolAssumption, <1>5 DEF PoolInv, Whereabouts, Types, Hands, Places,
        Carries, AllocateFails, Returned, lockVars, workVars, Goto
    <3>4. Guards'
      BY PoolAssumption, <1>5 DEF PoolInv, Whereabouts, Types, Hands, Guards,
        AllocateFails, Returned, lockVars, workVars, Goto
    <3>5. Flights'
      BY PoolAssumption, <1>5, SMTT(30) DEF PoolInv, Whereabouts, Types, Hands,
        Guards, Places, Carries, Flights, Sheltered, AllocateFails, Returned,
        lockVars, workVars, Goto
    <3> QED
      BY <3>1, <3>2, <3>3, <3>4, <3>5 DEF Whereabouts
  <2>2. HoldsExact'
    BY <1>5, HoldsKept DEF Guarded, AllocateFails, lockVars, workVars
  <2>3. CacheWithinLimits'
    BY <1>5, LimitsKept DEF AllocateFails, lockVars
  <2> QED
    BY <2>1, <2>2, <2>3 DEF PoolInv
<1> QED
  BY <1>1, <1>2, <1>3, <1>4, <1>5

\* defer_reuse, launches and readbacks: work is put in flight only on checkouts
\* of a thread with a guard.
LEMMA LaunchPreserves ==
    ASSUME PoolInv, NEW t \in Threads,
           \/ DeferCheck(t)
           \/ AcquireReuseHold(t)
           \/ \E S \in SUBSET Buffers : Launch(t, S)
           \/ \E S \in SUBSET Buffers : LaunchFails(t, S)
           \/ Readback(t)
           \/ ReadbackFails(t)
    PROVE  PoolInv'
<1>1. ASSUME DeferCheck(t) PROVE PoolInv'
  <2>1. Whereabouts'
    <3>1. Types'
      BY PoolAssumption, <1>1 DEF PoolInv, Whereabouts, Types, Labels, Hands,
        DeferCheck, Goto, Available, lockVars, workVars, localVars
    <3>2. Hands'
      BY PoolAssumption, <1>1 DEF PoolInv, Whereabouts, Types, Labels, Hands,
        DeferCheck, Goto, Available, lockVars, workVars, localVars
    <3>3. Places'
      BY PoolAssumption, <1>1 DEF PoolInv, Whereabouts, Types, Hands, Places,
        Carries, DeferCheck, Goto, Available, lockVars, workVars, localVars
    <3>4. Guards'
      BY PoolAssumption, <1>1 DEF PoolInv, Whereabouts, Types, Hands, Guards,
        DeferCheck, Goto, Available, lockVars, workVars, localVars
    <3>5. Flights'
      BY PoolAssumption, <1>1 DEF PoolInv, Whereabouts, Types, Hands, Guards,
        Places, Carries, Flights, Sheltered, DeferCheck, Goto, Available,
        lockVars, workVars, localVars
    <3> QED
      BY <3>1, <3>2, <3>3, <3>4, <3>5 DEF Whereabouts
  <2>2. HoldsExact'
    BY <1>1, HoldsKept DEF Guarded, DeferCheck, lockVars, workVars
  <2>3. CacheWithinLimits'
    BY <1>1, LimitsKept DEF DeferCheck, lockVars
  <2> QED
    BY <2>1, <2>2, <2>3 DEF PoolInv
<1>2. ASSUME AcquireReuseHold(t) PROVE PoolInv'
  <2>1. Whereabouts'
    <3>1. Types'
      BY PoolAssumption, <1>2 DEF PoolInv, Whereabouts, Types, Labels, Hands,
        AcquireReuseHold, Goto, localVars
    <3>2. Hands'
      BY PoolAssumption, <1>2 DEF PoolInv, Whereabouts, Types, Labels, Hands,
        AcquireReuseHold, Goto, localVars
    <3>3. Places'
      BY PoolAssumption, <1>2 DEF PoolInv, Whereabouts, Types, Hands, Places,
        Carries, AcquireReuseHold, Goto, localVars
    <3>4. Guards'
      BY PoolAssumption, <1>2 DEF PoolInv, Whereabouts, Types, Hands, Guards,
        AcquireReuseHold, Goto, localVars
    <3>5. Flights'
      BY PoolAssumption, <1>2 DEF PoolInv, Whereabouts, Types, Hands, Guards,
        Places, Carries, Flights, Sheltered, AcquireReuseHold, Goto, localVars
    <3> QED
      BY <3>1, <3>2, <3>3, <3>4, <3>5 DEF Whereabouts
  <2>2. HoldsExact'
    <3>1. t \notin Guarded /\ Guarded' = Guarded \cup {t}
      BY <1>2 DEF PoolInv, Whereabouts, Types, Guards, Guarded, AcquireReuseHold
    <3>2. Cardinality(Guarded') = Cardinality(Guarded) + 1
      BY <3>1, GuardedFinite, FS_AddElement
    <3>3. holds' = Cardinality(Guarded') + abandoned' /\ holds' # 0
      BY <1>2, <3>2, GuardedFinite
      DEF PoolInv, Whereabouts, Types, HoldsExact, Guarded, AcquireReuseHold
    <3> QED
      BY <1>2, <3>3 DEF PoolInv, HoldsExact, Guarded, AcquireReuseHold
  <2>3. CacheWithinLimits'
    BY <1>2, LimitsKept DEF AcquireReuseHold
  <2> QED
    BY <2>1, <2>2, <2>3 DEF PoolInv
<1>3. ASSUME NEW S \in SUBSET Buffers, Launch(t, S) PROVE PoolInv'
  <2>1. Whereabouts'
    <3>1. Types'
      BY PoolAssumption, <1>3 DEF PoolInv, Whereabouts, Types, Labels, Hands,
        Launch, Available, Owned, lockVars, localVars
    <3>2. Hands'
      BY PoolAssumption, <1>3 DEF PoolInv, Whereabouts, Types, Labels, Hands,
        Launch, Available, Owned, lockVars, localVars
    <3>3. Places'
      BY PoolAssumption, <1>3 DEF PoolInv, Whereabouts, Types, Hands, Places,
        Carries, Launch, Available, Owned, lockVars, localVars
    <3>4. Guards'
      BY PoolAssumption, <1>3 DEF PoolInv, Whereabouts, Types, Hands, Guards,
        Launch, Available, Owned, lockVars, localVars
    <3>5. Flights'
      BY PoolAssumption, <1>3 DEF PoolInv, Whereabouts, Types, Hands, Guards,
        Places, Carries, Flights, Sheltered, Launch, Available, Owned,
        lockVars, localVars
    <3> QED
      BY <3>1, <3>2, <3>3, <3>4, <3>5 DEF Whereabouts
  <2>2. HoldsExact'
    BY <1>3, HoldsKept DEF Guarded, Launch, lockVars
  <2>3. CacheWithinLimits'
    BY <1>3, LimitsKept DEF Launch, lockVars
  <2> QED
    BY <2>1, <2>2, <2>3 DEF PoolInv
<1>4. ASSUME NEW S \in SUBSET Buffers, LaunchFails(t, S) PROVE PoolInv'
  <2>1. Whereabouts'
    <3>1. Types'
      BY PoolAssumption, <1>4 DEF PoolInv, Whereabouts, Types, Labels, Hands,
        LaunchFails, Goto, Available, Owned, lockVars, localVars
    <3>2. Hands'
      BY PoolAssumption, <1>4 DEF PoolInv, Whereabouts, Types, Labels, Hands,
        LaunchFails, Goto, Available, Owned, lockVars, localVars
    <3>3. Places'
      BY PoolAssumption, <1>4 DEF PoolInv, Whereabouts, Types, Hands, Places,
        Carries, LaunchFails, Goto, Available, Owned, lockVars, localVars
    <3>4. Guards'
      BY PoolAssumption, <1>4 DEF PoolInv, Whereabouts, Types, Hands, Guards,
        LaunchFails, Goto, Available, Owned, lockVars, localVars
    <3>5. Flights'
      BY PoolAssumption, <1>4 DEF PoolInv, Whereabouts, Types, Hands, Guards,
        Places, Carries, Flights, Sheltered, LaunchFails, Goto, Available,
        Owned, lockVars, localVars
    <3> QED
      BY <3>1, <3>2, <3>3, <3>4, <3>5 DEF Whereabouts
  <2>2. HoldsExact'
    BY <1>4, HoldsKept DEF Guarded, LaunchFails, lockVars
  <2>3. CacheWithinLimits'
    BY <1>4, LimitsKept DEF LaunchFails, lockVars
  <2> QED
    BY <2>1, <2>2, <2>3 DEF PoolInv
<1>5. ASSUME Readback(t) PROVE PoolInv'
  <2>1. Whereabouts'
    <3>1. Types'
      BY PoolAssumption, <1>5 DEF PoolInv, Whereabouts, Types, Labels, Hands,
        Readback, Available, AllComplete, lockVars, localVars
    <3>2. Hands'
      BY PoolAssumption, <1>5 DEF PoolInv, Whereabouts, Types, Labels, Hands,
        Readback, Available, AllComplete, lockVars, localVars
    <3>3. Places'
      BY PoolAssumption, <1>5 DEF PoolInv, Whereabouts, Types, Hands, Places,
        Carries, Readback, Available, AllComplete, lockVars, localVars
    <3>4. Guards'
      BY PoolAssumption, <1>5 DEF PoolInv, Whereabouts, Types, Hands, Guards,
        Readback, Available, AllComplete, lockVars, localVars
    <3>5. Flights'
      BY PoolAssumption, <1>5 DEF PoolInv, Whereabouts, Types, Hands, Guards,
        Places, Carries, Flights, Sheltered, Readback, Available, AllComplete,
        lockVars, localVars
    <3> QED
      BY <3>1, <3>2, <3>3, <3>4, <3>5 DEF Whereabouts
  <2>2. HoldsExact'
    BY <1>5, HoldsKept DEF PoolInv, Whereabouts, Types, Guards, Guarded,
      Readback, lockVars
  <2>3. CacheWithinLimits'
    BY <1>5, LimitsKept DEF Readback, lockVars
  <2> QED
    BY <2>1, <2>2, <2>3 DEF PoolInv
<1>6. ASSUME ReadbackFails(t) PROVE PoolInv'
  <2>1. Whereabouts'
    <3>1. Types'
      BY PoolAssumption, <1>6 DEF PoolInv, Whereabouts, Types, Labels, Hands,
        ReadbackFails, Goto, Available, lockVars, workVars, localVars
    <3>2. Hands'
      BY PoolAssumption, <1>6 DEF PoolInv, Whereabouts, Types, Labels, Hands,
        ReadbackFails, Goto, Available, lockVars, workVars, localVars
    <3>3. Places'
      BY PoolAssumption, <1>6 DEF PoolInv, Whereabouts, Types, Hands, Places,
        Carries, ReadbackFails, Goto, Available, lockVars, workVars, localVars
    <3>4. Guards'
      BY PoolAssumption, <1>6 DEF PoolInv, Whereabouts, Types, Hands, Guards,
        ReadbackFails, Goto, Available, lockVars, workVars, localVars
    <3>5. Flights'
      BY PoolAssumption, <1>6 DEF PoolInv, Whereabouts, Types, Hands, Guards,
        Places, Carries, Flights, Sheltered, ReadbackFails, Goto, Available,
        lockVars, workVars, localVars
    <3> QED
      BY <3>1, <3>2, <3>3, <3>4, <3>5 DEF Whereabouts
  <2>2. HoldsExact'
    BY <1>6, HoldsKept DEF Guarded, ReadbackFails, lockVars, workVars
  <2>3. CacheWithinLimits'
    BY <1>6, LimitsKept DEF ReadbackFails, lockVars
  <2> QED
    BY <2>1, <2>2, <2>3 DEF PoolInv
<1> QED
  BY <1>1, <1>2, <1>3, <1>4, <1>5, <1>6

\* Recovery and synchronization: a guard is synced with nothing in flight, or
\* abandoned with its hold.
LEMMA FinishPreserves ==
    ASSUME PoolInv, NEW t \in Threads,
           \/ RecoverySucceeds(t)
           \/ RecoveryFails(t)
           \/ AfterRecovery(t)
           \/ Finish(t)
           \/ Synchronize(t)
           \/ SynchronizeSucceeds(t)
           \/ SynchronizeFails(t)
           \/ SynchronizeRefused(t)
    PROVE  PoolInv'
<1>1. ASSUME RecoverySucceeds(t) PROVE PoolInv'
  <2>1. Whereabouts'
    <3>1. Types'
      BY PoolAssumption, <1>1 DEF PoolInv, Whereabouts, Types, Labels, Hands,
        RecoverySucceeds, Goto, AllComplete, lockVars, localVars
    <3>2. Hands'
      BY PoolAssumption, <1>1 DEF PoolInv, Whereabouts, Types, Labels, Hands,
        RecoverySucceeds, Goto, AllComplete, lockVars, localVars
    <3>3. Places'
      BY PoolAssumption, <1>1 DEF PoolInv, Whereabouts, Types, Hands, Places,
        Carries, RecoverySucceeds, Goto, AllComplete, lockVars, localVars
    <3>4. Guards'
      BY PoolAssumption, <1>1 DEF PoolInv, Whereabouts, Types, Hands, Guards,
        RecoverySucceeds, Goto, AllComplete, lockVars, localVars
    <3>5. Flights'
      BY PoolAssumption, <1>1 DEF PoolInv, Whereabouts, Types, Hands, Guards,
        Places, Carries, Flights, Sheltered, RecoverySucceeds, Goto,
        AllComplete, lockVars, localVars
    <3> QED
      BY <3>1, <3>2, <3>3, <3>4, <3>5 DEF Whereabouts
  <2>2. HoldsExact'
    BY <1>1, HoldsKept DEF Guarded, RecoverySucceeds, lockVars
  <2>3. CacheWithinLimits'
    BY <1>1, LimitsKept DEF RecoverySucceeds, lockVars
  <2> QED
    BY <2>1, <2>2, <2>3 DEF PoolInv
<1>2. ASSUME RecoveryFails(t) PROVE PoolInv'
  <2>1. Whereabouts'
    <3>1. Types'
      BY PoolAssumption, <1>2 DEF PoolInv, Whereabouts, Types, Labels, Hands,
        RecoveryFails, Goto, Abandon, lockVars, localVars
    <3>2. Hands'
      BY PoolAssumption, <1>2 DEF PoolInv, Whereabouts, Types, Labels, Hands,
        RecoveryFails, Goto, Abandon, lockVars, localVars
    <3>3. Places'
      BY PoolAssumption, <1>2 DEF PoolInv, Whereabouts, Types, Hands, Places,
        Carries, RecoveryFails, Goto, Abandon, lockVars, localVars
    <3>4. Guards'
      BY PoolAssumption, <1>2 DEF PoolInv, Whereabouts, Types, Hands, Guards,
        RecoveryFails, Goto, Abandon, lockVars, localVars
    <3>5. Flights'
      BY PoolAssumption, <1>2 DEF PoolInv, Whereabouts, Types, Hands, Guards,
        Places, Carries, Flights, Sheltered, RecoveryFails, Goto, Abandon,
        lockVars, localVars
    <3> QED
      BY <3>1, <3>2, <3>3, <3>4, <3>5 DEF Whereabouts
  <2>2. HoldsExact'
    BY <1>2, HoldAbandoned DEF PoolInv, Whereabouts, Guards, RecoveryFails
  <2>3. CacheWithinLimits'
    BY <1>2, LimitsKept DEF RecoveryFails, lockVars
  <2> QED
    BY <2>1, <2>2, <2>3 DEF PoolInv
<1>3. ASSUME AfterRecovery(t) PROVE PoolInv'
  <2>1. Whereabouts'
    <3>0. ~Available => poisoned = "yes"
      BY DEF PoolInv, Whereabouts, Types, Available
    <3>1. Types'
      BY PoolAssumption, <1>3 DEF PoolInv, Whereabouts, Types, Labels, Hands,
        AfterRecovery, Goto, Available, Abandon, lockVars, localVars
    <3>2. Hands'
      BY PoolAssumption, <1>3 DEF PoolInv, Whereabouts, Types, Labels, Hands,
        AfterRecovery, Goto, Available, Abandon, lockVars, localVars
    <3>3. Places'
      BY PoolAssumption, <1>3 DEF PoolInv, Whereabouts, Types, Hands, Places,
        Carries, AfterRecovery, Goto, Available, Abandon, lockVars, localVars
    <3>4. Guards'
      <4>1. CASE Available
        BY <1>3, <4>1
        DEF PoolInv, Whereabouts, Types, Guards, AfterRecovery, Goto, Available,
            lockVars
      <4>2. CASE ~Available
        BY <1>3, <3>0, <4>2
        DEF PoolInv, Whereabouts, Types, Guards, AfterRecovery, Goto, Abandon,
            lockVars
      <4> QED
        BY <4>1, <4>2
    <3>5. Flights'
      BY PoolAssumption, <1>3, SMTT(30) DEF PoolInv, Whereabouts, Types, Hands,
        Guards, Places, Carries, Flights, Sheltered, AfterRecovery, Goto,
        Available, Abandon, lockVars, localVars
    <3> QED
      BY <3>1, <3>2, <3>3, <3>4, <3>5 DEF Whereabouts
  <2>2. HoldsExact'
    <3>1. CASE Available
      BY <1>3, <3>1, HoldsKept
      DEF PoolInv, Whereabouts, Types, Guards, Guarded, AfterRecovery, lockVars
    <3>2. CASE ~Available
      BY <1>3, <3>2, HoldAbandoned DEF PoolInv, Whereabouts, Guards, AfterRecovery
    <3> QED
      BY <3>1, <3>2
  <2>3. CacheWithinLimits'
    BY <1>3, LimitsKept DEF AfterRecovery, lockVars
  <2> QED
    BY <2>1, <2>2, <2>3 DEF PoolInv
<1>4. ASSUME Finish(t) PROVE PoolInv'
  <2>1. Whereabouts'
    <3>1. Types'
      BY PoolAssumption, <1>4 DEF PoolInv, Whereabouts, Types, Labels, Hands,
        Finish, Goto, lockVars, workVars, localVars
    <3>2. Hands'
      BY PoolAssumption, <1>4 DEF PoolInv, Whereabouts, Types, Labels, Hands,
        Finish, Goto, lockVars, workVars, localVars
    <3>3. Places'
      BY PoolAssumption, <1>4 DEF PoolInv, Whereabouts, Types, Hands, Places,
        Carries, Finish, Goto, lockVars, workVars, localVars
    <3>4. Guards'
      BY PoolAssumption, <1>4 DEF PoolInv, Whereabouts, Types, Hands, Guards,
        Finish, Goto, lockVars, workVars, localVars
    <3>5. Flights'
      BY PoolAssumption, <1>4 DEF PoolInv, Whereabouts, Types, Hands, Guards,
        Places, Carries, Flights, Sheltered, Finish, Goto, lockVars, workVars,
        localVars
    <3> QED
      BY <3>1, <3>2, <3>3, <3>4, <3>5 DEF Whereabouts
  <2>2. HoldsExact'
    BY <1>4, HoldsKept DEF Guarded, Finish, lockVars, workVars
  <2>3. CacheWithinLimits'
    BY <1>4, LimitsKept DEF Finish, lockVars
  <2> QED
    BY <2>1, <2>2, <2>3 DEF PoolInv
<1>5. ASSUME Synchronize(t) PROVE PoolInv'
  <2>1. Whereabouts'
    <3>1. Types'
      BY PoolAssumption, <1>5 DEF PoolInv, Whereabouts, Types, Labels, Hands,
        Synchronize, Goto, Available, lockVars, workVars, localVars
    <3>2. Hands'
      BY PoolAssumption, <1>5 DEF PoolInv, Whereabouts, Types, Labels, Hands,
        Synchronize, Goto, Available, lockVars, workVars, localVars
    <3>3. Places'
      BY PoolAssumption, <1>5 DEF PoolInv, Whereabouts, Types, Hands, Places,
        Carries, Synchronize, Goto, Available, lockVars, workVars, localVars
    <3>4. Guards'
      BY PoolAssumption, <1>5 DEF PoolInv, Whereabouts, Types, Hands, Guards,
        Synchronize, Goto, Available, lockVars, workVars, localVars
    <3>5. Flights'
      BY PoolAssumption, <1>5 DEF PoolInv, Whereabouts, Types, Hands, Guards,
        Places, Carries, Flights, Sheltered, Synchronize, Goto, Available,
        lockVars, workVars, localVars
    <3> QED
      BY <3>1, <3>2, <3>3, <3>4, <3>5 DEF Whereabouts
  <2>2. HoldsExact'
    BY <1>5, HoldsKept DEF Guarded, Synchronize, lockVars, workVars
  <2>3. CacheWithinLimits'
    BY <1>5, LimitsKept DEF Synchronize, lockVars
  <2> QED
    BY <2>1, <2>2, <2>3 DEF PoolInv
<1>6. ASSUME SynchronizeSucceeds(t) PROVE PoolInv'
  <2>1. Whereabouts'
    <3>1. Types'
      BY PoolAssumption, <1>6 DEF PoolInv, Whereabouts, Types, Labels, Hands,
        SynchronizeSucceeds, Goto, AllComplete, lockVars, localVars
    <3>2. Hands'
      BY PoolAssumption, <1>6 DEF PoolInv, Whereabouts, Types, Labels, Hands,
        SynchronizeSucceeds, Goto, AllComplete, lockVars, localVars
    <3>3. Places'
      BY PoolAssumption, <1>6 DEF PoolInv, Whereabouts, Types, Hands, Places,
        Carries, SynchronizeSucceeds, Goto, AllComplete, lockVars, localVars
    <3>4. Guards'
      BY PoolAssumption, <1>6 DEF PoolInv, Whereabouts, Types, Hands, Guards,
        SynchronizeSucceeds, Goto, AllComplete, lockVars, localVars
    <3>5. Flights'
      BY PoolAssumption, <1>6 DEF PoolInv, Whereabouts, Types, Hands, Guards,
        Places, Carries, Flights, Sheltered, SynchronizeSucceeds, Goto,
        AllComplete, lockVars, localVars
    <3> QED
      BY <3>1, <3>2, <3>3, <3>4, <3>5 DEF Whereabouts
  <2>2. HoldsExact'
    BY <1>6, HoldsKept DEF PoolInv, Whereabouts, Types, Guards, Guarded,
      SynchronizeSucceeds, lockVars
  <2>3. CacheWithinLimits'
    BY <1>6, LimitsKept DEF SynchronizeSucceeds, lockVars
  <2> QED
    BY <2>1, <2>2, <2>3 DEF PoolInv
<1>7. ASSUME SynchronizeFails(t) PROVE PoolInv'
  <2>1. Whereabouts'
    <3>1. Types'
      BY PoolAssumption, <1>7 DEF PoolInv, Whereabouts, Types, Labels, Hands,
        SynchronizeFails, Goto, Abandon, lockVars, localVars
    <3>2. Hands'
      BY PoolAssumption, <1>7 DEF PoolInv, Whereabouts, Types, Labels, Hands,
        SynchronizeFails, Goto, Abandon, lockVars, localVars
    <3>3. Places'
      BY PoolAssumption, <1>7 DEF PoolInv, Whereabouts, Types, Hands, Places,
        Carries, SynchronizeFails, Goto, Abandon, lockVars, localVars
    <3>4. Guards'
      BY PoolAssumption, <1>7 DEF PoolInv, Whereabouts, Types, Hands, Guards,
        SynchronizeFails, Goto, Abandon, lockVars, localVars
    <3>5. Flights'
      BY PoolAssumption, <1>7 DEF PoolInv, Whereabouts, Types, Hands, Guards,
        Places, Carries, Flights, Sheltered, SynchronizeFails, Goto, Abandon,
        lockVars, localVars
    <3> QED
      BY <3>1, <3>2, <3>3, <3>4, <3>5 DEF Whereabouts
  <2>2. HoldsExact'
    BY <1>7, HoldAbandoned DEF PoolInv, Whereabouts, Guards, SynchronizeFails
  <2>3. CacheWithinLimits'
    BY <1>7, LimitsKept DEF SynchronizeFails, lockVars
  <2> QED
    BY <2>1, <2>2, <2>3 DEF PoolInv
<1>8. ASSUME SynchronizeRefused(t) PROVE PoolInv'
  <2>1. Whereabouts'
    <3>0. ~Available => poisoned = "yes"
      BY DEF PoolInv, Whereabouts, Types, Available
    <3>1. Types'
      BY PoolAssumption, <1>8, <3>0 DEF PoolInv, Whereabouts, Types, Labels,
        Hands, SynchronizeRefused, Goto, Available, Abandon, lockVars,
        localVars
    <3>2. Hands'
      BY PoolAssumption, <1>8, <3>0 DEF PoolInv, Whereabouts, Types, Labels,
        Hands, SynchronizeRefused, Goto, Available, Abandon, lockVars,
        localVars
    <3>3. Places'
      BY PoolAssumption, <1>8, <3>0 DEF PoolInv, Whereabouts, Types, Hands,
        Places, Carries, SynchronizeRefused, Goto, Available, Abandon,
        lockVars, localVars
    <3>4. Guards'
      BY PoolAssumption, <1>8, <3>0 DEF PoolInv, Whereabouts, Types, Guards,
        SynchronizeRefused, Goto, Available, Abandon, lockVars, localVars
    <3>5. Flights'
      BY PoolAssumption, <1>8, <3>0 DEF PoolInv, Whereabouts, Types, Hands,
        Guards, Places, Carries, Flights, Sheltered, SynchronizeRefused, Goto,
        Available, Abandon, lockVars, localVars
    <3> QED
      BY <3>1, <3>2, <3>3, <3>4, <3>5 DEF Whereabouts
  <2>2. HoldsExact'
    BY <1>8, HoldAbandoned DEF PoolInv, Whereabouts, Guards,
      SynchronizeRefused
  <2>3. CacheWithinLimits'
    BY <1>8, LimitsKept DEF SynchronizeRefused, lockVars
  <2> QED
    BY <2>1, <2>2, <2>3 DEF PoolInv
<1> QED
  BY <1>1, <1>2, <1>3, <1>4, <1>5, <1>6, <1>7, <1>8

\* release_reuse_hold: the last hold finds no work in flight on what it hands out.
LEMMA ReleasePreserves ==
    ASSUME PoolInv, NEW t \in Threads,
           Release(t)
    PROVE  PoolInv'
<1>1. ASSUME Release(t) PROVE PoolInv'
  <2>1. Whereabouts'
    <3>0. holds = 1 => orphaned = {} /\ \A u \in Threads : inflight[u] = {}
      BY <1>1, LastHold DEF Release
    <3>a. holds >= 1
      <4>1. t \in Guarded
        BY <1>1 DEF Guarded, Release
      <4>2. Cardinality(Guarded) # 0
        BY <4>1, GuardedFinite, FS_EmptySet
      <4> QED
        BY <4>2, GuardedFinite DEF PoolInv, Whereabouts, Types, HoldsExact, Guarded
    <3>1. Types'
      <4>1. todo' \in [Threads -> SUBSET Buffers] /\ pc' \in [Threads -> Labels]
        BY <1>1 DEF PoolInv, Whereabouts, Types, Labels, Release, Goto
      <4>2. holds' \in Nat
        BY <1>1, <3>a DEF PoolInv, Whereabouts, Types, Release
      <4> QED
        BY <1>1, <4>1, <4>2 DEF PoolInv, Whereabouts, Types, Release
    <3>2. Hands'
      BY PoolAssumption, <1>1, <3>0 DEF PoolInv, Whereabouts, Types, Labels,
        Hands, Release, Goto
    <3>3. Places'
      BY PoolAssumption, <1>1, <3>0 DEF PoolInv, Whereabouts, Types, Hands,
        Places, Carries, Release, Goto
    <3>4. Guards'
      BY PoolAssumption, <1>1, <3>0 DEF PoolInv, Whereabouts, Types, Guards,
        Release, Goto
    <3>5. Flights'
      BY PoolAssumption, <1>1, <3>0 DEF PoolInv, Whereabouts, Types, Hands,
        Guards, Places, Carries, Flights, Sheltered, Release, Goto
    <3> QED
      BY <3>1, <3>2, <3>3, <3>4, <3>5 DEF Whereabouts
  <2>2. HoldsExact'
    <3>1. t \in Guarded /\ Guarded' = Guarded \ {t}
      BY <1>1 DEF PoolInv, Whereabouts, Types, Guarded, Release
    <3>2. /\ Cardinality(Guarded') = Cardinality(Guarded) - 1
          /\ Cardinality(Guarded') \in Nat
      BY <3>1, GuardedFinite, FS_RemoveElement, FS_CardinalityType
    <3>3. /\ holds = Cardinality(Guarded) + abandoned
          /\ holds' = holds - 1 /\ abandoned' = abandoned
      BY <1>1 DEF PoolInv, HoldsExact, Guarded, Release
    <3>4. holds' = Cardinality(Guarded') + abandoned' /\ (holds # 1 => holds' # 0)
      BY <3>2, <3>3, GuardedFinite DEF PoolInv, Whereabouts, Types
    <3>5. deferredBytes' = SizeTotal(deferred') /\ (holds' = 0 => deferred' = {})
      BY <1>1, <3>4, SizeTotalEmpty DEF PoolInv, HoldsExact, Release
    <3> QED
      BY <3>4, <3>5 DEF HoldsExact, Guarded, SizeTotal
  <2>3. CacheWithinLimits'
    BY <1>1, LimitsKept DEF Release
  <2> QED
    BY <2>1, <2>2, <2>3 DEF PoolInv
<1> QED
  BY <1>1

\* recycle_buffer and the drop of a detached buffer: a buffer in flight is
\* deferred, forgotten or, after a quarantine, kept from the driver.
LEMMA RecyclePreserves ==
    ASSUME PoolInv, NEW t \in Threads,
           \/ \E b \in Buffers : RecycleCheck(t, b)
           \/ RecycleDeferred(t)
           \/ RecycleForgotten(t)
           \/ RecycleCompleted(t)
           \/ \E b \in Buffers : DropDetached(t, b)
    PROVE  PoolInv'
<1>1. ASSUME NEW b \in Buffers, RecycleCheck(t, b) PROVE PoolInv'
  <2>1. Whereabouts'
    <3>1. Types'
      BY PoolAssumption, <1>1 DEF PoolInv, Whereabouts, Types, Labels, Hands,
        RecycleCheck, Goto, Available, lockVars, workVars
    <3>2. Hands'
      BY PoolAssumption, <1>1 DEF PoolInv, Whereabouts, Types, Labels, Hands,
        RecycleCheck, Goto, Available, lockVars, workVars
    <3>3. Places'
      BY PoolAssumption, <1>1, SMTT(30) DEF PoolInv, Whereabouts, Types, Hands,
        Places, Carries, RecycleCheck, Goto, Available, lockVars, workVars
    <3>4. Guards'
      BY PoolAssumption, <1>1 DEF PoolInv, Whereabouts, Types, Guards,
        RecycleCheck, Goto, Available, lockVars, workVars
    <3>5. Flights'
      <4>1. CASE Available
        BY <1>1, <4>1
        DEF PoolInv, Whereabouts, Types, Hands, Places, Carries, Flights,
            Sheltered, RecycleCheck, Goto, lockVars, workVars
      <4>2. CASE ~Available
        <5>1. poisoned = "yes"
          BY <4>2 DEF PoolInv, Whereabouts, Types, Available
        <5> QED
          BY <1>1, <4>2, <5>1
          DEF PoolInv, Whereabouts, Types, Hands, Places, Carries, Flights,
              Sheltered, RecycleCheck, Goto, lockVars, workVars
      <4> QED
        BY <4>1, <4>2
    <3> QED
      BY <3>1, <3>2, <3>3, <3>4, <3>5 DEF Whereabouts
  <2>2. HoldsExact'
    BY <1>1, HoldsKept DEF Guarded, RecycleCheck, lockVars, workVars
  <2>3. CacheWithinLimits'
    BY <1>1, LimitsKept DEF RecycleCheck, lockVars
  <2> QED
    BY <2>1, <2>2, <2>3 DEF PoolInv
<1>2. ASSUME RecycleDeferred(t) PROVE PoolInv'
  <2>1. Whereabouts'
    <3>1. Types'
      BY PoolAssumption, <1>2 DEF PoolInv, Whereabouts, Types, Labels, Hands,
        RecycleDeferred, Goto, workVars
    <3>2. Hands'
      BY PoolAssumption, <1>2 DEF PoolInv, Whereabouts, Types, Labels, Hands,
        RecycleDeferred, Goto, workVars
    <3>3. Places'
      BY PoolAssumption, <1>2 DEF PoolInv, Whereabouts, Types, Hands, Places,
        Carries, RecycleDeferred, Goto, workVars
    <3>4. Guards'
      BY PoolAssumption, <1>2 DEF PoolInv, Whereabouts, Types, Hands, Guards,
        RecycleDeferred, Goto, workVars
    <3>5. Flights'
      BY PoolAssumption, <1>2, SMTT(30) DEF PoolInv, Whereabouts, Types, Hands,
        Guards, Places, Carries, Flights, Sheltered, RecycleDeferred, Goto,
        workVars
    <3> QED
      BY <3>1, <3>2, <3>3, <3>4, <3>5 DEF Whereabouts
  <2>2. HoldsExact'
    <3>1. cand[t] \in Buffers /\ cand[t] \notin deferred /\ deferred \in SUBSET Buffers
      BY <1>2 DEF PoolInv, Whereabouts, Types, Hands, Places, Carries, RecycleDeferred
    <3>2. deferredBytes' = SizeTotal(deferred')
      BY <1>2, <3>1, SizeTotalAdd DEF PoolInv, HoldsExact, RecycleDeferred
    <3> QED
      BY <1>2, <3>2
      DEF PoolInv, HoldsExact, SizeTotal, RecycleDeferred, workVars
  <2>3. CacheWithinLimits'
    BY <1>2, LimitsKept DEF RecycleDeferred
  <2> QED
    BY <2>1, <2>2, <2>3 DEF PoolInv
<1>3. ASSUME RecycleForgotten(t) PROVE PoolInv'
  <2>1. Whereabouts'
    <3>1. Types'
      BY PoolAssumption, <1>3 DEF PoolInv, Whereabouts, Types, Labels, Hands,
        RecycleForgotten, Goto, lockVars, workVars
    <3>2. Hands'
      BY PoolAssumption, <1>3 DEF PoolInv, Whereabouts, Types, Labels, Hands,
        RecycleForgotten, Goto, lockVars, workVars
    <3>3. Places'
      BY PoolAssumption, <1>3 DEF PoolInv, Whereabouts, Types, Hands, Places,
        Carries, RecycleForgotten, Goto, lockVars, workVars
    <3>4. Guards'
      BY PoolAssumption, <1>3 DEF PoolInv, Whereabouts, Types, Hands, Guards,
        RecycleForgotten, Goto, lockVars, workVars
    <3>5. Flights'
      BY PoolAssumption, <1>3 DEF PoolInv, Whereabouts, Types, Hands, Guards,
        Places, Carries, Flights, Sheltered, RecycleForgotten, Goto, lockVars,
        workVars
    <3> QED
      BY <3>1, <3>2, <3>3, <3>4, <3>5 DEF Whereabouts
  <2>2. HoldsExact'
    BY <1>3, HoldsKept DEF Guarded, RecycleForgotten, lockVars, workVars
  <2>3. CacheWithinLimits'
    BY <1>3, LimitsKept DEF RecycleForgotten, lockVars
  <2> QED
    BY <2>1, <2>2, <2>3 DEF PoolInv
<1>4. ASSUME RecycleCompleted(t) PROVE PoolInv'
  <2>1. Whereabouts'
    <3>0. orphaned = {} /\ \A u \in Threads : inflight[u] = {}
      BY <1>4, NoHoldNoFlight DEF RecycleCompleted
    <3>1. Types'
      BY PoolAssumption, <1>4, <3>0 DEF PoolInv, Whereabouts, Types, Labels,
        Hands, RecycleCompleted, Goto, lockVars, workVars, localVars
    <3>2. Hands'
      BY PoolAssumption, <1>4, <3>0 DEF PoolInv, Whereabouts, Types, Labels,
        Hands, RecycleCompleted, Goto, lockVars, workVars, localVars
    <3>3. Places'
      BY PoolAssumption, <1>4, <3>0 DEF PoolInv, Whereabouts, Types, Hands,
        Places, Carries, RecycleCompleted, Goto, lockVars, workVars, localVars
    <3>4. Guards'
      BY PoolAssumption, <1>4, <3>0 DEF PoolInv, Whereabouts, Types, Guards,
        RecycleCompleted, Goto, lockVars, workVars, localVars
    <3>5. Flights'
      BY PoolAssumption, <1>4, <3>0 DEF PoolInv, Whereabouts, Types, Hands,
        Guards, Places, Carries, Flights, Sheltered, RecycleCompleted, Goto,
        lockVars, workVars, localVars
    <3> QED
      BY <3>1, <3>2, <3>3, <3>4, <3>5 DEF Whereabouts
  <2>2. HoldsExact'
    BY <1>4, HoldsKept DEF Guarded, RecycleCompleted, lockVars, workVars
  <2>3. CacheWithinLimits'
    BY <1>4, LimitsKept DEF RecycleCompleted, lockVars
  <2> QED
    BY <2>1, <2>2, <2>3 DEF PoolInv
<1>5. ASSUME NEW b \in Buffers, DropDetached(t, b) PROVE PoolInv'
  <2>1. Whereabouts'
    <3>1. Types'
      BY PoolAssumption, <1>5 DEF PoolInv, Whereabouts, Types, Labels, Hands,
        DropDetached, Goto, InFlight, lockVars, workVars
    <3>2. Hands'
      BY PoolAssumption, <1>5 DEF PoolInv, Whereabouts, Types, Labels, Hands,
        DropDetached, Goto, InFlight, lockVars, workVars
    <3>3. Places'
      BY PoolAssumption, <1>5 DEF PoolInv, Whereabouts, Types, Hands, Places,
        Carries, DropDetached, Goto, InFlight, lockVars, workVars
    <3>4. Guards'
      BY PoolAssumption, <1>5 DEF PoolInv, Whereabouts, Types, Hands, Guards,
        DropDetached, Goto, InFlight, lockVars, workVars
    <3>5. Flights'
      BY PoolAssumption, <1>5 DEF PoolInv, Whereabouts, Types, Hands, Guards,
        Places, Carries, Flights, Sheltered, DropDetached, Goto, InFlight,
        lockVars, workVars
    <3> QED
      BY <3>1, <3>2, <3>3, <3>4, <3>5 DEF Whereabouts
  <2>2. HoldsExact'
    BY <1>5, HoldsKept DEF Guarded, DropDetached, lockVars, workVars
  <2>3. CacheWithinLimits'
    BY <1>5, LimitsKept DEF DropDetached, lockVars
  <2> QED
    BY <2>1, <2>2, <2>3 DEF PoolInv
<1> QED
  BY <1>1, <1>2, <1>3, <1>4, <1>5

\* recycle_completed_buffer: admission, eviction and release of one buffer a time.
LEMMA AdmissionPreserves ==
    ASSUME PoolInv, NEW t \in Threads,
           \/ NextDeferred(t)
           \/ Admit(t)
           \/ AdmitFails(t)
           \/ Reject(t)
           \/ Evict(t)
    PROVE  PoolInv'
<1>1. ASSUME NextDeferred(t) PROVE PoolInv'
  <2>1. Whereabouts'
    <3>1. Types'
      BY PoolAssumption, <1>1 DEF PoolInv, Whereabouts, Types, Labels, Hands,
        NextDeferred, Goto, lockVars, workVars
    <3>2. Hands'
      BY PoolAssumption, <1>1 DEF PoolInv, Whereabouts, Types, Labels, Hands,
        NextDeferred, Goto, lockVars, workVars
    <3>3. Places'
      BY PoolAssumption, <1>1 DEF PoolInv, Whereabouts, Types, Hands, Places,
        Carries, NextDeferred, Goto, lockVars, workVars
    <3>4. Guards'
      BY PoolAssumption, <1>1 DEF PoolInv, Whereabouts, Types, Guards,
        NextDeferred, Goto, lockVars, workVars
    <3>5. Flights'
      <4>1. /\ \A u \in Threads : u # t => pc'[u] = pc[u] /\ cand'[u] = cand[u]
                                       /\ todo'[u] = todo[u]
            /\ pc[t] = "next"
        BY <1>1 DEF PoolInv, Whereabouts, Types, NextDeferred, Goto
      <4>2. UNCHANGED <<owner, deferred, leaked, poisoned, inflight, orphaned>>
        BY <1>1 DEF NextDeferred, lockVars, workVars
      <4>3. \A b : Sheltered(b) => Sheltered(b)'
        BY <4>1, <4>2 DEF Sheltered
      <4> QED
        BY <4>2, <4>3 DEF PoolInv, Whereabouts, Flights
    <3> QED
      BY <3>1, <3>2, <3>3, <3>4, <3>5 DEF Whereabouts
  <2>2. HoldsExact'
    BY <1>1, HoldsKept DEF Guarded, NextDeferred, lockVars, workVars
  <2>3. CacheWithinLimits'
    BY <1>1, LimitsKept DEF NextDeferred, lockVars
  <2> QED
    BY <2>1, <2>2, <2>3 DEF PoolInv
<1>2. ASSUME Admit(t) PROVE PoolInv'
  <2>1. Whereabouts'
    <3>1. Types'
      BY PoolAssumption, <1>2 DEF PoolInv, Whereabouts, Types, Labels, Hands,
        Admit, Goto, workVars
    <3>2. Hands'
      BY PoolAssumption, <1>2 DEF PoolInv, Whereabouts, Types, Labels, Hands,
        Admit, Goto, workVars
    <3>3. Places'
      BY PoolAssumption, <1>2 DEF PoolInv, Whereabouts, Types, Hands, Places,
        Carries, Admit, Goto, workVars
    <3>4. Guards'
      BY PoolAssumption, <1>2 DEF PoolInv, Whereabouts, Types, Guards, Admit,
        Goto, workVars
    <3>5. Flights'
      BY PoolAssumption, <1>2 DEF PoolInv, Whereabouts, Types, Hands, Guards,
        Places, Carries, Flights, Sheltered, Admit, Goto, workVars
    <3> QED
      BY <3>1, <3>2, <3>3, <3>4, <3>5 DEF Whereabouts
  <2>2. HoldsExact'
    BY <1>2, HoldsKept DEF Guarded, Admit, workVars
  <2>3. CacheWithinLimits'
    <3>1. cand[t] \in Buffers /\ cand[t] \notin free /\ FitsNow(cand[t])
      BY <1>2
      DEF PoolInv, Whereabouts, Types, Hands, Places, Carries, Admit,
          CacheAdmissionDecision
    <3> QED
      BY <1>2, <3>1, LimitsAdmit DEF Admit
  <2> QED
    BY <2>1, <2>2, <2>3 DEF PoolInv
<1>3. ASSUME AdmitFails(t) PROVE PoolInv'
  <2>1. Whereabouts'
    <3>1. Types'
      BY PoolAssumption, <1>3 DEF PoolInv, Whereabouts, Types, Labels, Hands,
        AdmitFails, Goto, lockVars, workVars
    <3>2. Hands'
      BY PoolAssumption, <1>3 DEF PoolInv, Whereabouts, Types, Labels, Hands,
        AdmitFails, Goto, lockVars, workVars
    <3>3. Places'
      BY PoolAssumption, <1>3 DEF PoolInv, Whereabouts, Types, Hands, Places,
        Carries, AdmitFails, Goto, lockVars, workVars
    <3>4. Guards'
      BY PoolAssumption, <1>3 DEF PoolInv, Whereabouts, Types, Guards,
        AdmitFails, Goto, lockVars, workVars
    <3>5. Flights'
      BY PoolAssumption, <1>3 DEF PoolInv, Whereabouts, Types, Hands, Guards,
        Places, Carries, Flights, Sheltered, AdmitFails, Goto, lockVars,
        workVars
    <3> QED
      BY <3>1, <3>2, <3>3, <3>4, <3>5 DEF Whereabouts
  <2>2. HoldsExact'
    BY <1>3, HoldsKept DEF Guarded, AdmitFails, lockVars, workVars
  <2>3. CacheWithinLimits'
    BY <1>3, LimitsKept DEF AdmitFails, lockVars
  <2> QED
    BY <2>1, <2>2, <2>3 DEF PoolInv
<1>4. ASSUME Reject(t) PROVE PoolInv'
  <2>1. Whereabouts'
    <3>1. Types'
      BY PoolAssumption, <1>4 DEF PoolInv, Whereabouts, Types, Labels, Hands,
        Reject, Goto, lockVars, workVars
    <3>2. Hands'
      BY PoolAssumption, <1>4 DEF PoolInv, Whereabouts, Types, Labels, Hands,
        Reject, Goto, lockVars, workVars
    <3>3. Places'
      BY PoolAssumption, <1>4 DEF PoolInv, Whereabouts, Types, Hands, Places,
        Carries, Reject, Goto, lockVars, workVars
    <3>4. Guards'
      BY PoolAssumption, <1>4 DEF PoolInv, Whereabouts, Types, Guards, Reject,
        Goto, lockVars, workVars
    <3>5. Flights'
      BY PoolAssumption, <1>4 DEF PoolInv, Whereabouts, Types, Hands, Guards,
        Places, Carries, Flights, Sheltered, Reject, Goto, lockVars, workVars
    <3> QED
      BY <3>1, <3>2, <3>3, <3>4, <3>5 DEF Whereabouts
  <2>2. HoldsExact'
    BY <1>4, HoldsKept DEF Guarded, Reject, lockVars, workVars
  <2>3. CacheWithinLimits'
    BY <1>4, LimitsKept DEF Reject, lockVars
  <2> QED
    BY <2>1, <2>2, <2>3 DEF PoolInv
<1>5. ASSUME Evict(t) PROVE PoolInv'
  <2>1. Whereabouts'
    <3>1. Types'
      BY PoolAssumption, <1>5 DEF PoolInv, Whereabouts, Types, Labels, Hands,
        Evict, Goto, EvictChoice, workVars
    <3>2. Hands'
      BY PoolAssumption, <1>5 DEF PoolInv, Whereabouts, Types, Labels, Hands,
        Evict, Goto, EvictChoice, workVars
    <3>3. Places'
      BY PoolAssumption, <1>5 DEF PoolInv, Whereabouts, Types, Hands, Places,
        Carries, Evict, Goto, EvictChoice, workVars
    <3>4. Guards'
      BY PoolAssumption, <1>5 DEF PoolInv, Whereabouts, Types, Guards, Evict,
        Goto, EvictChoice, workVars
    <3>5. Flights'
      BY PoolAssumption, <1>5, SMTT(30) DEF PoolInv, Whereabouts, Types, Hands,
        Guards, Places, Carries, Flights, Sheltered, Evict, Goto, EvictChoice,
        workVars
    <3> QED
      BY <3>1, <3>2, <3>3, <3>4, <3>5 DEF Whereabouts
  <2>2. HoldsExact'
    BY <1>5, HoldsKept DEF Guarded, Evict, workVars
  <2>3. CacheWithinLimits'
    BY <1>5, LimitsKept DEF Evict
  <2> QED
    BY <2>1, <2>2, <2>3 DEF PoolInv
<1> QED
  BY <1>1, <1>2, <1>3, <1>4, <1>5

\* The releases outside the pool lock.
LEMMA FreePreserves ==
    ASSUME PoolInv, NEW t \in Threads,
           \/ FreeVictim(t)
           \/ FreeVictimFails(t)
           \/ ContinueAfterFree(t)
           \/ StopAfterFree(t)
           \/ Drain(t)
           \/ Drained(t)
    PROVE  PoolInv'
<1>1. ASSUME FreeVictim(t) PROVE PoolInv'
  <2>1. Whereabouts'
    <3>1. Types'
      BY PoolAssumption, <1>1 DEF PoolInv, Whereabouts, Types, Labels, Hands,
        FreeVictim, Goto, Available, lockVars, workVars
    <3>2. Hands'
      BY PoolAssumption, <1>1 DEF PoolInv, Whereabouts, Types, Labels, Hands,
        FreeVictim, Goto, Available, lockVars, workVars
    <3>3. Places'
      BY PoolAssumption, <1>1 DEF PoolInv, Whereabouts, Types, Hands, Places,
        Carries, FreeVictim, Goto, Available, lockVars, workVars
    <3>4. Guards'
      BY PoolAssumption, <1>1 DEF PoolInv, Whereabouts, Types, Hands, Guards,
        FreeVictim, Goto, Available, lockVars, workVars
    <3>5. Flights'
      BY PoolAssumption, <1>1 DEF PoolInv, Whereabouts, Types, Hands, Guards,
        Places, Carries, Flights, Sheltered, FreeVictim, Goto, Available,
        lockVars, workVars
    <3> QED
      BY <3>1, <3>2, <3>3, <3>4, <3>5 DEF Whereabouts
  <2>2. HoldsExact'
    BY <1>1, HoldsKept DEF Guarded, FreeVictim, lockVars, workVars
  <2>3. CacheWithinLimits'
    BY <1>1, LimitsKept DEF FreeVictim, lockVars
  <2> QED
    BY <2>1, <2>2, <2>3 DEF PoolInv
<1>2. ASSUME FreeVictimFails(t) PROVE PoolInv'
  <2>1. Whereabouts'
    <3>1. Types'
      BY PoolAssumption, <1>2 DEF PoolInv, Whereabouts, Types, Labels, Hands,
        FreeVictimFails, ForgetCandidate, lockVars, workVars, Goto
    <3>2. Hands'
      BY PoolAssumption, <1>2 DEF PoolInv, Whereabouts, Types, Labels, Hands,
        FreeVictimFails, ForgetCandidate, lockVars, workVars, Goto
    <3>3. Places'
      BY PoolAssumption, <1>2 DEF PoolInv, Whereabouts, Types, Hands, Places,
        Carries, FreeVictimFails, ForgetCandidate, lockVars, workVars, Goto
    <3>4. Guards'
      BY PoolAssumption, <1>2 DEF PoolInv, Whereabouts, Types, Hands, Guards,
        FreeVictimFails, ForgetCandidate, lockVars, workVars, Goto
    <3>5. Flights'
      BY PoolAssumption, <1>2 DEF PoolInv, Whereabouts, Types, Hands, Guards,
        Places, Carries, Flights, Sheltered, FreeVictimFails, ForgetCandidate,
        lockVars, workVars, Goto
    <3> QED
      BY <3>1, <3>2, <3>3, <3>4, <3>5 DEF Whereabouts
  <2>2. HoldsExact'
    BY <1>2, HoldsKept DEF Guarded, FreeVictimFails, lockVars, workVars
  <2>3. CacheWithinLimits'
    BY <1>2, LimitsKept DEF FreeVictimFails, lockVars
  <2> QED
    BY <2>1, <2>2, <2>3 DEF PoolInv
<1>3. ASSUME ContinueAfterFree(t) PROVE PoolInv'
  <2>1. Whereabouts'
    <3>1. Types'
      BY PoolAssumption, <1>3 DEF PoolInv, Whereabouts, Types, Labels, Hands,
        ContinueAfterFree, Goto, Available, lockVars, workVars, localVars
    <3>2. Hands'
      BY PoolAssumption, <1>3 DEF PoolInv, Whereabouts, Types, Labels, Hands,
        ContinueAfterFree, Goto, Available, lockVars, workVars, localVars
    <3>3. Places'
      BY PoolAssumption, <1>3 DEF PoolInv, Whereabouts, Types, Hands, Places,
        Carries, ContinueAfterFree, Goto, Available, lockVars, workVars,
        localVars
    <3>4. Guards'
      BY PoolAssumption, <1>3 DEF PoolInv, Whereabouts, Types, Hands, Guards,
        ContinueAfterFree, Goto, Available, lockVars, workVars, localVars
    <3>5. Flights'
      BY PoolAssumption, <1>3 DEF PoolInv, Whereabouts, Types, Hands, Guards,
        Places, Carries, Flights, Sheltered, ContinueAfterFree, Goto,
        Available, lockVars, workVars, localVars
    <3> QED
      BY <3>1, <3>2, <3>3, <3>4, <3>5 DEF Whereabouts
  <2>2. HoldsExact'
    BY <1>3, HoldsKept DEF Guarded, ContinueAfterFree, lockVars, workVars
  <2>3. CacheWithinLimits'
    BY <1>3, LimitsKept DEF ContinueAfterFree, lockVars
  <2> QED
    BY <2>1, <2>2, <2>3 DEF PoolInv
<1>4. ASSUME StopAfterFree(t) PROVE PoolInv'
  <2>1. Whereabouts'
    <3>1. Types'
      BY PoolAssumption, <1>4 DEF PoolInv, Whereabouts, Types, Labels, Hands,
        StopAfterFree, Available, ForgetCandidate, lockVars, workVars, Goto
    <3>2. Hands'
      BY PoolAssumption, <1>4 DEF PoolInv, Whereabouts, Types, Labels, Hands,
        StopAfterFree, Available, ForgetCandidate, lockVars, workVars, Goto
    <3>3. Places'
      BY PoolAssumption, <1>4 DEF PoolInv, Whereabouts, Types, Hands, Places,
        Carries, StopAfterFree, Available, ForgetCandidate, lockVars, workVars,
        Goto
    <3>4. Guards'
      BY PoolAssumption, <1>4 DEF PoolInv, Whereabouts, Types, Hands, Guards,
        StopAfterFree, Available, ForgetCandidate, lockVars, workVars, Goto
    <3>5. Flights'
      BY PoolAssumption, <1>4 DEF PoolInv, Whereabouts, Types, Hands, Guards,
        Places, Carries, Flights, Sheltered, StopAfterFree, Available,
        ForgetCandidate, lockVars, workVars, Goto
    <3> QED
      BY <3>1, <3>2, <3>3, <3>4, <3>5 DEF Whereabouts
  <2>2. HoldsExact'
    BY <1>4, HoldsKept DEF Guarded, StopAfterFree, lockVars, workVars
  <2>3. CacheWithinLimits'
    BY <1>4, LimitsKept DEF StopAfterFree, lockVars
  <2> QED
    BY <2>1, <2>2, <2>3 DEF PoolInv
<1>5. ASSUME Drain(t) PROVE PoolInv'
  <2>1. Whereabouts'
    <3>1. Types'
      BY PoolAssumption, <1>5 DEF PoolInv, Whereabouts, Types, Labels, Hands,
        Drain, Available, lockVars, workVars
    <3>2. Hands'
      BY PoolAssumption, <1>5 DEF PoolInv, Whereabouts, Types, Labels, Hands,
        Drain, Available, lockVars, workVars
    <3>3. Places'
      BY PoolAssumption, <1>5 DEF PoolInv, Whereabouts, Types, Hands, Places,
        Carries, Drain, Available, lockVars, workVars
    <3>4. Guards'
      BY PoolAssumption, <1>5 DEF PoolInv, Whereabouts, Types, Guards, Drain,
        Available, lockVars, workVars
    <3>5. Flights'
      BY PoolAssumption, <1>5 DEF PoolInv, Whereabouts, Types, Hands, Guards,
        Places, Carries, Flights, Sheltered, Drain, Available, lockVars,
        workVars
    <3> QED
      BY <3>1, <3>2, <3>3, <3>4, <3>5 DEF Whereabouts
  <2>2. HoldsExact'
    BY <1>5, HoldsKept DEF Guarded, Drain, lockVars, workVars
  <2>3. CacheWithinLimits'
    BY <1>5, LimitsKept DEF Drain, lockVars
  <2> QED
    BY <2>1, <2>2, <2>3 DEF PoolInv
<1>6. ASSUME Drained(t) PROVE PoolInv'
  <2>1. Whereabouts'
    <3>1. Types'
      BY PoolAssumption, <1>6 DEF PoolInv, Whereabouts, Types, Labels, Hands,
        Drained, Goto, lockVars, workVars, localVars
    <3>2. Hands'
      BY PoolAssumption, <1>6 DEF PoolInv, Whereabouts, Types, Labels, Hands,
        Drained, Goto, lockVars, workVars, localVars
    <3>3. Places'
      BY PoolAssumption, <1>6 DEF PoolInv, Whereabouts, Types, Hands, Places,
        Carries, Drained, Goto, lockVars, workVars, localVars
    <3>4. Guards'
      BY PoolAssumption, <1>6 DEF PoolInv, Whereabouts, Types, Guards,
        Drained, Goto, lockVars, workVars, localVars
    <3>5. Flights'
      BY PoolAssumption, <1>6 DEF PoolInv, Whereabouts, Types, Hands, Guards,
        Places, Carries, Flights, Sheltered, Drained, Goto, lockVars,
        workVars, localVars
    <3> QED
      BY <3>1, <3>2, <3>3, <3>4, <3>5 DEF Whereabouts
  <2>2. HoldsExact'
    BY <1>6, HoldsKept DEF Guarded, Drained, lockVars, workVars
  <2>3. CacheWithinLimits'
    BY <1>6, LimitsKept DEF Drained, lockVars
  <2> QED
    BY <2>1, <2>2, <2>3 DEF PoolInv
<1> QED
  BY <1>1, <1>2, <1>3, <1>4, <1>5, <1>6

-----------------------------------------------------------------------------
\* Before the first call there is no buffer, no guard and no work.
LEMMA InitPool == Init => PoolInv
<1> SUFFICES ASSUME Init PROVE PoolInv
  OBVIOUS
<1>1. Whereabouts
  BY PoolAssumption
  DEF Init, Whereabouts, Types, Labels, Hands, Places, Carries, Guards, Flights
<1>2. Guarded = {}
  BY DEF Init, Guarded
<1>3. Cardinality(Guarded) = 0 /\ Cardinality({}) = 0
  BY <1>2, FS_EmptySet
<1>4. HoldsExact
  BY <1>3, SizeTotalEmpty DEF Init, HoldsExact, Guarded
<1>5. BucketCount({}) = 0
  <2>1. {Size[b] : b \in {}} = {}
    OBVIOUS
  <2> QED
    BY <2>1, <1>3 DEF BucketCount
<1>6. CacheWithinLimits
  BY <1>3, <1>5, SizeTotalEmpty, PoolAssumption DEF Init, CacheWithinLimits
<1> QED
  BY <1>1, <1>4, <1>6 DEF PoolInv

\* Every step of every thread preserves the invariant.
LEMMA StepPool == PoolInv /\ [Next]_vars => PoolInv'
<1> SUFFICES ASSUME PoolInv, [Next]_vars PROVE PoolInv'
  OBVIOUS
<1>1. CASE UNCHANGED vars
  <2>1. Whereabouts'
    BY <1>1
    DEF PoolInv, Whereabouts, Types, Hands, Places, Carries, Guards, Flights,
        Sheltered, vars
  <2> QED
    BY <1>1, <2>1, HoldsKept, LimitsKept DEF PoolInv, Guarded, vars
<1>2. ASSUME NEW t \in Threads, Step(t) PROVE PoolInv'
  BY <1>2, TakePreserves, LaunchPreserves, FinishPreserves, RecyclePreserves,
     AdmissionPreserves, FreePreserves
  DEF Step
<1>3. ASSUME NEW t \in Threads, Call(t) PROVE PoolInv'
  <2>1. \A n \in {Size[b] : b \in Buffers} : n \in Nat
    BY PoolAssumption
  <2> QED
    BY <1>3, <2>1, TakePreserves, LaunchPreserves, FinishPreserves,
       ReleasePreserves, RecyclePreserves
    DEF Call
<1> QED
  BY <1>1, <1>2, <1>3 DEF Next

\* The inductive invariant holds in every reachable state, for every number of
\* threads and buffers, both policies and all limits.
THEOREM PoolInvariant == Spec => []PoolInv
  BY InitPool, StepPool, PTL DEF Spec

\* recycle_buffer and release_reuse_hold never let a buffer that submitted work
\* may still access be freed, cached or checked out by somebody else.
THEOREM InFlightIsNeverReused == Spec => []NoReuseInFlight
<1>1. PoolInv => NoReuseInFlight
  <2> SUFFICES ASSUME PoolInv PROVE NoReuseInFlight
    OBVIOUS
  <2>1. \A b \in Buffers : Sheltered(b) => b \in live /\ b \notin free
    BY DEF PoolInv, Whereabouts, Hands, Places, Carries, Sheltered
  <2>2. \A b \in InFlight : b \in Buffers /\ Sheltered(b)
    BY DEF PoolInv, Whereabouts, Types, Flights, InFlight
  <2> QED
    BY <2>1, <2>2 DEF PoolInv, Whereabouts, Flights, NoReuseInFlight
<1> QED
  BY <1>1, PoolInvariant, PTL

\* reuse_holds counts the guards alive and abandoned, deferred_bytes is exact
\* and no buffer is stranded in deferred.
THEOREM HoldsAreExact == Spec => []HoldsExact
<1>1. PoolInv => HoldsExact
  BY DEF PoolInv
<1> QED
  BY <1>1, PoolInvariant, PTL

\* Every allocation has exactly one owner on every path of the pool.
THEOREM OneOwnerEach == Spec => []OneOwner
<1>1. PoolInv => OneOwner
  <2> SUFFICES ASSUME PoolInv PROVE OneOwner
    OBVIOUS
  <2>1. \A t \in Threads : \A b : b \in Carried(t) <=> b \in Buffers /\ Carries(t, b)
    BY DEF Carried, Carries
  <2>2. live = free \cup deferred \cup leaked
                 \cup {b \in Buffers : owner[b] # NoThread}
                 \cup UNION {Carried(t) : t \in Threads}
    BY <2>1 DEF PoolInv, Whereabouts, Types, Places
  <2>3. \A t \in Threads : \A b \in Carried(t) :
          /\ b \notin free \cup deferred \cup leaked /\ owner[b] = NoThread
          /\ \A u \in Threads \ {t} : b \notin Carried(u)
          /\ ~ (b = cand[t] /\ b = victim[t])
          /\ b \in todo[t] => b # cand[t] /\ b # victim[t]
    BY <2>1 DEF PoolInv, Whereabouts, Places
  <2> QED
    BY <2>2, <2>3 DEF PoolInv, Whereabouts, Types, Places, OneOwner
<1> QED
  BY <1>1, PoolInvariant, PTL

\* The cache keeps to CudaBufferPoolLimits.
THEOREM LimitsRespected == Spec => []CacheWithinLimits
<1>1. PoolInv => CacheWithinLimits
  BY DEF PoolInv
<1> QED
  BY <1>1, PoolInvariant, PTL

\* Once the context is quarantined no step frees or allocates device memory:
\* every release and allocation looks at the flag under the gate.
THEOREM QuarantineStays == Spec => QuarantineIsFinal
<1>1. [Next]_vars => [poisoned = "yes" => poisoned' = "yes" /\ live' = live]_vars
  <2> SUFFICES ASSUME Next, poisoned = "yes"
               PROVE  poisoned' = "yes" /\ live' = live
    BY DEF vars
  <2>1. PICK t \in Threads : Step(t) \/ Call(t)
    BY DEF Next
  <2> USE DEF Available
  <2>2. CASE Step(t)
    <3>1. CASE TakeCached(t) \/ TakeMiss(t) \/ Allocate(t) \/ AllocateFails(t)
                 \/ AcquireReuseHold(t)
      BY <3>1 DEF TakeCached, TakeMiss, Allocate, AllocateFails, AcquireReuseHold
    <3>2. CASE RecoverySucceeds(t) \/ RecoveryFails(t) \/ AfterRecovery(t)
                 \/ Synchronize(t) \/ SynchronizeSucceeds(t)
                 \/ SynchronizeFails(t) \/ SynchronizeRefused(t)
      BY <3>2
      DEF RecoverySucceeds, RecoveryFails, AfterRecovery, Synchronize,
          SynchronizeSucceeds, SynchronizeFails, SynchronizeRefused
    <3>3. CASE RecycleDeferred(t) \/ RecycleForgotten(t) \/ RecycleCompleted(t)
                 \/ NextDeferred(t) \/ Admit(t) \/ AdmitFails(t) \/ Reject(t)
                 \/ Evict(t)
      BY <3>3
      DEF RecycleDeferred, RecycleForgotten, RecycleCompleted, NextDeferred,
          Admit, AdmitFails, Reject, Evict
    <3>4. CASE FreeVictim(t) \/ FreeVictimFails(t) \/ ContinueAfterFree(t)
                 \/ StopAfterFree(t) \/ Drain(t) \/ Drained(t)
      BY <3>4
      DEF FreeVictim, FreeVictimFails, ContinueAfterFree, StopAfterFree, Drain,
          Drained
    <3> QED
      BY <2>2, <3>1, <3>2, <3>3, <3>4 DEF Step
  <2>3. CASE Call(t)
    BY <2>3
    DEF Call, TakeCheck, DeferCheck, Launch, LaunchFails, Readback,
        ReadbackFails, Finish, Release, RecycleCheck, DropDetached
  <2> QED
    BY <2>1, <2>2, <2>3
<1> QED
  BY <1>1, PTL DEF Spec, QuarantineIsFinal
=============================================================================
