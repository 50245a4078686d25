----------------------------- MODULE RegionBatch -----------------------------
(***************************************************************************)
(* Tile batches of the j2k facade (j2k/src/batch.rs and batch/): planning  *)
(* of chunks and workers, weighted admission of decode memory through      *)
(* BatchAllocationBudget (batch/admission.rs), the workers of the          *)
(* region-scaled route with their direct plans (batch/direct.rs,           *)
(* batch/worker.rs), the scoped scheduler that spawns and joins them       *)
(* (batch/scheduler.rs), and the ordered collection of results             *)
(* (j2k-core/src/batch/collection.rs).                                     *)
(*                                                                         *)
(* One behaviour is one call.  mode says which: "plain" is decode_batch,   *)
(* whose workers are admitted by the plan; "shared" and "private" are      *)
(* decode_tiles_region_scaled_into with and without a plan shared by all   *)
(* jobs.  A step ends at every use of the budget's mutex and condition     *)
(* variable.  No code panics while it holds that mutex and no claim is     *)
(* larger than the cap, so the poisoned and too-large branches of the      *)
(* budget cannot be taken; an infrastructure error of a worker is its      *)
(* panic.                                                                  *)
(***************************************************************************)
EXTENDS ByteTotals, Sequences

CONSTANTS
    MaxJobs,        \* bound: tiles in a batch
    MaxDesired,     \* bound: workers asked for
    MaxGeneric,     \* MAX_GENERIC_BATCH_WORKERS
    Claim,          \* GENERIC_WORKER_CLAIM_BYTES
    JobBytes, WorkerBytes, MetadataCap,   \* batch_metadata_bytes and its cap
    Keys,           \* input, region and scale of a job that may run directly
    NoKey           \* a job that never does (Downscale::None, another format)

ASSUME BatchAssumption ==
    /\ {MaxJobs, MaxDesired, MaxGeneric, Claim} \subseteq Nat \ {0}
    /\ {JobBytes, WorkerBytes, MetadataCap} \subseteq Nat
    /\ NoKey \notin Keys

VARIABLES
    mode, job, desired,      \* the call: the key of every job
    plan,                    \* BatchPlan
    shared,                  \* bytes of the shared plan: the budget's baseline
    live,                    \* AdmissionState.live
    main, turn, firstError, outcome,   \* the calling thread
    pc, then,                \* each worker, and where it goes after notify_all
    tile, verdict,           \* its job and how that ended
    want, purpose,           \* the claim it is after
    claim,                   \* bytes of the claim it holds
    held,                    \* bytes of decode memory it owns
    cache,                   \* key of its DirectColorRegionCache
    exit,                    \* how its thread ended
    slot                     \* the result slots

callVars == <<mode, job, desired, plan, shared>>
mainVars == <<main, turn, firstError, outcome>>
jobVars == <<tile, verdict, slot>>
vars == <<mode, job, desired, plan, shared, live, main, turn, firstError,
          outcome, pc, then, tile, verdict, want, purpose, claim, held,
          cache, exit, slot>>

Cap == MaxGeneric * Claim        \* J2K_BATCH_EXECUTION_CAP_BYTES
HostCap == Cap + MetadataCap     \* J2K_BATCH_HOST_CAP_BYTES
Workers == 1..(2 * MaxGeneric)   \* MAX_ADMITTED_BATCH_WORKERS
Jobs == DOMAIN job

-----------------------------------------------------------------------------
(* batch/planning.rs                                                       *)


Metadata(n, workers) == n * JobBytes + workers * WorkerBytes

MutCandidate(n, r) ==
    LET size == n \div r
    IN  [chunk_size |-> size, worker_count |-> r]

\* The plan tried for r requested workers.
Candidate(n, r) ==
    LET size == DivCeil(n, r)
    IN  [chunk_size |-> size, worker_count |-> DivCeil(n, size)]

Fits(n, r, workerBytes) ==
    LET workers == Candidate(n, r).worker_count
    IN  /\ Metadata(n, workers) <= MetadataCap
        /\ workers * workerBytes + Metadata(n, workers) <= HostCap

\* select_batch_plan_with_worker_limit: the most requested workers that fit.
Acceptable(n, workerBytes, limit) ==
    {r \in 1..desired : r <= n /\ r <= limit /\ Fits(n, r, workerBytes)}

SelectPlan(n, workerBytes, limit) ==
    LET fit == Acceptable(n, workerBytes, limit)
    IN  Candidate(n, CHOOSE r \in fit : \A s \in fit : s <= r)

First(w) == (w - 1) * plan.chunk_size + 1
Last(w) == IF w * plan.chunk_size < Len(job) THEN w * plan.chunk_size ELSE Len(job)
Chunks == DivCeil(Len(job), plan.chunk_size)

-----------------------------------------------------------------------------
(* Results                                                                 *)

NoError == [kind |-> "none", at |-> 0]
Error(what, where) == [kind |-> what, at |-> where]

Failed == {j \in Jobs : slot[j] = "err"}
Unwritten == {j \in Jobs : slot[j] = "none"}
Least(S) == CHOOSE i \in S : \A j \in S : i <= j

\* try_collect_ordered_batch_results_with_limits, up to its capacity checks.
Collected ==
    IF Failed # {} THEN Error("tile", Least(Failed))
    ELSE IF Unwritten # {} THEN Error("missing", Least(Unwritten))
    ELSE Error("ok", 0)

-----------------------------------------------------------------------------
Init ==
    /\ mode \in {"plain", "region"}
    /\ \E n \in 1..MaxJobs : job \in [1..n -> Keys \cup {NoKey}]
    /\ desired \in 1..MaxDesired
    /\ plan = [chunk_size |-> 0, worker_count |-> 0]
    /\ shared = 0 /\ live = 0
    /\ main = "start" /\ turn = 1 /\ firstError = NoError /\ outcome = NoError
    /\ pc = [w \in Workers |-> "off"]
    /\ then = [w \in Workers |-> "off"]
    /\ tile = [w \in Workers |-> 0]
    /\ verdict = [w \in Workers |-> "none"]
    /\ want = [w \in Workers |-> 0]
    /\ purpose = [w \in Workers |-> "none"]
    /\ claim = [w \in Workers |-> 0]
    /\ held = [w \in Workers |-> 0]
    /\ cache = [w \in Workers |-> NoKey]
    /\ exit = [w \in Workers |-> "none"]
    /\ slot = [j \in DOMAIN job |-> "none"]

-----------------------------------------------------------------------------
(* The calling thread                                                      *)

workerVars == <<pc, then, tile, verdict, want, purpose, claim, held, cache,
                exit, slot>>

Return(result) ==
    /\ main' = "returned"
    /\ outcome' = result

\* build_repeated_direct_color_region_plan: only when all jobs are the same.
BuildShared ==
    /\ main = "start"
    /\ \/ /\ mode = "plain" \/ job[1] = NoKey \/ \E j \in Jobs : job[j] # job[1]
          /\ mode' = IF mode = "plain" THEN "plain" ELSE "private"
          /\ main' = "plan"
          /\ UNCHANGED <<shared, outcome>>
       \/ /\ mode = "region" /\ job[1] # NoKey /\ \A j \in Jobs : job[j] = job[1]
          /\ \/ mode' = "private" /\ main' = "plan" /\ UNCHANGED <<shared, outcome>>
             \/ /\ shared' \in 1..(Claim - 1)
                /\ mode' = "shared" /\ main' = "plan" /\ UNCHANGED outcome
             \/ Return(Error("tile", 1)) /\ UNCHANGED <<mode, shared>>
    /\ UNCHANGED <<job, desired, plan, live, turn, firstError, workerVars>>

\* plan_batch or plan_direct_batch, with_baseline, allocate_result_slots and
\* ensure_pre_execution_capacity, which may refuse what the allocator rounded
\* up.  A single worker runs on the calling thread.
PlanBatch ==
    LET bytes == IF mode = "plain" THEN Claim ELSE 0
        limit == IF mode = "plain" THEN MaxGeneric ELSE 2 * MaxGeneric
    IN  /\ main = "plan"
        /\ \/ Return(Error("infrastructure", 0)) /\ UNCHANGED <<plan, live, pc, tile>>
           \/ /\ Acceptable(Len(job), bytes, limit) # {}
              /\ plan' = SelectPlan(Len(job), bytes, limit)
              /\ live' = shared
              /\ UNCHANGED outcome
              /\ IF plan'.worker_count = 1
                 THEN /\ main' = "join"
                      /\ pc' = [pc EXCEPT ![1] = "job"]
                      /\ tile' = [tile EXCEPT ![1] = 1]
                 ELSE main' = "spawn" /\ UNCHANGED <<pc, tile>>
        /\ UNCHANGED <<mode, job, desired, shared, turn, firstError, then,
                       verdict, want, purpose, claim, held, cache, exit, slot>>

\* The loop of run_parallel_chunks over chunks, and its end.
Spawn ==
    /\ main = "spawn"
    /\ \/ /\ turn <= Chunks /\ turn <= plan.worker_count
          /\ pc' = [pc EXCEPT ![turn] = "job"]
          /\ tile' = [tile EXCEPT ![turn] = First(turn)]
          /\ turn' = turn + 1
          /\ UNCHANGED <<main, firstError>>
       \/ /\ turn <= Chunks
          /\ firstError' = IF turn > plan.worker_count THEN Error("no_slot", turn)
                           ELSE Error("spawn", turn)
          /\ main' = "join" /\ turn' = 1
          /\ UNCHANGED <<pc, tile>>
       \/ /\ turn > Chunks
          /\ main' = "join" /\ turn' = 1
          /\ UNCHANGED <<pc, tile, firstError>>
    /\ UNCHANGED <<callVars, live, outcome, then, verdict, want, purpose,
                   claim, held, cache, exit, slot>>

Spawned(w) == w \in Workers /\ pc[w] # "off"

\* join_batch_workers keeps the first error of the lowest worker; a panic on
\* the calling thread goes to the caller.
Join ==
    /\ main = "join" /\ Spawned(turn) /\ pc[turn] = "ended"
    /\ turn' = turn + 1
    /\ IF exit[turn] = "panic" /\ plan.worker_count = 1
       THEN Return(Error("unwound", 1)) /\ UNCHANGED firstError
       ELSE /\ firstError' = IF exit[turn] = "panic" /\ firstError = NoError
                             THEN Error("panicked", turn) ELSE firstError
            /\ UNCHANGED <<main, outcome>>
    /\ UNCHANGED <<callVars, live, workerVars>>

\* After the join; the capacity checks before and in the collection may refuse.
Collect ==
    /\ main = "join" /\ ~Spawned(turn)
    /\ \/ firstError # NoError /\ Return(firstError)
       \/ firstError = NoError /\ Return(Collected)
       \/ firstError = NoError /\ Return(Error("infrastructure", 0))
    /\ UNCHANGED <<callVars, live, turn, firstError, workerVars>>

-----------------------------------------------------------------------------
(* BatchAllocationBudget                                                   *)

Goto(w, where) == pc' = [pc EXCEPT ![w] = where]

\* claim: under the mutex, and again after every wakeup.
ClaimBytes(w) ==
    /\ pc[w] = "claim"
    /\ IF Cap - live < want[w]
       THEN Goto(w, "waiting") /\ UNCHANGED <<live, claim, held>>
       ELSE /\ live' = live + want[w]
            /\ claim' = [claim EXCEPT ![w] = want[w]]
            /\ held' = [held EXCEPT ![w] = want[w]]   \* what it may now use
            /\ Goto(w, CASE purpose[w] = "shared" -> "prepare"
                         [] purpose[w] = "private" -> "build"
                         [] purpose[w] = "generic" -> "decode")
    /\ UNCHANGED <<callVars, mainVars, jobVars, then, want, purpose, cache, exit>>

\* A wait that ends without a notification.
SpuriousWakeup(w) ==
    /\ pc[w] = "waiting"
    /\ Goto(w, "claim")
    /\ UNCHANGED <<callVars, mainVars, jobVars, live, then, want, purpose,
                   claim, held, cache, exit>>

MutNotifyAll(w) ==
    /\ pc[w] = "notify"
    /\ Goto(w, then[w])
    /\ UNCHANGED <<callVars, mainVars, jobVars, live, then, want, purpose,
                   claim, held, cache, exit>>

\* notify_all, after the mutex was released.
NotifyAll(w) ==
    /\ pc[w] = "notify"
    /\ pc' = [v \in Workers |->
                IF v = w THEN then[w]
                ELSE IF pc[v] = "waiting" THEN "claim" ELSE pc[v]]
    /\ UNCHANGED <<callVars, mainVars, jobVars, live, then, want, purpose,
                   claim, held, cache, exit>>

\* Drop of a claim, if there is one.
DropClaim(w, next) ==
    /\ live' = IF claim[w] <= live THEN live - claim[w] ELSE 0
    /\ claim' = [claim EXCEPT ![w] = 0]
    /\ IF claim[w] = 0
       THEN Goto(w, next) /\ UNCHANGED then
       ELSE Goto(w, "notify") /\ then' = [then EXCEPT ![w] = next]

MutReconcile(w) ==
    /\ pc[w] = "reconcile"
    /\ live' = live - (claim[w] - held[w])
    /\ claim' = claim
    /\ Goto(w, "notify") /\ then' = [then EXCEPT ![w] = "execute"]
    /\ UNCHANGED <<callVars, mainVars, jobVars, want, purpose, held, cache, exit>>

\* BatchAllocationClaim::reconcile to what preparation really took.
Reconcile(w) ==
    /\ pc[w] = "reconcile"
    /\ live' = live - (claim[w] - held[w])
    /\ claim' = [claim EXCEPT ![w] = held[w]]
    /\ IF claim[w] = held[w]
       THEN Goto(w, "execute") /\ UNCHANGED then
       ELSE Goto(w, "notify") /\ then' = [then EXCEPT ![w] = "execute"]
    /\ UNCHANGED <<callVars, mainVars, jobVars, want, purpose, held, cache, exit>>

-----------------------------------------------------------------------------
(* BatchWorker and DirectWorkerState                                       *)

Free(w) == held' = [held EXCEPT ![w] = 0]

\* DirectWorkerState::release: memory first, then the claim.
Release(w, next) ==
    /\ cache' = [cache EXCEPT ![w] = NoKey]
    /\ Free(w)
    /\ DropClaim(w, next)

After(w, result) == verdict' = [verdict EXCEPT ![w] = result]

Ask(w, bytes, why) ==
    /\ want' = [want EXCEPT ![w] = bytes]
    /\ purpose' = [purpose EXCEPT ![w] = why]

HasJob(w) == pc[w] = "job" /\ tile[w] <= Last(w)

\* decode_tile_jobs and its siblings: the plan admitted the worker.
StartPlain(w) ==
    /\ HasJob(w) /\ mode = "plain"
    /\ held' = [held EXCEPT ![w] = Claim]
    /\ Ask(w, 0, "plain")
    /\ Goto(w, "decode")
    /\ UNCHANGED <<callVars, mainVars, jobVars, live, then, claim, cache, exit>>

\* validate_buffer refuses the job's output.
RefuseBuffer(w) ==
    /\ HasJob(w) /\ mode # "plain" /\ job[tile[w]] # NoKey
    /\ After(w, "err") /\ Goto(w, "record")
    /\ UNCHANGED <<callVars, mainVars, tile, slot, live, then, want, purpose,
                   claim, held, cache, exit>>

\* try_shared: one claim serves all jobs of the worker.
StartShared(w) ==
    /\ HasJob(w) /\ mode = "shared"
    /\ IF claim[w] = 0
       THEN Ask(w, Claim - shared, "shared") /\ Goto(w, "claim")
       ELSE Goto(w, "execute") /\ UNCHANGED <<want, purpose>>
    /\ UNCHANGED <<callVars, mainVars, jobVars, live, then, claim, held, cache, exit>>

\* try_cached: the plan kept from the job before serves an equal key.
StartCached(w) ==
    /\ HasJob(w) /\ mode = "private" /\ job[tile[w]] # NoKey
    /\ IF cache[w] = job[tile[w]]
       THEN /\ Goto(w, "execute")
            /\ UNCHANGED <<live, then, want, purpose, claim, held, cache>>
       ELSE Ask(w, Claim, "private") /\ Release(w, "claim")
    /\ UNCHANGED <<callVars, mainVars, jobVars, exit>>

\* try_decode answers None without a claim of its own.
StartGeneric(w) ==
    /\ HasJob(w) /\ mode = "private" /\ job[tile[w]] = NoKey
    /\ Ask(w, Claim, "generic")
    /\ Release(w, "claim")
    /\ UNCHANGED <<callVars, mainVars, jobVars, exit>>

\* build_direct_color_region_plan: a plan, none (the generic path follows) or
\* an error.
Build(w) ==
    /\ pc[w] = "build"
    /\ \/ /\ Goto(w, "prepare")
          /\ UNCHANGED <<verdict, live, then, want, purpose, claim, held>>
       \/ /\ Ask(w, Claim, "generic") /\ Free(w) /\ DropClaim(w, "claim")
          /\ UNCHANGED verdict
       \/ /\ After(w, "err") /\ Free(w) /\ DropClaim(w, "record")
          /\ UNCHANGED <<want, purpose>>
    /\ UNCHANGED <<callVars, mainVars, tile, slot, cache, exit>>

\* prepare_execution_allocation_bytes empties the scratch when it fails.
Prepare(w) ==
    /\ pc[w] = "prepare"
    /\ \/ /\ \E bytes \in 1..want[w] : held' = [held EXCEPT ![w] = bytes]
          /\ cache' = [cache EXCEPT ![w] = IF mode = "private" THEN job[tile[w]] ELSE NoKey]
          /\ Goto(w, "reconcile")
          /\ UNCHANGED <<verdict, live, then, claim>>
       \/ /\ After(w, "err") /\ Free(w) /\ DropClaim(w, "record")
          /\ UNCHANGED cache
    /\ UNCHANGED <<callVars, mainVars, tile, slot, want, purpose, exit>>

\* execute_direct_color_plan_u8_into.
Execute(w) ==
    /\ pc[w] = "execute"
    /\ \/ /\ After(w, "ok") /\ Goto(w, "record")
          /\ UNCHANGED <<live, then, claim, held, cache>>
       \/ After(w, "err") /\ Release(w, "record")
    /\ UNCHANGED <<callVars, mainVars, tile, slot, want, purpose, exit>>

MutDecode(w) ==
    /\ pc[w] = "decode"
    /\ \E result \in {"ok", "err"} : After(w, result)
    /\ IF purpose[w] = "plain"
       THEN Goto(w, "record") /\ UNCHANGED <<live, then, claim, held>>
       ELSE DropClaim(w, "record") /\ UNCHANGED held
    /\ UNCHANGED <<callVars, mainVars, tile, slot, want, purpose, cache, exit>>

\* The generic decode ends; under a claim the pool goes before the claim.
Decode(w) ==
    /\ pc[w] = "decode"
    /\ \E result \in {"ok", "err"} : After(w, result)
    /\ IF purpose[w] = "plain"
       THEN Goto(w, "record") /\ UNCHANGED <<live, then, claim, held>>
       ELSE Free(w) /\ DropClaim(w, "record")
    /\ UNCHANGED <<callVars, mainVars, tile, slot, want, purpose, cache, exit>>

Record(w) ==
    /\ pc[w] = "record"
    /\ slot' = [slot EXCEPT ![tile[w]] = verdict[w]]
    /\ tile' = [tile EXCEPT ![w] = @ + 1]
    /\ After(w, "none")
    /\ Goto(w, "job")
    /\ UNCHANGED <<callVars, mainVars, live, then, want, purpose, claim, held,
                   cache, exit>>

\* The chunk is done: the worker is dropped.
Finish(w) ==
    /\ pc[w] = "job" /\ tile[w] > Last(w)
    /\ exit' = [exit EXCEPT ![w] = "ok"]
    /\ Release(w, "ended")
    /\ UNCHANGED <<callVars, mainVars, jobVars, want, purpose>>

\* A panic in the codec.  A claim the worker stores goes with the worker and
\* after its memory; one that is still local goes first.
Panic(w) ==
    /\ pc[w] \in {"build", "prepare", "execute", "decode"}
    /\ exit' = [exit EXCEPT ![w] = "panic"]
    /\ IF pc[w] = "execute"
       THEN Release(w, "ended")
       ELSE DropClaim(w, "unwind") /\ UNCHANGED <<held, cache>>
    /\ UNCHANGED <<callVars, mainVars, jobVars, want, purpose>>

Unwind(w) ==
    /\ pc[w] = "unwind"
    /\ Free(w)
    /\ Goto(w, "ended")
    /\ UNCHANGED <<callVars, mainVars, jobVars, live, then, want, purpose,
                   claim, cache, exit>>

-----------------------------------------------------------------------------
WorkerStep(w) ==
    \/ ClaimBytes(w) \/ NotifyAll(w) \/ Reconcile(w)
    \/ StartPlain(w) \/ RefuseBuffer(w) \/ StartShared(w) \/ StartCached(w)
    \/ StartGeneric(w) \/ Build(w) \/ Prepare(w) \/ Execute(w) \/ Decode(w)
    \/ Record(w) \/ Finish(w) \/ Panic(w) \/ Unwind(w)

MainStep == BuildShared \/ PlanBatch \/ Spawn \/ Join \/ Collect

Done == main = "returned" /\ UNCHANGED vars

Next == MainStep \/ Done \/ \E w \in Workers : WorkerStep(w) \/ SpuriousWakeup(w)

\* Threads that are not blocked run: the scope's threads and the caller.
Fairness == WF_vars(MainStep) /\ \A w \in Workers : WF_vars(WorkerStep(w))

Spec == Init /\ [][Next]_vars /\ Fairness

-----------------------------------------------------------------------------
(* Properties                                                              *)

\* AdmissionState.live is the shared plan plus every claim not yet dropped,
\* and never exceeds the cap, through refusals, wakeups, reconciliation,
\* failed builds and panics.
AdmittedExactly ==
    plan.worker_count > 0 =>
        live = shared + Total(claim, Cap) /\ live <= Cap

\* A worker that is not unwinding owns no more decode memory than its claim
\* admits, or than the plan set aside for it when there is no admission; what
\* all of them own and the batch's metadata fit the host cap.
MemoryAdmitted ==
    LET steady == [w \in Workers |-> IF pc[w] = "unwind" \/ exit[w] = "panic"
                                     THEN 0 ELSE held[w]]
    IN  /\ mode # "plain" => \A w \in Workers : steady[w] <= claim[w]
        /\ plan.worker_count > 0 =>
              shared + Total(steady, Cap) + Metadata(Len(job), plan.worker_count)
                  <= HostCap

\* The caller is told Ok only if every tile was decoded, and is told of tile i
\* only if all tiles before it were; a panic or a thread that could not be
\* started is never hidden behind a tile's error, and no slot is ever missing.
OutcomeFaithful ==
    main = "returned" =>
        /\ outcome.kind \notin {"missing", "no_slot"}
        /\ outcome.kind = "ok" => \A j \in Jobs : slot[j] = "ok"
        /\ outcome.kind = "tile" /\ plan.worker_count > 0 =>
              /\ \A j \in Jobs : slot[j] # "none"
              /\ slot[outcome.at] = "err"
              /\ \A j \in 1..(outcome.at - 1) : slot[j] = "ok"
        /\ outcome.kind \in {"ok", "tile", "infrastructure"} =>
              \A w \in Workers : exit[w] # "panic"
        /\ outcome.kind = "panicked" =>
              \A w \in 1..(outcome.at - 1) : exit[w] = "ok"

\* Nobody waits for ever for memory: a worker waits only while it holds no
\* claim, and every claim that is dropped or shrunk wakes the others.
CallReturns == <>(main = "returned")
=============================================================================
