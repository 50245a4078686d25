-------------------------- MODULE JpegBatchSession --------------------------
(***************************************************************************)
(* The persistent JPEG batch session (j2k-jpeg/src/batch_session.rs and    *)
(* batch_session/): batches decoded one after the other on worker slots    *)
(* the session keeps.  Each slot is a mutex around a decoder context and a *)
(* scratch pool, whose bytes stay allocated from one batch to the next;    *)
(* planning a batch evicts, shrinks or drops them so that codec memory and *)
(* batch metadata keep to their caps.  A panic while a chunk is decoded    *)
(* poisons its slot.                                                       *)
(*                                                                         *)
(* The calls take &mut self, so everything but the chunks of one batch is  *)
(* sequential.  A chunk takes two steps, so that chunks overlap.  Sizes    *)
(* the allocator rounds up are the unexplained refusals.                   *)
(***************************************************************************)
EXTENDS ByteTotals, Sequences, FiniteSetsExt

CONSTANTS
    MaxBatches,                        \* bound: calls on one session
    Available,                         \* available_tile_batch_workers
    CodecCap, BatchMetadataCap,        \* the two domains of ensure_live_domains
    PlanBytes, SlotBytes, SummaryBytes, ResultBytes, HandleBytes,  \* of metadata
    Calls       \* the calls, as sequences of tiles; a tile says whether its
                \* header or its data is bad and what decoding it claims

ASSUME SessionAssumption ==
    /\ {MaxBatches, Available} \subseteq Nat \ {0}
    /\ {CodecCap, BatchMetadataCap, PlanBytes, SlotBytes, SummaryBytes, ResultBytes,
        HandleBytes} \subseteq Nat
    /\ Calls \subseteq Seq([nature : {"good", "bad_header", "bad_data"},
                            bytes : 1..CodecCap]) \ {<<>>}

VARIABLES
    slots,      \* JpegBatchSession.workers: bytes of context and pool, poison
    capacity,   \* the vector's capacity
    workers,    \* options.workers, 0 for None: scoped threads or rayon
    phase, kind, tiles, batchPlan, spawnFailed,   \* the call in progress
    chunk, result,   \* what became of each chunk and of each tile
    answer,     \* what the last call returned
    panicked,   \* history: a chunk panicked since the last reset
    batches     \* calls so far

jpegVars == <<slots, capacity, workers, phase, kind, tiles, batchPlan,
              spawnFailed, chunk, result, answer, panicked, batches>>

Fresh == [ctx |-> 0, pool |-> 0, poisoned |-> "no"]
Unplanned == [worker_count |-> 0, chunk_size |-> 0]
Outcome(what, where) == [what |-> what, at |-> where]

scoped == workers # 0

Retained(s) == s.ctx + s.pool

\* No slot holds more than an operation of its own and what it retained.
Sum(f) == Total(f, 2 * CodecCap)
RetainedTotal(ss) == Sum([i \in DOMAIN ss |-> Retained(ss[i])])

\* WorkerSlot::release_allocations and prepare_for_planning.
Released(s) == [s EXCEPT !.ctx = 0, !.pool = 0]
Evicted(ss) == [i \in DOMAIN ss |-> IF i = 1 THEN [ss[i] EXCEPT !.pool = 0]
                                    ELSE Released(ss[i])]

Poisoned(ss) == {i \in DOMAIN ss : ss[i].poisoned = "yes"}

-----------------------------------------------------------------------------
(* batch_session/allocation.rs                                             *)

\* PlannedJob::live_bytes: a rejected tile claims nothing.
TileClaim(job) == IF job.nature = "bad_header" THEN 0 ELSE job.bytes

ChunkOf(size, c) == {j \in DOMAIN tiles : (c - 1) * size < j /\ j <= c * size}
Operation(size, c) == Max({TileClaim(tiles[j]) : j \in ChunkOf(size, c)})

MutPlannedFits(n, size, fixed, cap, old) ==
    LET held == [c \in 1..n |-> Operation(size, c)]
    IN  /\ fixed + Max({cap, n}) * SlotBytes + Len(tiles) * ResultBytes
              + (IF scoped THEN n * HandleBytes ELSE 0) <= BatchMetadataCap
        /\ Sum(held) <= CodecCap

\* planned_live_bytes keeps to the caps: fixed is what planning itself owns,
\* old what the slots still retain.
PlannedFits(n, size, fixed, cap, old) ==
    LET held == [c \in 1..n |-> Operation(size, c)
                     + IF c \in DOMAIN old THEN Retained(old[c]) ELSE 0]
    IN  /\ fixed + Max({cap, n}) * SlotBytes + Len(tiles) * ResultBytes
              + (IF scoped THEN n * HandleBytes ELSE 0) <= BatchMetadataCap
        /\ Sum(held) <= CodecCap

\* The plan for r requested workers.
Shape(r) ==
    LET size == DivCeil(Len(tiles), r)
    IN  [chunk_size |-> size, worker_count |-> DivCeil(Len(tiles), size)]

\* select_batch_plan: the most workers that fit, Unplanned if none do.
SelectBatchPlan(most, fixed, cap, old) ==
    LET fit == {r \in 1..most : r <= Len(tiles)
                   /\ PlannedFits(Shape(r).worker_count, Shape(r).chunk_size,
                                  fixed, cap, old)}
    IN  IF fit = {} THEN Unplanned ELSE Shape(Max(fit))

-----------------------------------------------------------------------------
JpegInit ==
    /\ slots = <<>> /\ capacity = 0
    /\ workers \in 0..Available
    /\ phase = "idle" /\ kind = "none" /\ tiles = <<>>
    /\ batchPlan = Unplanned /\ spawnFailed = 0
    /\ chunk = <<>> /\ result = <<>>
    /\ answer = Outcome("none", 0)
    /\ panicked = "no" /\ batches = 0

inputVars == <<kind, tiles, workers, batches>>
runVars == <<batchPlan, spawnFailed, chunk, result>>

Answer(what, where) == phase' = "idle" /\ answer' = Outcome(what, where)

-----------------------------------------------------------------------------
(* Planning: batch_session/runtime.rs and batch_session/planning.rs        *)

\* prepare_job_planning: a poisoned slot ends the call after the slots before
\* it were evicted.
Begin(how, input) ==
    LET bad == Poisoned(slots)
        planned == Len(input) * PlanBytes
        keep == capacity * SlotBytes + planned <= BatchMetadataCap
    IN  /\ phase = "idle" /\ batches < MaxBatches
        /\ batches' = batches + 1
        /\ kind' = how /\ tiles' = input
        /\ batchPlan' = Unplanned /\ spawnFailed' = 0 /\ chunk' = <<>>
        /\ result' = [j \in DOMAIN input |-> "none"]
        /\ IF bad # {}
           THEN /\ slots' = [i \in DOMAIN slots |->
                               IF i < Min(bad) THEN Evicted(slots)[i] ELSE slots[i]]
                /\ UNCHANGED capacity
                /\ Answer("poisoned", 0)
           ELSE /\ slots' = IF keep THEN Evicted(slots) ELSE <<>>
                /\ capacity' = IF keep THEN capacity ELSE 0
                /\ IF planned > BatchMetadataCap THEN Answer("too_large", 0)
                   ELSE phase' = "planning" /\ answer' = Outcome("none", 0)
        /\ UNCHANGED <<workers, panicked>>

BadHeaders == {j \in DOMAIN tiles : tiles[j].nature = "bad_header"}

\* planning_context, then plan_regular_jobs or plan_per_tile_jobs: only the
\* second carries a bad header on to the results.
PlanJobs ==
    /\ phase = "planning"
    /\ IF slots = <<>> THEN UNCHANGED slots
       ELSE \E bytes \in slots[1].ctx..CodecCap :
                slots' = [slots EXCEPT ![1].ctx = bytes]
    /\ \/ Answer("too_large", 0)
       \/ kind = "regular" /\ BadHeaders # {} /\ Answer("tile", Min(BadHeaders))
       \/ /\ kind = "prepared" \/ BadHeaders = {}
          /\ phase' = "prepare" /\ UNCHANGED answer
    /\ UNCHANGED <<inputVars, runVars, capacity, panicked>>

\* planning_live_exceeds_cap.
Exceeds(ss, cap, summary) ==
    \/ RetainedTotal(ss) > CodecCap
    \/ Len(tiles) * PlanBytes + cap * SlotBytes + summary * SummaryBytes
          > BatchMetadataCap

ReleasedAll(ss) == [i \in DOMAIN ss |-> Released(ss[i])]

\* prepare_retained_summary: release what the slots retain, then drop them,
\* until the planning phase fits; rounded says the summary's own vector was
\* rounded up beyond what is left.
Trimmed(rounded) ==
    LET ss == IF Exceeds(slots, capacity, Len(slots))
              THEN ReleasedAll(slots) ELSE slots
    IN  IF rounded \/ Exceeds(ss, capacity, Len(slots))
        THEN [ss |-> <<>>, cap |-> 0] ELSE [ss |-> ss, cap |-> capacity]

\* The first plan of prepare_batch: as it is, after a release, after dropping
\* all slots.
FirstPlan(from, most) ==
    LET planned == Len(tiles) * PlanBytes
        fixed == planned + Len(from.ss) * SummaryBytes
        p == SelectBatchPlan(most, fixed, from.cap, from.ss)
        free == p = Unplanned /\ RetainedTotal(from.ss) # 0
        ss == IF free THEN ReleasedAll(from.ss) ELSE from.ss
        q == IF free THEN SelectBatchPlan(most, fixed, from.cap, ss) ELSE p
        drop == q = Unplanned /\ from.cap > most
    IN  IF drop
        THEN [ss |-> <<>>, cap |-> 0,
              plan |-> SelectBatchPlan(most, planned, 0, <<>>)]
        ELSE [ss |-> ss, cap |-> from.cap, plan |-> q]

\* ensure_worker_slots, then the plan again for what the slots now are.
Staffed(from) ==
    LET n == from.plan.worker_count
        new == Len(from.ss) < n
        ss == IF new THEN [i \in 1..n |-> Fresh] ELSE SubSeq(from.ss, 1, n)
        cap == IF new THEN n ELSE from.cap
    IN  [ss |-> ss, cap |-> cap,
         plan |-> SelectBatchPlan(n, Len(tiles) * PlanBytes + n * SummaryBytes,
                                  cap, ss)]

\* tile_batch_worker_count.
DesiredWorkers == Min({Len(tiles), IF scoped THEN workers ELSE Available})

\* prepare_batch.  It fails with the session as far as it got.
PrepareBatch ==
    /\ phase = "prepare"
    /\ \E rounded \in BOOLEAN :
        LET first == FirstPlan(Trimmed(rounded), DesiredWorkers)
            last == Staffed(first)
        IN  \/ /\ ~rounded                       \* no memory for the summary
               /\ slots' = Trimmed(FALSE).ss /\ capacity' = Trimmed(FALSE).cap
               /\ Answer("too_large", 0) /\ UNCHANGED <<batchPlan, chunk>>
            \/ /\ first.plan = Unplanned
               /\ slots' = first.ss /\ capacity' = first.cap
               /\ Answer("too_large", 0) /\ UNCHANGED <<batchPlan, chunk>>
            \/ /\ first.plan # Unplanned
               /\ Len(first.ss) < first.plan.worker_count
               /\ slots' = <<>> /\ capacity' = 0      \* no memory for the slots
               /\ Answer("too_large", 0) /\ UNCHANGED <<batchPlan, chunk>>
            \/ /\ first.plan # Unplanned       \* no second plan, or rounded up
               /\ slots' = last.ss /\ capacity' = last.cap
               /\ Answer("too_large", 0) /\ UNCHANGED <<batchPlan, chunk>>
            \/ /\ first.plan # Unplanned /\ last.plan # Unplanned
               /\ slots' = SubSeq(last.ss, 1, last.plan.worker_count)
               /\ capacity' = last.cap
               /\ batchPlan' = last.plan
               /\ chunk' = [c \in 1..last.plan.worker_count |-> "pending"]
               /\ phase' = "run" /\ UNCHANGED answer
    /\ UNCHANGED <<inputVars, spawnFailed, result, panicked>>

-----------------------------------------------------------------------------
(* Execution: batch_session/scheduler.rs and batch_session/worker.rs       *)

FailedChunks == {c \in DOMAIN chunk : chunk[c] \in {"refused", "panicked"}}

\* The chunk's task locks its slot.
StartChunk(c) ==
    /\ phase = "run" /\ chunk[c] = "pending"
    /\ chunk' = [chunk EXCEPT ![c] =
                   IF slots[c].poisoned = "yes" THEN "refused" ELSE "running"]
    /\ UNCHANGED <<inputVars, slots, capacity, phase, batchPlan, spawnFailed, result,
                   answer, panicked>>

\* It decodes the first n of its tiles and is done with all of them, meets
\* warnings beyond the claim (retain_within_planned_warning_claim) or panics,
\* which poisons the slot.
EndChunk(c, end) ==
    LET mine == ChunkOf(batchPlan.chunk_size, c)
    IN  /\ phase = "run" /\ chunk[c] = "running"
        /\ \E n \in 0..Cardinality(mine) :
              /\ (n = Cardinality(mine)) <=> (end = "ok")
              /\ result' = [j \in DOMAIN result |->
                              IF j \in mine /\ j < Min(mine) + n
                              THEN IF tiles[j].nature = "good" THEN "ok" ELSE "err"
                              ELSE result[j]]
        /\ \E bytes \in 0..Operation(batchPlan.chunk_size, c) :
              slots' = [slots EXCEPT ![c] =
                          [ctx |-> @.ctx, pool |-> @.pool + bytes,
                           poisoned |-> IF end = "panicked" THEN "yes" ELSE "no"]]
        /\ chunk' = [chunk EXCEPT ![c] = end]
        /\ panicked' = IF end = "panicked" THEN "yes" ELSE panicked
        /\ UNCHANGED <<inputVars, capacity, phase, batchPlan, spawnFailed, answer>>

\* Rayon need not start what is left once a chunk failed.
SkipChunk(c) ==
    /\ phase = "run" /\ ~scoped /\ chunk[c] = "pending" /\ FailedChunks # {}
    /\ chunk' = [chunk EXCEPT ![c] = "skipped"]
    /\ UNCHANGED <<inputVars, slots, capacity, phase, batchPlan, spawnFailed, result,
                   answer, panicked>>

\* A scoped thread cannot be started: no later one is tried.
SpawnFails(c) ==
    /\ phase = "run" /\ scoped /\ batchPlan.worker_count > 1 /\ spawnFailed = 0
    /\ \A d \in c..batchPlan.worker_count : chunk[d] = "pending"
    /\ spawnFailed' = c
    /\ chunk' = [d \in DOMAIN chunk |-> IF d < c THEN chunk[d] ELSE "skipped"]
    /\ UNCHANGED <<inputVars, slots, capacity, phase, batchPlan, result, answer,
                   panicked>>

Errs == {j \in DOMAIN result : result[j] = "err"}
Missing == {j \in DOMAIN result : result[j] = "none"}

MutFinished ==
    IF FailedChunks # {} THEN Outcome(chunk[Min(FailedChunks)], Min(FailedChunks))
    ELSE IF kind = "regular" /\ Errs # {} THEN Outcome("tile", Min(Errs))
    ELSE IF Missing # {} THEN Outcome("missing", Min(Missing))
    ELSE Outcome(IF kind = "regular" THEN "ok" ELSE "results", 0)

\* The result of run_chunks_rayon or run_chunks_scoped; without an error that
\* of retained_live_bytes and collect_results or collect_per_tile_results.
Finished ==
    IF spawnFailed # 0 THEN Outcome("spawn", spawnFailed)
    ELSE IF FailedChunks # {}
    THEN IF scoped
         THEN Outcome(IF batchPlan.worker_count = 1 /\ chunk[1] = "panicked"
                      THEN "unwound" ELSE chunk[Min(FailedChunks)],
                      Min(FailedChunks))
         ELSE IF \E c \in FailedChunks : chunk[c] = "panicked"
         THEN Outcome("panicked", 0)
         ELSE Outcome("refused", 0)
    ELSE IF RetainedTotal(slots) > CodecCap THEN Outcome("too_large", 0)
    ELSE IF kind = "regular" /\ Errs # {} THEN Outcome("tile", Min(Errs))
    ELSE IF Missing # {} THEN Outcome("missing", Min(Missing))
    ELSE Outcome(IF kind = "regular" THEN "ok" ELSE "results", 0)

FinishBatch ==
    /\ phase = "run"
    /\ \A c \in DOMAIN chunk : chunk[c] \notin {"pending", "running"}
    /\ \/ phase' = "idle" /\ answer' = Finished
       \/ FailedChunks = {} /\ spawnFailed = 0 /\ Answer("too_large", 0)   \* rounded up
    /\ UNCHANGED <<inputVars, runVars, slots, capacity, panicked>>

-----------------------------------------------------------------------------
MutReset ==
    /\ phase = "idle" /\ slots # <<>>
    /\ slots' = [i \in DOMAIN slots |-> [slots[i] EXCEPT !.ctx = 0]]
    /\ panicked' = "no"
    /\ answer' = Outcome("none", 0)
    /\ UNCHANGED <<inputVars, runVars, capacity, phase>>

\* reset: contexts are cleared and poison is; the pools keep their capacity.
Reset ==
    /\ phase = "idle" /\ slots # <<>>
    /\ slots' = [i \in DOMAIN slots |->
                    [slots[i] EXCEPT !.ctx = 0, !.poisoned = "no"]]
    /\ panicked' = "no"
    /\ answer' = Outcome("none", 0)
    /\ UNCHANGED <<inputVars, runVars, capacity, phase>>

SetOptions ==
    /\ phase = "idle"
    /\ \E n \in 0..Available : workers' = n
    /\ UNCHANGED <<kind, tiles, batches, runVars, slots, capacity, phase, answer,
                   panicked>>

JpegNext ==
    \/ \E how \in {"regular", "prepared"}, input \in Calls : Begin(how, input)
    \/ PlanJobs \/ PrepareBatch \/ FinishBatch \/ Reset \/ SetOptions
    \/ \E c \in DOMAIN chunk :
          \/ StartChunk(c) \/ SkipChunk(c) \/ SpawnFails(c)
          \/ \E end \in {"ok", "refused", "panicked"} : EndChunk(c, end)

JpegSpec == JpegInit /\ [][JpegNext]_jpegVars

-----------------------------------------------------------------------------
(* Properties                                                              *)

\* What the running chunks may claim.
Decoding == [c \in DOMAIN chunk |->
                IF chunk[c] = "running" THEN Operation(batchPlan.chunk_size, c)
                ELSE 0]

\* Codec memory: while tiles are planned nothing but one context stands beside
\* the planning decoder's full claim; while chunks run, all that old batches
\* left in the slots and all that the running chunks claim fit one codec cap;
\* so a batch that was planned is never refused when its results are counted.
CodecWithinCap ==
    /\ phase = "planning" =>
          \A i \in DOMAIN slots : slots[i].pool = 0 /\ (i # 1 => slots[i].ctx = 0)
    /\ phase = "run" => RetainedTotal(slots) + Sum(Decoding) <= CodecCap
    /\ RetainedTotal(slots) <= CodecCap

\* A panic leaves a poisoned slot and every later batch is refused for it until
\* reset; a batch is refused as poisoned for no other reason.
PoisonUntilReset ==
    /\ phase = "idle" => (panicked = "yes" <=> Poisoned(slots) # {})
    /\ answer.what = "poisoned" => panicked = "yes"

\* Ok and per-tile results account for every tile; a codec error names a tile
\* that is bad, and none before it is bad in the same way; no result is
\* missing; errors of threads are never hidden behind those of tiles.
AnswerFaithful ==
    phase = "idle" =>
        /\ answer.what # "missing"
        /\ answer.what = "ok" => \A j \in DOMAIN result : tiles[j].nature = "good"
        /\ answer.what = "results" =>
              \A j \in DOMAIN result :
                  result[j] = IF tiles[j].nature = "good" THEN "ok" ELSE "err"
        /\ answer.what = "tile" =>
              /\ answer.at \in DOMAIN tiles /\ tiles[answer.at].nature # "good"
              /\ \A j \in DOMAIN tiles :
                    j < answer.at => tiles[j].nature # tiles[answer.at].nature
        /\ answer.what \in {"ok", "tile", "results"} =>
              FailedChunks = {} /\ spawnFailed = 0

\* What decode_tiles_into and its variants document (batch_session.rs:121):
\* the error is "the first codec failure in input order".
FirstFailureInInputOrder ==
    phase = "idle" /\ answer.what = "tile" =>
        \A j \in DOMAIN tiles : j < answer.at => tiles[j].nature = "good"
=============================================================================
