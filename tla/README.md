# Verification of the signinum resource, batch and completion protocols

signinum is a family of JPEG 2000 / HTJ2K / JPEG codecs in Rust (crates `j2k*`)
with CPU, CUDA and Metal back ends. The codecs themselves are sequential
numeric code. What a test suite hardly reaches is what surrounds them. Below
them lies the CUDA runtime: host memory shared under one cap, device buffers
reused while kernels are still running, and a context that must be given up,
exactly once and for good, when nobody can say whether submitted work has
completed. Above them lie the batch decoders: threads that compete for memory,
sessions that outlive a panic, and results that must be those of the inputs they
are returned for. This directory models both in TLA+, checks them with TLC on
small instances and proves with TLAPS, for every instance, the safety of the
runtime, of its host-memory ledgers, of all batch decoders and of the file
transaction.

Paths below are relative to `crates/j2k-cuda-runtime/src/` unless they name
another crate.

## 1. Inventory

| Component | State | Operations | Hard behaviour |
|---|---|---|---|
| Host-memory authority, `context/host_budget.rs` | external, pinned and provisional byte totals, peak, poison flag, behind one mutex | register / reconcile / drop an owner, reserve / commit / drop a replacement, charge / release / clear pinned bytes | the mutex is free between reservation and commit; errors and panics in between; totals at the cap |
| Resource lifecycle, `context/lifecycle.rs`, `operations.rs`, `inner.rs` | gate mutex, atomic poison flag, reference count of the context | recoverable, completion and stateful driver operations; teardown | the flag is read without the gate; panics; a reference leaked on purpose |
| Device-buffer pool, `memory/pool.rs`, `memory/pool/*` | free list (first fit or size buckets), deferred list and bytes, number of reuse holds | take, recycle, defer, release; admission with eviction | asynchronous kernels, several holds, the pool is unlocked while a victim is freed, every release may fail |
| Queued execution, `execution.rs`, `execution/queued.rs` | reuse guard and the resources of submitted work | launch, finish, drop | completion may stay uncertain |
| Page-locked staging, `memory/pinned_staging.rs`, `memory/pinned_staging/**` | cached, quarantined and active blocks with byte counters; an operation gate | checkout, upload, recycle, abandon, verify | two locks (pool, authority) per change; failure paths may not allocate |
| JPEG CUDA session ledger, `j2k-jpeg-cuda/src/session/` | session leases, cache bytes, the session's owner at the authority | reserve, allocate, transact, bind | nested locks, drop handlers that lock |
| Submitted CUDA group, `j2k-cuda/src/decoder/pending_completion.rs`, `batch/external.rs` and the queued stages of `j2k-cuda-j2k-engine` | what the group owns while the device runs, its status buffers, its event | poll, wait, drop | which error means that the device is done; several stages fail; the context is poisoned meanwhile |
| Borrowed tile batches, `j2k/src/batch/` | admitted bytes behind a mutex and a condition variable, a plan and scratch per worker | plan, spawn, claim, reconcile, decode, join, collect | waiting for memory, panics, a spawn that fails |
| Owned CPU batches, `j2k/src/owned_batch/`, `j2k-native/src/direct_cpu/referenced_staged/` | workers and image scratch kept across calls, a failed flag per image, staged state per image | prepare, decode; per window: begin, tiles, entropy, finish, store; compact | block-level parallelism within an image, scratch reused after an abort |
| JPEG batch session, `j2k-jpeg/src/batch_session/` | worker slots with retained memory, poison | decode, reset, set options | memory kept between batches, a panic that outlives its batch, two schedulers |
| Installation of two generated files, `xtask/src/codegen_commands/transaction.rs` | targets, staged files and backups on disk | stage, move aside, install, sync, roll back | every call may fail, kill, power loss, leftovers |
| Kernel cache, event handles | load-once caches | load, record, wait | ownership across streams |
| Metal back end | buffer caches | submit | as the CUDA runtime |
| Codecs, transcoders, tools | none beyond one call | pure functions and I/O | numeric |

How they interact: every driver call of the pool, the staging and the queued
executions goes through the lifecycle's gate; the pool and the staging read the
lifecycle's flag without it. The staging charges the authority under its own
lock; sessions of `j2k-jpeg-cuda` are the authority's external owners. Engines
(for example `j2k-cuda-j2k-engine/src/htj2k_decode/completion.rs`) take buffers
from the pool, open a hold, launch, read a status buffer back and release. The
batches of `j2k-cuda` own such submissions until their caller polls, waits for or
drops them. The CPU batches share nothing with the CUDA runtime; both use the
ordered collection of `j2k-core`.

What makes each part correct:

* authority - totals are the sums of what clients hold, never above the cap,
  also counting memory allocated and not yet committed; a commit within its
  reservation is not refused;
* lifecycle - driver operations are serial; none starts in quarantine; doubt is
  published before the gate is free and before a thread blocks; teardown frees
  piecemeal only when safe;
* pool - nothing in flight is freed or handed out; one owner per buffer on all
  error paths; limits hold; calls end;
* staging - pool and authority agree, no block leaves the books, a block under a
  failed transfer is not reused;
* session ledger - leases, cache, ledger and authority agree between calls, the
  memory really held fits the cap, a ledger gives itself up only after a panic;
* submitted group - nothing it owned is released while the device may use it,
  success means that all statuses are good, doubt of one stage reaches the
  caller, nothing leaks without a reason;
* tile batches - memory in use is admitted and within the cap, calls return, the
  outcome is that of the tiles, the threads and the panics;
* owned batches - a row holds its input's samples, every input is answered once
  and fails only for faults of its own;
* JPEG session - codec memory within the cap with what earlier batches left,
  refusal exactly from a panic to the next reset;
* file transaction - no original is lost, the answer describes the disk, success
  is durable, leftovers of another process are not touched.

The complete list of components, including those left out and why, is in
`PROJECT.json`; so are the hazards, each at its line.

## 2. Modules

| Module | Role |
|---|---|
| `ByteTotals` | sum of a function to naturals, as the cardinality of a set of tokens, so that it needs no recursion; division that rounds up |
| `HostBudget` | the authority and its clients |
| `SerialDriver` | abstract: one driver operation at a time, quarantine is final |
| `CudaContext` | what the models of one CUDA context share: threads, gate, poison flag, locations |
| `ResourceLifecycle` | gate, flag, operation kinds, panics, teardown; implements `SerialDriver` |
| `BufferPool` | device-buffer pool, reuse guards, queued executions |
| `PinnedStaging` | page-locked staging; extends `HostBudget` by its own state, with `HostBudget`'s `Spec` as a property |
| `HostLedger` | sessions of `j2k-jpeg-cuda`, composed with `HostBudget` in the same way |
| `PendingCompletion` | one submitted group of `j2k-cuda` up to its answer |
| `RegionBatch` | borrowed tile batches of `j2k` with their admission |
| `StagedBatch` | owned CPU batches of `j2k` and the staged decoding of `j2k-native` |
| `JpegBatchSession` | batch session of `j2k-jpeg` |
| `PairTransaction` | file transaction of `xtask` |
| `ByteTotalsTheorems` | lemmas about sums, least elements and rounded division |
| `HostBudgetProofs`, `PinnedStagingProofs`, `HostLedgerProofs`, `PairTransactionProofs` | invariants and proofs of the module of that name |
| `ContextProofs` | the same for `ResourceLifecycle` and `BufferPool` |
| `TileBatchProofs` | the same for `RegionBatch` and `JpegBatchSession` |
| `StagedBatchProofs` | the same for `StagedBatch` |
| `MC*` | small instances |

Operators whose name begins with `Mut` are deliberate faults (a dropped guard, a
missing reset). They are used by no specification; substituting one for the
definition it stands beside must break the property it is paired with in
`PROJECT.json`.

### HostBudget

`auth` is `HostBudgetState`. Every operation of the code holds the mutex from its
first read to its last write and is therefore one action; what it does to the
state is an operator of its own (`ReconcileExternal`, `ReservePinnedBytes`, ...)
that contains the early returns and the poisoning on underflow. A reservation
borrows its owner mutably, so the owner's other operations are disabled while it
is in `open`. `Allocate` is the caller's work between reservation and commit: it
is told `external_live_bytes` and keeps its allocation within the cap, as the
allocating callers of `j2k-jpeg-cuda` do. `Commit` is not restricted to what was
allocated: any request may be committed and may be refused. After
`ClearPinnedAfterContextDrop` owners and transactions live on.

### ResourceLifecycle

A thread goes through the locations `lock`, `check`, `current`, `operation`,
`failed`, `sync`, `unwind`; a step lies between two points where another thread
can see the difference (gate, flag, driver call). `doubt` is a history variable:
an error was reported and no synchronization has succeeded since. `kind`
distinguishes the three wrappers of `operations.rs` and, as `release`, the drop
of a device allocation, which leaks a reference to the context if it fails, so
that the context is then never torn down. A panic publishes the flag
(`PoisonOnUnwind`) before the gate is unlocked and marked poisoned by the
standard library: two steps.

### BufferPool

One action per lock-sized region. A take is check / locked choice / allocation;
a recycle is check / locked deferral or admission rounds / release of a victim /
check of the flag. `inflight[t]` is what submitted work of thread `t` may still
access; `orphaned` is the same for abandoned guards. A model thread is one
submission: a program thread that keeps several queued executions is several
model threads. `Launch` requires the launching thread to own the buffers, and
`DropDetached` that a detached buffer is not in use: both are the safety
contracts that the unsafe functions state. `Readback`, `ReadbackFails` and
`AfterRecovery` follow the HTJ2K engine, which releases its hold after a
synchronous copy, or after a recovered failure without a second
synchronization. `cuCtxSynchronize` (`AllComplete`) is external: success means
that all work of the context has completed.

### PinnedStaging

The module extends `HostBudget`: it adds its own variables to the authority's and
takes the authority's steps by calling its operators. `StagingSpec` is the
specification of the composition, and `ImplementsBudget`, which is `HostBudget`'s
`Spec` itself, says that the authority sees nothing but its own steps. (Extending
rather than instantiating lets the proofs cite the authority's theorems.)

The operation gate admits one transaction, so `pc`, `job` and `victim` are those
of its holder; external owners (`OwnerStep`) and a thread that quarantines the
context (`PeerQuarantines`) interleave between its steps. `slots` is the capacity
of the quarantine list that `prepare_unwind_quarantine_slots` reserves;
without one the model takes the branch in which the metadata cannot grow. `dma`
records blocks that a failed transfer may still read.

### HostLedger

This module extends `HostBudget` as well; its specification is `SessionSpec`.
A session and its clones share one ledger, whose allocation gate covers every
operation that changes it; the locks of the plan cache and of the owner nest
inside the gate and need no state of their own. `Enter` reads the poison flag
before `LockAllocations` gets the gate. The calls of a session are `resolve`
(`transact_cache`, then `reserve` for the packet found), `allocate`
(`allocate_host_owner`), `existing` (`reserve_existing_host_owner`), `bind` and the
drop of a lease; a step ends at each call of the authority, where other sessions
and the pinned pool (`PinnedStep`) may act. `reserve` is two steps because it
reads the pinned bytes under one lock and reconciles under another. A panic in
the caller's closure drops the reservation while unwinding and leaves the gate
broken; the next thread to reach it poisons the ledger. `DropClones` frees the
plan cache with the last clone, while leases keep the ledger and its charge alive
until `DropLedger`. `cache` and the leases are the memory really held;
`cacheRetained`, `active` and the authority's `bytes` are the three sets of books.
Assumed of the closures: they stay within what they are told (`HostPhaseBudget`)
and drop no lease of their session, which would wait for the gate they hold.

### PendingCompletion

One behaviour is one submitted group of any shape: resident or external output,
chunked or plain HTJ2K cleanup, classic stage, wavelet, each present or not.
`fate` says what became of every part the group owns. The driver appears as three
conjuncts: a call that completes everything before it, one that fails and
recovers by a synchronization, and one that leaves doubt and poisons the
lifecycle (module `ResourceLifecycle` says why these are all). A poisoned context
refuses every call, so `Completes` needs a clear flag, and retains what is
dropped. `PeerPoisons` is any other thread of the context. `complete` is one
action per stage; the answer is what `completion_is_uncertain` distinguishes.

### RegionBatch

The caller (`MainStep`) plans, spawns, joins and collects; a worker
(`WorkerStep`) takes one of the three paths of the code for each tile: shared
plan, its cached plan (`try_cached`), or the generic decoder. A step ends where
another thread can act: at the mutex of the admission budget, at the wait, at the
end of a tile. `Cap` and `MetadataCap` are in units of small model bytes; a claim
is `Claim`, and `Reconcile` shrinks it to what a plan needs. `waiting` workers are
woken by `NotifyAll`, and by nobody in particular (`SpuriousWakeup`). The errors
of a poisoned admission mutex are left out: no code panics while it holds that
mutex. While a panicking worker unwinds, locals go before the worker's own
memory; `MemoryAdmitted` therefore speaks of workers that are not unwinding.

### StagedBatch

A call prepares its inputs, groups those that parse (`Grouped`: groups in the order
of their first images, `Leaders`, and in each the images `Alike` it), and decodes
each group plainly or in windows of staged images. An input carries the fault it
has, if any, by stage, tile and block; all else about its samples is the call and
the input's own index, so that a row mixed up with another, or with what an
earlier call left, is visible. What a stage does to the scratch of one image is
an operator (`Begin`, `PrepareTile`, `DecodeBlock`, `FinishTile`, `Store`) that gives
the new scratch and the verdict; `Stage` applies it to all images of the window, or
to a part of each worker's chunk (`Partial`) when `run_retained_chunks` fails, which
`Abort`s the call and leaves flags and scratch as they are for the next. Entropy
jobs of a window run on several workers: loading the failed flag (`Load`) and
executing the block (`Execute`) are two steps. A panic in an inline worker poisons
the mutex of `workers`, and every later call answers `SchedulerPoisoned`; the
scratch mutexes ignore poison, as the code does. Lack of worker memory (`Starve`)
is recorded in `starved`, since it is the only failure that is not the input's own.

### JpegBatchSession

The session's `slots` outlive a batch: what a worker retained, whether its mutex
is poisoned. A batch is planning of all jobs, choice of workers under the two
caps with release and retry, chunks under either scheduler (`scoped` threads, or
rayon with its short circuit `SkipChunk`), and collection. Between batches the
caller may reset or change options. Assumed: decoding a tile stays within the
bytes planned for it, as the codec's own allocation limit ensures. The smaller
default of one-shot batches is another value of `Available`.

### PairTransaction

Every file-system call is a step with a failing twin; `durable` is what a power
loss may bring back. A call starts on a settled disk; the names of one entry
change in the order of the calls, the two entries independently. Two processes
that install the same pair at once are not modelled.

## 3. Runs

| Run | Instance | Distinct states | Shows |
|---|---|---|---|
| `host_budget` | 2 owners, 2 blocks, cap 4, requests 0..5 | 4,801 | exact charges, cap, uncommitted memory within the cap, honoured commits |
| `resource_lifecycle` | 3 threads | 34 thousand | doubt is quarantined, published before blocking, safe teardown, refinement of `SerialDriver` |
| `buffer_pool` | 2 threads, sizes 1, 2, 4; size buckets; limits 2 buffers, 3 bytes, 1 bucket | 1.1 million | no reuse in flight, exact holds, one owner, limits, final quarantine, every started call ends |
| `pinned_staging` | 3 blocks, 1 owner, cap 4, requests 0..3; 2 cached buffers, 2 cached bytes | 50 thousand | agreement of pool and authority, no lost block, no reuse under a transfer, refinement of `HostBudget` |
| `host_ledger` | 2 sessions, 2 threads, 2 leases, 1 pinned block, cap 2 | 616 thousand | agreement of all books, held memory within the cap, no self-inflicted poison, refinement of `HostBudget` |
| `pending_completion` | every shape of one group | 11,284 | nothing freed while running, success validated, doubt reported, no leak without a reason and no output kept from the caller |
| `pending_completion_certain` | as above | until the counterexample | a certain error with work in flight, see 6 |
| `region_batch` | up to 3 tiles with or without the one plan key, 3 workers, memory for 2 claims | 497 thousand | exact admission, memory admitted, faithful outcome, every call returns |
| `staged_batch` | 2 calls, groups of up to 3 images, window 2, 3 workers, up to 3 blocks | 231 thousand | rows are their inputs', every input answered once and for its own faults |
| `jpeg_batch_session` | 2 batches of up to 3 tiles, 2 workers, codec cap 3 | 90 thousand | codec memory within the cap, poison until reset, faithful outcome |
| `jpeg_batch_order` | as above | until the counterexample | the documented order of errors does not hold, see 6 |
| `pair_transaction` | 2 calls | 5,762 | originals kept, true and durable answers, leftovers untouched |

Why the bounds are enough. The request set of `host_budget` reaches past the cap,
and two owners with open transactions plus pinned charges exercise every
competition for headroom, including a reservation of nothing. Two pool threads
give two overlapping holds and a peer for every unlocked window; with one bucket
two of the three sizes evict each other although their bytes would fit together,
and the third is always rejected. The limit on the number of buffers and the
first-fit policy do not come into play; `LimitsRespected` is proved for both policies
and all limits. Three staging blocks allow an active checkout,
an evicted block and a further checkout in quarantine together, which is the
worst case the slot count has to cover. Two sessions on a cap of two bytes compete
for the last byte with each other and with the pinned block; two threads meet at
one gate or use a session each; two leases let one survive the other. Three tiles
on three workers give chunk sizes that do not divide evenly, a tile of
another kind makes a worker give up its cached plan and claim again, and fewer
claims than workers make them wait.
Two calls or batches are what it takes for one to find what the other left; a
window of two in a group of three gives a full and a partial window, and three
blocks put two workers on one image. The cap and the limits are the only
numbers; nothing counts without bound, since holds are limited by the threads
and `abandoned` by the poison flag that refuses every further hold once a guard
has been abandoned.

Symmetry is used in the runs of the host-memory models and never with
liveness. Deadlock checking is off in the runtime models, in
`StagedBatch`, `PairTransaction` and `PendingCompletion`, because each system may
rightly stop: all references dropped, everything leaked in quarantine, a group
answered, a caller that makes no further call. It is on for `RegionBatch`, where a
returned call is the only end, and for `JpegBatchSession`, which can always be
reset.

Fairness (`FairSpec`): weak fairness of `Step(t)`, the continuation of a call that
has started. No code path waits for anything except the pool mutex and the gate,
driver calls are taken to return, and the operating system schedules runnable
threads. Starting a call (`Call(t)`) is never assumed; `CallsEnd` speaks of
behaviours in which callers stop calling. A loop of evictions that other threads
undo for ever is thereby excluded by the environment, as it is in the code.
`RegionBatch` has weak fairness of the caller and of each worker: they are scoped
operating-system threads, and decoding a tile is taken to end. Wakeups without a
notification are possible and never relied on.

## 4. Proofs

Every assumption is a named one on constants, evaluated by TLC in the runs:

* `BudgetAssumption` - finite sets of owners and blocks, a positive cap;
* `LifecycleAssumption` - `NoThread \notin Threads`;
* `PoolAssumption` - finite threads and buffers, positive sizes, one of the two
  policies, limits that are natural numbers;
* `StagingAssumption` - limits that are natural numbers;
* `LedgerAssumption` - finite threads and leases, every amount up to the cap can
  be asked for;
* `BatchAssumption` - positive numbers of tiles, workers, claims and bytes;
* `SessionAssumption` - caps, worker count and byte sizes of a JPEG session that are
  natural numbers, calls of finitely many tiles whose parts fit the codec cap;
* `StagedAssumption` - positive window, workers, blocks and calls; batches that are
  sequences of images with at least one tile, each with at most one fault, which a
  planned image does not have outside the staged path;
* `CallsAssumption` - a positive number of calls.

Threads, buffers, leases, tiles, sizes and limits are otherwise arbitrary.

*Authority* (`HostBudgetProofs`). `BudgetInv` is the conjunction of types, exact
totals, the cap and `OwnerBooks`. Neither the cap nor exactness is inductive
alone: that a subtraction does not underflow needs exact totals, that a commit
fits needs to know that a transaction replaces no more than its owner is charged
and holds no more than it excluded and reserved. The sum of a function after one
change is `TotalUpdate`; the update, bounds and monotonicity lemmas of
`ByteTotalsTheorems` rest on cardinalities of token sets. From `BudgetInv` follow
`TypeCorrect`, `ChargesAreExact`, `CapRespected`, `TransactionsWithinCap` and the
action property `CommitsAreHonoured`, for every cap, every set of owners and
blocks and every request.

*Lifecycle* (`ContextProofs`). `LifecycleInv` adds to the types that the
gate's holder is the only thread past the lock (`Exclusive`), that the flag is
down between the check and the first failure (`FlagOwned`), that unpublished
doubt belongs to a holder still dealing with it (`DoubtOwned`), and what the
teardown saw (`TornDown`). `DoubtIsQuarantined` is not inductive: while the gate is
held doubt may be unpublished, so one must say who will publish it. From it
follow the three safety theorems and `LifecycleImplementsSerialDriver`, step by
step under the mapping `running <- Driving`, `certain <- ~doubt`,
`quarantined <- poisoned`, for any number of threads.

*Tile batches* (`TileBatchProofs`). `AdmissionInv` says that before planning
nobody runs, that from then on the total is the shared plan plus all claims, and
what the location of a worker says of its claim: one that asks holds none, one
that prepares holds what it asked for, one that reconciles uses no more than it
holds. `AdmittedExactly` is not inductive: without the last two a reconciliation
could subtract more than the worker has admitted, without the first a grant would
overwrite a claim still in the total. The lemma `TotalUpdate` carries each change.
`AdmissionIsExact` holds for every number of tiles, workers and claims.

`BatchInv` is what `MemoryAdmitted` and `OutcomeFaithful` need beyond that. The cap
on memory in use is not a matter of admission alone: in the mode without it the
number of workers is the bound, so the plan must be sound (`SoundPlan`: as many
workers as the memory pays for, chunks that together cover the tiles). That is
arithmetic on divisions (`Quotient`, `Cancel`, `Ceiling`, `TilesCovered`); that there
is a greatest number of workers that fits, and a first failure, follows from
well-foundedness (`LeastExists`). The outcome
is faithful because each worker fills the slots of its own chunk in order, all of
them unless it panics (`WorkerOf`), and the caller answers only when
every worker that was started has ended (`Joining`); without either, a slot still
empty could be read as a result.

*JPEG session* (`TileBatchProofs`). `JpegInv` is the three properties of the run with
what they need: that a regular batch past its planning has no bad header
(`HeadersChecked`), that no chunk has run and no slot is poisoned before its batch
runs (`Untouched`), and what each chunk has made of its tiles (`Decoded`). The cap is
not inductive in the form in which it matters: what the slots retain fits at any
moment only because the plan has promised it together with the full claims of the
chunks that are still to run. `Load` counts, for each slot, what it retains plus what
its chunk may still claim; a chunk that starts or ends turns one into the other, and
the sum of the loads never grows. That what is released or dropped before planning
leaves the retained total within the cap, that an accepted plan has counted every
slot and every claim, and that the rounded chunks cover the call is arithmetic on
sums and divisions. `SessionPoisoned` is an
equivalence: a slot is poisoned if and only if a chunk has panicked since the last
reset. `SessionAnswers` follows because a chunk that ended well has decoded all its
tiles; without it a result slot could be missing.

*Owned batches* (`StagedBatchProofs`). The properties speak of a call that has
returned; `StagedInv` says what every stage has made of every image by then.

* `Ground` holds at all times: the groups partition the parsed inputs
  (`Partitions`), no call ended for a missing result.
* `GroupKnown` and `WindowKnown` say which slots of the group are behind the window,
  in it and ahead of it (`Sides`), how the tile index and the tile count relate
  (`Tally`), and, by phase, where each image of the window is (`Progress`):
  `TileReady`, `TileOpen` with no block decoded, `TileDecoding` during the entropy
  stage, `TileDecoded`, `Finished`.
* For an image still in the race, its scratch is exactly that of its own call,
  input and tile: planes of all tiles before, bands of the blocks decoded so far,
  and the staged state that says so. It has survived every fault up to here
  (`Spared`), so none it meets later was passed over.
* An image with an error is to blame for it, or met a worker without memory
  (`Calm`, `Blamed`).
* `Staffing`: each job of the entropy stage has exactly one worker before it or an
  answer behind it, unless a worker is lost and the call will abort; the bands of an
  image that nothing has failed are those of its answered jobs, so that when all
  workers are joined they are all of them.
* `Answers(m)`: the errors and rows so far answer exactly the inputs that did not
  parse and those of the first m groups.

`RowsAreTheirInputs` is not inductive because a row is copied from a scratch that
other calls have used: `BeginWindow` must be shown to clear it whatever it held (a begin
that trusts an old state is `MutBegin`). `EveryInputAnswered` needs, beyond this,
that grouping loses and repeats nothing (`GroupedPartitions`), that compaction copies
towards the front only (`CompactedRows`), and that sorting keeps the errors
(`SortedFacts`). The recursive functions `Kept` and `Compacted` are reasoned about for
all lengths by a least counterexample (`Climb`), since the library's induction
theorems cannot be instantiated by the provers. `RowsTheirInputs` and
`InputsAnswered` follow for any batches, window, workers, tiles and blocks.

*File transaction* (`PairTransactionProofs`). `PairInv` says for every step of a call
where each original is (`Located`), where the new files are (`Written`), that only
entries without leftovers have been staged (`Staged`), and that in every state a
power loss may bring back every original is held until the pair is durable
(`Committed`). `OriginalsKept` is not inductive: that an installation may overwrite a
target follows only from where the backup phase put its original. From `PairInv`
follow `OriginalsAreKept` and `LeftoversStay`, for any number of calls, failures,
kills and power losses, where the run makes two calls. `AnswersAreTrue` needs the
content of every name, not just of one that holds the original: `AnswerInv` gives,
as long as no fault has intervened, the three names of each entry at each step of
the way forward (`Forward`) and of the rollback (`Backward`), which has undone
exactly the entries it has passed.

*Device-buffer pool* (`ContextProofs`). `PoolInv` is `Whereabouts`, `HoldsExact`
and `CacheWithinLimits`. `NoReuseInFlight` says only that a buffer in flight is
allocated, not for the taking and nobody else's. That it stays so depends on where such a buffer can
be (`Flights`: owned, deferred, leaked, or on its way to one of these), this on each
buffer having one place (`Places`, which gives `OneOwner`), and a drain of the
deferred list is harmless only because the count of holds is exact: the last
release finds nobody with work in flight unless the context is in quarantine
(`Guards`). `LimitsRespected` covers both policies with all their limits, and
`QuarantineStays` is the action property.

*Staging* (`PinnedStagingProofs`). Every step of `StagingSpec` is a step of the
authority or leaves it alone; hence `StagingImplementsBudget`, and `BudgetInv` comes
for nothing. `StagingInv` adds where each block is and which location of the
transaction carries it (`Position`, `Placement`), that the pool's four counters are
the sums they stand for (`PoolBooks`), that the authority is charged for the pool
and for what is being returned (`Booked`), and that prepared slots cover all
checkouts and one evicted block (`SlotsSuffice`). `TotalsAgree` and `NeverUntracked`
need one another here: the subtraction in `finish_active_checkout` could otherwise
underflow, and then a block would be left out of all lists. From it follow
`TotalsAlwaysAgree`, `NothingUntracked`, `BlocksArePlaced` and the action property
`TransferKeepsItsBlock`.

*Session ledger* (`HostLedgerProofs`). Again by refinement (`SessionsImplementBudget`)
the authority's invariant holds. `LedgerInv` adds who is behind which gate (`Calls`,
`Gates`), that no two calls drop one lease (`Drops`), which reservation belongs to
which transaction and what it replaces (`Reservations`), and the books and the cap
of each session (`SessionBooks`, `SessionCap`). The ledger stores its totals before
the authority has answered a commit; the books agree all the same because the
authority honours every commit of a transaction that kept within its bytes
(`CommitGranted`), which is what `Reservations` establishes. `BooksAlwaysAgree`,
`OnlyPanicsPoison` and, summing over sessions (`TotalSum`), `HeldAlwaysFits` follow,
for any number of sessions, threads and leases.

Only model-checked: the four invariants of `PendingCompletion`, which has no
parameter, so that its run covers every state of the model and a proof would add
nothing; and the liveness properties `CallsEnd` and `CallReturns`, because liveness
under fairness is out of the prover's reach.

## 5. Not modelled

* Poisoning of the pool and staging mutexes by a panic inside them; the code
  leaks the token in hand and refuses every further call.
* Zero-length buffers (never pooled), buffers of a foreign context (an early
  error return), the drop of the pool itself, kernel arguments and copies.
* The order of the free lists: among buffers the policy treats alike any may be
  chosen, which covers the oldest and the newest.
* Diagnostics counters, except the authority's peak; the ledger's peaks and its
  read-only queries (`host_live_bytes`, `ensure_context`).
* Leases and owners of no bytes, and binding a session to a second context (an
  early error return).
* The plan cache's own replacement policy (`j2k-jpeg`): a transaction ends with
  any retained total that fits.
* Of `j2k-cuda`: the paths that decode and retire within one call, the choice of
  routes, and event handles as resources.
* Of the CPU batches: sizes of caches and results in bytes (lack of memory is a
  choice at the point where the code asks), warnings, diagnostics.
* Numeric code: entropy coders, wavelets, colour transforms, kernels, their SIMD
  variants, and the transcoders. They are sequential functions on megabytes of
  data without protocol state; the bulk of the repository's lines is of this kind.
* Everything listed as `not_modelled` in `PROJECT.json`, with the reason there.

## 6. Findings

*A certain error with work in flight.* `CudaQueuedClassicDecode::finish`
(`j2k-cuda-j2k-engine/src/classic_decode/queued.rs:60-64`) returns a host-allocation
error before it has waited for its launches. Dropping them synchronizes and
discards the result, so when that fails too the caller of the group sees an error
that `completion_is_uncertain` calls certain, and may free the destination it
lent. The HTJ2K stage reports the failed synchronization
(`htj2k_decode/status_group.rs:158-161`). It takes two faults at once; memory of
the context itself is safe, since the failed synchronization quarantines it. Run
`pending_completion_certain` has the trace.

*The order of errors.* `decode_tiles_into` of the JPEG session and its variants
promise "the first codec failure in input order" (`j2k-jpeg/src/batch_session.rs:121`
and five more places there, `decoder/tile.rs:240` and others). All tiles are
planned, which parses their headers, before any is decoded (`planning.rs:84-93`), so
a bad header of a later tile is reported before bad data of an earlier one. Run
`jpeg_batch_order` checks the documented order, `FirstFailureInInputOrder`, and has
the trace: bad data in tile 1, a bad header in tile 2, and the error names tile 2.
`AnswerFaithful` says only what both readings share, that the tile named is bad
and the first that is bad in its way.

Two more places where words and code differ, without a run of their own:

* `j2k/src/batch.rs:47-49` says that worker panics "are reported as typed
  infrastructure errors". A batch for which the plan has one worker is decoded on
  the caller's own thread, without `catch_unwind` (`batch/scheduler.rs:91-105`), so there
  the panic unwinds through the caller: outcome `unwound` in `RegionBatch`.
  `OutcomeFaithful` is about calls that return and says nothing of it.
* `execution/queued.rs:167-169` says that after a synchronization error "recycling
  puts them behind the permanently retained pool hold". The failed synchronization
  has already poisoned the context, so `recycle_buffer` returns at its first check
  (`memory/pool.rs:64-66`) and drops the buffer; the refused release leaks it. The
  memory is not reused in either reading (`NoReuseInFlight` and
  `QuarantineIsFinal`), but it never appears in the deferred list or its bytes.

## 7. Plan

What would come next, in this order:

1. Pure operators against reference definitions: packet headers with their tag
   trees, the 5/3 wavelet.
2. `KernelCache`; Metal buffer caches; the mpsgraph submission.
3. The remaining routes of `j2k-cuda` that decode and retire within one call, over
   `PendingCompletion`.
