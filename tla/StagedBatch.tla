---------------------------- MODULE StagedBatch ----------------------------
(***************************************************************************)
(* Batches on a persistent CPU decoder (CpuBatchDecoder, in                *)
(* j2k/src/owned_batch/).  Inputs are prepared and put into homogeneous    *)
(* groups.  A group whose images all have plans goes through windows of    *)
(* images: the images begin, then for every tile index all images prepare  *)
(* the tile, all code blocks of that tile are decoded by worker threads    *)
(* across images, and all images finish the tile; then the samples are     *)
(* stored.  Each image uses a scratch that outlives the window, the group  *)
(* and the call, whose staged_state (j2k-native/src/direct_cpu/            *)
(* referenced_staged/state.rs) says which tile may be worked on.           *)
(*                                                                         *)
(* Only code blocks of one image share state between threads, so only they *)
(* are interleaved; the other stages work on one image each and are one    *)
(* step, which may be cut short by a panic or a thread that cannot start.  *)
(* Samples are the set of tiles they came from, each with the call and the *)
(* input it belongs to.                                                    *)
(***************************************************************************)
EXTENDS ByteTotals, Sequences, FiniteSetsExt

CONSTANTS
    MaxCalls,    \* bound: calls on one decoder
    Shapes,      \* what images of one group have in common
    Batches,     \* the batches of inputs a call may be given
    Window,      \* CPU_ENTROPY_IMAGES_PER_WINDOW
    Workers,     \* worker threads
    Blocks       \* code blocks of a tile

\* Where decoding an image of n tiles fails, if it does.
Faults(n) ==
    [at : {"none", "parse", "begin", "store", "decode"}, tile : {0}, block : {0}]
        \cup [at : {"prepare", "finish"}, tile : 1..n, block : {0}]
        \cup [at : {"block"}, tile : 1..n, block : 1..Blocks]

ASSUME StagedAssumption ==
    /\ {MaxCalls, Window, Workers, Blocks} \subseteq Nat \ {0}
    /\ \A in \in Batches : DOMAIN in = 1..Len(in) /\ Len(in) \in Nat
    /\ \A in \in Batches : \A i \in DOMAIN in :
          /\ in[i].shape \in Shapes /\ in[i].planned \in {"yes", "no"}
          /\ in[i].tiles \in Nat \ {0} /\ in[i].fault \in Faults(in[i].tiles)
          /\ in[i].planned = "yes" => in[i].fault.at # "decode"

VARIABLES
    calls, phase, outcome,
    poisoned,          \* the mutex around the decoder's workers
    scratch,           \* CpuStagedWorkspace.image_scratch
    input, groups, g,  \* the batch, its groups as source_indices, the group
    w, t, tile_count,  \* start of the window, tile index
    result, failed,    \* image_results; slots whose failure flag is up
    job, jobResult,    \* entropy_jobs as <<slot, block>>, entropy_results
    worker,            \* the worker threads of the entropy stage
    output,            \* samples per slot
    errors, decoded,   \* the result: indexed errors, decoded groups
    starved            \* history: inputs that met a lack of memory

callVars == <<input, groups, poisoned, calls>>
imageVars == <<scratch, result, failed>>
entropyVars == <<job, jobResult, worker>>
resultVars == <<errors, decoded, outcome>>
vars == <<callVars, imageVars, entropyVars, resultVars, phase, g, w, t, tile_count,
          output, starved>>

\* What a slot of the current group decodes, and in which tile of which image.
Image(s) == input[groups[g][s]]
Owner(s) == <<calls, groups[g][s]>>
Part(s) == <<Owner(s), t>>
Block(s, k) == <<Owner(s), t, k>>

Count == Min({Window, Len(groups[g]) - w})
InWindow == (w + 1)..(w + Count)
Fine == {s \in InWindow : result[s] # "err"}
Working == {s \in Fine : t <= Image(s).tiles}

FaultAt(s, at, tile, block) ==
    LET fault == Image(s).fault
    IN  fault.at = at /\ fault.tile = tile /\ fault.block = block

\* The elements of a sequence that belong to P, in their order.
Kept(seq, P) ==
    LET kept[n \in 0..Len(seq)] ==
            IF n = 0 THEN <<>>
            ELSE IF seq[n] \in P THEN Append(kept[n - 1], seq[n]) ELSE kept[n - 1]
    IN  kept[Len(seq)]

Indices(seq) == [i \in 1..Len(seq) |-> i]

-----------------------------------------------------------------------------
Init ==
    /\ calls = 0 /\ phase = "idle" /\ outcome = "none"
    /\ poisoned = FALSE /\ scratch = <<>>
    /\ input = <<>> /\ groups = <<>> /\ g = 0 /\ w = 0 /\ t = 0 /\ tile_count = 0
    /\ result = <<>> /\ failed = {}
    /\ job = <<>> /\ jobResult = <<>> /\ worker = <<>>
    /\ output = <<>> /\ errors = <<>> /\ decoded = <<>> /\ starved = {}

Abort(how) ==
    /\ phase' = "idle" /\ outcome' = how
    /\ errors' = <<>> /\ decoded' = <<>>

-----------------------------------------------------------------------------
(* prepare.rs                                                              *)

\* push_prepared_result: an image joins the group of the images like it, and
\* groups are in the order of their first images.
Parsed(in) == {i \in DOMAIN in : in[i].fault.at # "parse"}
Alike(a, b) == a.shape = b.shape /\ a.planned = b.planned
Leaders(in) ==
    Kept(Indices(in), {i \in Parsed(in) :
                          \A j \in Parsed(in) : Alike(in[i], in[j]) => i <= j})
Grouped(in) ==
    [n \in 1..Len(Leaders(in)) |->
        Kept(Indices(in), {i \in Parsed(in) : Alike(in[Leaders(in)[n]], in[i])})]
Unparsed(in) == Kept(Indices(in), DOMAIN in \ Parsed(in))

\* decode: prepare, then decode_prepared up to its first group.  A panic while
\* a single worker prepares unwinds through the guard and poisons the mutex.
Decode(in) ==
    /\ phase = "idle" /\ calls < MaxCalls
    /\ calls' = calls + 1
    /\ input' = in /\ groups' = Grouped(in)
    /\ g' = 0 /\ w' = 0 /\ t' = 0 /\ tile_count' = 0 /\ result' = <<>>
    /\ output' = <<>> /\ starved' = {}
    /\ \/ poisoned /\ Abort("poisoned") /\ UNCHANGED poisoned
       \/ ~poisoned /\ Abort("aborted") /\ poisoned' \in {FALSE, Workers = 1 \/ Len(in) = 1}
       \/ /\ ~poisoned /\ UNCHANGED poisoned
          /\ phase' = "group" /\ outcome' = "none"
          /\ errors' = Unparsed(in) /\ decoded' = <<>>
    /\ UNCHANGED <<scratch, failed, entropyVars>>

-----------------------------------------------------------------------------
(* cpu_execute.rs                                                          *)

Start(n) == \* the first window of a group, or the plain decode of its images
    /\ g' = n
    /\ result' = [s \in DOMAIN groups[n] |-> "none"]
    /\ output' = [s \in DOMAIN groups[n] |-> {}]
    /\ w' = 0 /\ t' = 0 /\ tile_count' = 0

\* sort_by_key.
Sorted(seq) ==
    LET D == 1..Len(seq)
        order == CHOOSE p \in Injection(D, D) :
                    \A i, j \in D : i < j => seq[p[i]] <= seq[p[j]]
    IN  [i \in D |-> seq[order[i]]]

\* decode_cpu_group up to the images: prepare_group and the output may not fit.
StartGroup ==
    /\ phase = "group"
    /\ IF g = Len(groups)
       THEN /\ phase' = "idle" /\ outcome' = "ok"
            /\ errors' = Sorted(errors)
            /\ UNCHANGED <<decoded, g, result, output, w, t, tile_count>>
       ELSE \/ Abort("aborted") /\ UNCHANGED <<g, result, output, w, t, tile_count>>
            \/ /\ Start(g + 1)
               /\ phase' = IF input[groups[g + 1][1]].planned = "yes" THEN "window" ELSE "plain"
               /\ UNCHANGED resultVars
    /\ UNCHANGED <<callVars, scratch, failed, entropyVars, starved>>

\* run_typed_group without plans: every image is decoded by itself.
DecodePlain ==
    /\ phase = "plain"
    /\ \/ Abort("aborted") /\ UNCHANGED <<result, output>>
       \/ /\ result' = [s \in DOMAIN result |->
                           IF Image(s).fault.at = "none" THEN "ok" ELSE "err"]
          /\ output' = [s \in DOMAIN output |->
                           IF Image(s).fault.at = "none"
                           THEN {<<Owner(s), n>> : n \in 1..Image(s).tiles} ELSE {}]
          /\ phase' = "collect" /\ UNCHANGED resultVars
    /\ UNCHANGED <<callVars, scratch, failed, entropyVars, g, w, t, tile_count, starved>>

MutCompacted(rows, kept) == SubSeq(rows, 1, Len(kept))

\* The rows of successful slots are copied towards the front, then truncated.
Compacted(rows, kept) ==
    LET copied[n \in 0..Len(kept)] ==
            IF n = 0 THEN rows
            ELSE [copied[n - 1] EXCEPT ![n] = copied[n - 1][kept[n]]]
    IN  [n \in 1..Len(kept) |-> copied[Len(kept)][n]]

\* The rest of run_typed_group and decode_cpu_group.
Collect ==
    LET kept == Kept(Indices(groups[g]), {s \in DOMAIN result : result[s] = "ok"})
        lost == Kept(Indices(groups[g]), {s \in DOMAIN result : result[s] = "err"})
    IN  /\ phase = "collect"
        /\ IF \E s \in DOMAIN result : result[s] = "none"
           THEN Abort("missing")
           ELSE /\ errors' = errors \o [n \in 1..Len(lost) |-> groups[g][lost[n]]]
                /\ decoded' = IF kept = <<>> THEN decoded
                     ELSE Append(decoded,
                            [source |-> [n \in 1..Len(kept) |-> groups[g][kept[n]]],
                             samples |-> Compacted(output, kept)])
                /\ phase' = "group" /\ UNCHANGED outcome
        /\ UNCHANGED <<callVars, imageVars, entropyVars, g, w, t, tile_count, output,
                       starved>>

-----------------------------------------------------------------------------
(* referenced_staged: one image's scratch                                  *)

Step(sc, verdict) == [scratch |-> sc, result |-> verdict]
At(next, active, count) == [next |-> next, active |-> active, count |-> count]
Scratch(state, bands, planes) ==
    [staged_state |-> state, bands |-> bands, planes |-> planes]

NoState == At(0, 0, 0)
NewScratch == Scratch(NoState, {}, {})
Clear(sc) == Scratch(NoState, sc.bands, sc.planes)
Active(sc) == sc.staged_state.next = t /\ sc.staged_state.active = t
                 /\ t <= sc.staged_state.count

MutBegin(sc, s) ==
    IF FaultAt(s, "begin", 0, 0) THEN Step(Clear(sc), "err")
    ELSE IF sc.staged_state.active # 0 THEN Step(sc, "ok")
    ELSE Step(Scratch(At(1, 0, Image(s).tiles), {}, {}), "ok")

\* begin_staged_image.
Begin(sc, s) ==
    IF FaultAt(s, "begin", 0, 0) THEN Step(Clear(sc), "err")
    ELSE Step(Scratch(At(1, 0, Image(s).tiles), {}, {}), "ok")

\* prepare_staged_tile.
PrepareTile(sc, s) ==
    LET ready == sc.staged_state.next = t /\ sc.staged_state.active = 0
                    /\ t <= sc.staged_state.count
    IN  IF ~ready \/ FaultAt(s, "prepare", t, 0) THEN Step(Clear(sc), "err")
        ELSE Step(Scratch(At(t, t, sc.staged_state.count), {}, sc.planes), "ok")

\* execute_referenced_*_entropy_job: a failing block leaves the tile active.
DecodeBlock(sc, s, k) ==
    IF ~Active(sc) \/ FaultAt(s, "block", t, k) THEN Step(sc, "err")
    ELSE Step(Scratch(sc.staged_state, sc.bands \cup {Block(s, k)}, sc.planes), "ok")

\* finish_staged_tile: a tile's samples are whole if all its blocks are there.
FinishTile(sc, s) ==
    LET whole == sc.bands = {Block(s, k) : k \in 1..Blocks}
    IN  IF ~Active(sc) THEN Step(sc, "err")
        ELSE IF FaultAt(s, "finish", t, 0) THEN Step(Clear(sc), "err")
        ELSE Step(Scratch(At(t + 1, 0, sc.staged_state.count), {},
                          sc.planes \cup {IF whole THEN Part(s) ELSE <<Owner(s), 0>>}),
                  "ok")

\* finish_staged_plan_samples.
Store(sc, s) ==
    LET whole == sc.staged_state = At(Image(s).tiles + 1, 0, Image(s).tiles)
    IN  Step(Clear(sc), IF whole /\ ~FaultAt(s, "store", 0, 0) THEN "ok" ELSE "err")

-----------------------------------------------------------------------------
(* cpu_staged_execute.rs                                                   *)

\* What run_retained_chunks may have done when it is cut short: a part of each
\* worker's chunk of the window.
Partial(S) ==
    LET size == DivCeil(Count, Min({Count, Workers}))
        chunk(s) == (s - w - 1) \div size
    IN  {D \in SUBSET S : \A s \in D, r \in S :
            r < s /\ chunk(r) = chunk(s) => r \in D}

\* One stage: "step" is what it does to the images it works on.  It raises the
\* flags of those that fail and the call goes on with "after"; or the call fails
\* with a part of the stage done.
Stage(step, old, flags, after) ==
    LET S == DOMAIN step
        applied(D) == [l \in 1..Count |-> IF (w + l) \in D THEN step[w + l].scratch
                                          ELSE old[l]]
    IN  \/ /\ scratch' = applied(S)
           /\ result' = [s \in DOMAIN result |->
                            IF s \in S THEN step[s].result ELSE result[s]]
           /\ failed' = flags \cup {s \in S : step[s].result = "err"}
           /\ phase' = after /\ UNCHANGED resultVars
        \/ /\ \E D \in Partial(S) : scratch' = applied(D)
           /\ Abort("aborted") /\ UNCHANGED <<result, failed>>

\* prepare_window and prepare_staged_window.
BeginWindow ==
    LET old == [l \in 1..Count |-> IF l <= Len(scratch) THEN scratch[l] ELSE NewScratch]
        step == [s \in InWindow |-> Begin(old[s - w], s)]
        begun == {s \in InWindow : step[s].result = "ok"}
    IN  /\ phase = "window"
        /\ Stage(step, old, {}, IF begun = {} THEN "store" ELSE "tile")
        /\ t' = 1
        /\ tile_count' = Max({0} \cup {Image(s).tiles : s \in begun})
        /\ UNCHANGED <<callVars, entropyVars, g, w, output, starved>>

PrepareTiles ==
    /\ phase = "tile"
    /\ Stage([s \in Working |-> PrepareTile(scratch[s - w], s)], scratch, failed, "jobs")
    /\ UNCHANGED <<callVars, entropyVars, g, w, t, tile_count, output, starved>>

\* The flattened jobs of the window are in the order of the blocks and then of
\* the images; those of one tile are taken from them.
Jobs ==
    LET flattened == [j \in 1..(Blocks * Count) |->
                         <<w + ((j - 1) % Count) + 1, ((j - 1) \div Count) + 1>>]
        slots == {s \in InWindow : t <= Image(s).tiles}
    IN  Kept(flattened, slots \X (1..Blocks))

Worker(at, last, where, ready) ==
    [at |-> at, last |-> last, pc |-> where, ready |-> ready]

\* prepare_tile_jobs, and the workers of execute_staged_tile_entropy start.
StartEntropy ==
    LET n == Len(Jobs)
        size == DivCeil(n, Min({n, Workers}))
    IN  /\ phase = "jobs"
        /\ \/ Abort("aborted") /\ UNCHANGED entropyVars
           \/ /\ job' = Jobs
              /\ jobResult' = [j \in 1..n |-> "none"]
              /\ worker' = [c \in 1..DivCeil(n, size) |->
                     Worker((c - 1) * size + 1, Min({n, c * size}), "load", "no")]
              /\ phase' = "entropy" /\ UNCHANGED resultVars
        /\ UNCHANGED <<callVars, imageVars, g, w, t, tile_count, output, starved>>

\* A worker with its job done, or on its way to decode it.
Advance(wk, ready) == IF wk.at = wk.last THEN Worker(wk.at, wk.last, "done", ready)
                      ELSE Worker(wk.at + 1, wk.last, "load", ready)
Busy(c) == phase = "entropy" /\ worker[c].pc \in {"load", "execute"}
Slot(c) == job[worker[c].at][1]

\* The worker reads the failure flag of the image its next block belongs to.
Load(c) ==
    /\ Busy(c) /\ worker[c].pc = "load"
    /\ IF Slot(c) \in failed
       THEN /\ jobResult' = [jobResult EXCEPT ![worker[c].at] = "ok"]
            /\ worker' = [worker EXCEPT ![c] = Advance(@, @.ready)]
       ELSE /\ worker' = [worker EXCEPT ![c] = Worker(@.at, @.last, "execute", @.ready)]
            /\ UNCHANGED jobResult
    /\ UNCHANGED <<callVars, imageVars, resultVars, phase, g, w, t, tile_count, job,
                   output, starved>>

\* It locks the image's scratch and decodes the block.
Execute(c) ==
    LET s == Slot(c)
        step == DecodeBlock(scratch[s - w], s, job[worker[c].at][2])
    IN  /\ Busy(c) /\ worker[c].pc = "execute"
        /\ scratch' = [scratch EXCEPT ![s - w] = step.scratch]
        /\ failed' = IF step.result = "err" THEN failed \cup {s} ELSE failed
        /\ jobResult' = [jobResult EXCEPT ![worker[c].at] = step.result]
        /\ worker' = [worker EXCEPT ![c] = Advance(@, "yes")]
        /\ UNCHANGED <<callVars, resultVars, phase, g, w, t, tile_count, job, result,
                       output, starved>>

\* Before its first block it needs memory for its own workspace.
Starve(c) ==
    /\ Busy(c) /\ worker[c].pc = "execute" /\ worker[c].ready = "no"
    /\ failed' = failed \cup {Slot(c)}
    /\ jobResult' = [jobResult EXCEPT ![worker[c].at] = "err"]
    /\ worker' = [worker EXCEPT ![c] = Advance(@, "no")]
    /\ starved' = starved \cup {groups[g][Slot(c)]}
    /\ UNCHANGED <<callVars, resultVars, phase, g, w, t, tile_count, job, result,
                   scratch, output>>

\* It panics, or was never started.
Die(c) ==
    /\ Busy(c)
    /\ worker' = [worker EXCEPT ![c] = Worker(@.at, @.last, "dead", @.ready)]
    /\ UNCHANGED <<callVars, imageVars, resultVars, phase, g, w, t, tile_count, job,
                   jobResult, output, starved>>

\* All workers are joined; then the errors of blocks become those of images.
JoinEntropy ==
    /\ phase = "entropy" /\ \A c \in DOMAIN worker : ~Busy(c)
    /\ IF \E c \in DOMAIN worker : worker[c].pc = "dead"
       THEN Abort("aborted") /\ UNCHANGED result
       ELSE /\ result' = [s \in DOMAIN result |->
                  IF \E j \in DOMAIN job : job[j][1] = s /\ jobResult[j] = "err"
                  THEN "err" ELSE result[s]]
            /\ phase' = "finish" /\ UNCHANGED resultVars
    /\ job' = <<>> /\ jobResult' = <<>> /\ worker' = <<>>
    /\ UNCHANGED <<callVars, scratch, failed, g, w, t, tile_count, output, starved>>

FinishTiles ==
    /\ phase = "finish"
    /\ Stage([s \in Working |-> FinishTile(scratch[s - w], s)], scratch, failed,
             IF t = tile_count THEN "store" ELSE "tile")
    /\ t' = t + 1
    /\ UNCHANGED <<callVars, entropyVars, g, w, tile_count, output, starved>>

\* materialize_staged_window, then the next window.
StoreSamples ==
    LET step == [s \in Fine |-> Store(scratch[s - w], s)]
        more == w + Window < Len(groups[g])
    IN  /\ phase = "store"
        /\ Stage(step, scratch, failed, IF more THEN "window" ELSE "collect")
        /\ output' = [s \in DOMAIN output |->
              IF s \in Fine /\ step[s].result = "ok" THEN scratch[s - w].planes
              ELSE output[s]]
        /\ w' = IF more THEN w + Window ELSE w
        /\ UNCHANGED <<callVars, entropyVars, g, t, tile_count, starved>>

Next ==
    \/ \E in \in Batches : Decode(in)
    \/ StartGroup \/ DecodePlain \/ Collect
    \/ BeginWindow \/ PrepareTiles \/ StartEntropy \/ JoinEntropy
    \/ FinishTiles \/ StoreSamples
    \/ \E c \in DOMAIN worker :
          Load(c) \/ Execute(c) \/ Starve(c) \/ Die(c)

Spec == Init /\ [][Next]_vars

-----------------------------------------------------------------------------
(* Properties                                                              *)

Returned == phase = "idle" /\ outcome = "ok"

\* Every row a call returns holds the samples of the input its source index
\* names: all tiles of it, each from all its blocks, and nothing that another
\* image, window, group or call left in the scratch.
RowsAreTheirInputs ==
    Returned => \A n \in DOMAIN decoded :
        /\ Len(decoded[n].samples) = Len(decoded[n].source)
        /\ \A r \in DOMAIN decoded[n].source :
              decoded[n].samples[r] =
                  {<<<<calls, decoded[n].source[r]>>, m>> :
                        m \in 1..input[decoded[n].source[r]].tiles}

\* Why an input may fail: its own fault, or a worker without memory for it.
Blamed(i) == input[i].fault.at # "none" \/ i \in starved

\* Every input is answered once, in a group or by an error, errors in input
\* order; and an input fails for its own faults only, whatever the threads did
\* to its neighbours and whatever state an aborted call left in its scratch.
EveryInputAnswered ==
    /\ outcome # "missing"
    /\ Returned =>
        LET rows == UNION {{n} \X DOMAIN decoded[n].source : n \in DOMAIN decoded}
            input_of(r) == decoded[r[1]].source[r[2]]
        IN  /\ \A r, q \in rows : input_of(r) = input_of(q) => r = q
            /\ \A r \in rows : input_of(r) \in DOMAIN input /\ ~Blamed(input_of(r))
            /\ \A i \in DOMAIN input : ~Blamed(i) => \E r \in rows : input_of(r) = i
            /\ \A a \in DOMAIN errors : errors[a] \in DOMAIN input /\ Blamed(errors[a])
            /\ \A i \in DOMAIN input : Blamed(i) => \E a \in DOMAIN errors : errors[a] = i
            /\ \A a, b \in DOMAIN errors : a < b => errors[a] < errors[b]

=============================================================================
