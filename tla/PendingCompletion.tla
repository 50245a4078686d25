-------------------------- MODULE PendingCompletion --------------------------
(***************************************************************************)
(* Completion of a submitted CUDA batch                                    *)
(* (j2k-cuda/src/decoder/pending_completion.rs): a submission owns the     *)
(* queued final store, the entropy work with its status readbacks, the     *)
(* queued wavelet, the decoded components and the uploaded resources while *)
(* the device may still use them.  Waiting for it, polling it or dropping  *)
(* it reads the statuses, establishes completion, and frees or abandons    *)
(* every part; the error says whether completion stayed uncertain.         *)
(*                                                                         *)
(* One behaviour is one submitted group.  Calls on the driver go through   *)
(* the lifecycle of module ResourceLifecycle, of which this module keeps   *)
(* the poison flag: a poisoned context refuses every call and its buffers  *)
(* are retained when they are dropped.  Another thread may poison it.      *)
(***************************************************************************)
EXTENDS Naturals

VARIABLES
    resident,   \* the batch owns its output; otherwise the caller does
    chunked,    \* ChunkedHtj2kCleanup, with resources of its own
    status,     \* for each entropy stage: absent, empty, or with statuses
    running,    \* the device may still use what the submission owns
    poisoned,   \* the context's resource lifetimes
    fate,       \* of each part: none, held, freed, leaked or returned
    judged,     \* what each stage reported: unread, good, bad or doubt
    error,      \* completion_error: none, certain or uncertain
    pc,
    answer      \* what the caller was told

shapeVars == <<resident, chunked, status>>
vars == <<resident, chunked, status, running, poisoned, fate, judged, error, pc, answer>>

Stages == {"cleanup", "classic"}
Parts == Stages \cup {"chunks", "store", "idwt", "decoded", "resources", "output"}

\* PendingDecodeCompletion::new, reached only with a store and its event.
Init ==
    /\ resident \in BOOLEAN
    /\ status \in [Stages -> {"absent", "empty", "status"}]
    /\ chunked \in BOOLEAN /\ (chunked => status["cleanup"] = "status")
    /\ \E idwt \in BOOLEAN :
          fate = [p \in Parts |->
                    IF \/ p \in Stages /\ status[p] # "status"
                       \/ p = "chunks" /\ ~chunked
                       \/ p = "idwt" /\ ~idwt
                       \/ p = "output" /\ ~resident
                    THEN "none" ELSE "held"]
    /\ running = TRUE /\ poisoned = FALSE
    /\ judged = [s \in Stages |-> "unread"]
    /\ error = "none" /\ pc = "pending" /\ answer = "none"

-----------------------------------------------------------------------------
(* Driver calls.  Each is a conjunct that fixes running' and poisoned'.    *)

\* The call ran and everything submitted before it is complete.
Completes == ~poisoned /\ running' = FALSE /\ UNCHANGED poisoned

\* A failed call that was followed by a successful synchronization.
Recovers == Completes

\* Synchronization failed, or the context refuses the call.
Doubtful == poisoned' = TRUE /\ UNCHANGED running

\* Dropping S: a poisoned context retains its buffers.
Dropped(S, isPoisoned) ==
    [p \in Parts |->
        IF p \in S /\ fate[p] = "held"
        THEN IF isPoisoned THEN "leaked" ELSE "freed" ELSE fate[p]]

\* mem::forget for S, or the permanently held reuse guard.
Forgotten(S) ==
    [p \in Parts |-> IF p \in S /\ fate[p] = "held" THEN "leaked" ELSE fate[p]]

\* Mutants: the last error wins; a certain error wins.
MutCombine(e, f) == f

MutCombineCertain(e, f) ==
    IF "certain" \in {e, f} THEN "certain"
    ELSE IF "uncertain" \in {e, f} THEN "uncertain" ELSE "none"

\* combine_cuda_cleanup_errors, as completion_is_uncertain sees the result.
Combine(e, f) ==
    IF "uncertain" \in {e, f} THEN "uncertain"
    ELSE IF "certain" \in {e, f} THEN "certain" ELSE "none"

-----------------------------------------------------------------------------
(* The caller and the rest of the world                                    *)

DeviceFinishes ==
    /\ running /\ running' = FALSE
    /\ UNCHANGED <<shapeVars, poisoned, fate, judged, error, pc, answer>>

PeerPoisons ==
    /\ ~poisoned /\ poisoned' = TRUE
    /\ UNCHANGED <<shapeVars, running, fate, judged, error, pc, answer>>

\* is_complete.  A failed query synchronizes; the submission stays pending.
Poll ==
    /\ pc = "pending"
    /\ Recovers \/ Doubtful
    /\ UNCHANGED <<shapeVars, fate, judged, error, pc, answer>>

\* try_finish of an external batch: wait if the event is complete; a failed
\* query drops the submission and returns its own error.
TryFinish ==
    /\ pc = "pending" /\ ~resident
    /\ pc' = "cleanup"
    /\ \/ ~running /\ ~poisoned /\ UNCHANGED <<running, poisoned, answer>>
       \/ (Recovers \/ Doubtful) /\ answer' = "uncertain"
    /\ UNCHANGED <<shapeVars, fate, judged, error>>

\* wait, or the drop of the submission, which tells nobody.
Complete ==
    /\ pc = "pending" /\ pc' = "cleanup"
    /\ answer' \in {"none", "dropped"}
    /\ UNCHANGED <<shapeVars, running, poisoned, fate, judged, error>>

-----------------------------------------------------------------------------
(* The status readbacks.  A stage ends with an error of its own, a fate for *)
(* what it owned, and a verdict: good or bad if the statuses were read,    *)
(* doubt if it reported that completion is uncertain.                      *)

After(stage) == IF stage = "cleanup" THEN "classic" ELSE "store"

\* The stage whose statuses are read now.
Reading(stage) == pc = stage /\ status[stage] = "status"

StageEnds(stage, err, verdict) ==
    /\ error' = Combine(error, err)
    /\ judged' = [judged EXCEPT ![stage] = verdict]
    /\ pc' = After(stage)
    /\ UNCHANGED <<shapeVars, answer>>

Owned(stage) == IF stage = "cleanup" THEN {"cleanup", "chunks"} ELSE {"classic"}

\* No stage, or one without launches and statuses.
NothingToRead(stage) ==
    /\ pc = stage /\ status[stage] # "status"
    /\ fate' = Dropped(Owned(stage), poisoned)
    /\ StageEnds(stage, "none", "unread")
    /\ UNCHANGED <<running, poisoned>>

ReadStatuses(stage) ==
    /\ Reading(stage) /\ Completes
    /\ fate' = Dropped(Owned(stage), FALSE)
    /\ \/ StageEnds(stage, "none", "good")
       \/ StageEnds(stage, "certain", "bad")

\* The copy fails: without poison the launches' buffers go back to their
\* pool, but the chunks stay with the driver error.
ReadFails(stage) ==
    /\ Reading(stage)
    /\ \/ Recovers /\ fate' = [Forgotten({"chunks"} \cap Owned(stage)) EXCEPT ![stage] = "freed"]
       \/ Doubtful /\ fate' = Forgotten(Owned(stage))
    /\ StageEnds(stage, "uncertain", "doubt")

\* There is no host memory for the statuses.  The HTJ2K stage synchronizes
\* and combines the errors.
CleanupStarved ==
    /\ Reading("cleanup")
    /\ \/ /\ Completes
          /\ fate' = Dropped(Owned("cleanup"), FALSE)
          /\ StageEnds("cleanup", "certain", "unread")
       \/ /\ Doubtful
          /\ fate' = Forgotten(Owned("cleanup"))
          /\ StageEnds("cleanup", "uncertain", "doubt")

\* The classic stage returns the allocation error; its launches are dropped
\* on the way, and what that synchronization says is discarded.
ClassicStarved ==
    /\ Reading("classic")
    /\ \/ Completes /\ fate' = Dropped({"classic"}, FALSE)
       \/ Doubtful /\ fate' = Forgotten({"classic"})
    /\ StageEnds("classic", "certain", "unread")

-----------------------------------------------------------------------------
(* The rest of PendingDecodeCompletion::complete                           *)

MutHasStatusReadback == \E s \in Stages : status[s] # "absent"

HasStatusReadback == \E s \in Stages : status[s] = "status"

Established == HasStatusReadback /\ error # "uncertain"

\* release_after_stream_completion
ReleaseStore ==
    /\ pc = "store" /\ Established
    /\ fate' = Dropped({"store"}, poisoned)
    /\ pc' = "retire"
    /\ UNCHANGED <<shapeVars, running, poisoned, judged, error, answer>>

FinishStore ==
    /\ pc = "store" /\ ~Established
    /\ Completes
    /\ fate' = Dropped({"store"}, FALSE)
    /\ pc' = "retire"
    /\ UNCHANGED <<shapeVars, judged, error, answer>>

\* finish fails: its jobs are forgotten and the rest is abandoned.
StoreFails ==
    /\ pc = "store" /\ ~Established
    /\ Recovers \/ Doubtful
    /\ fate' = Forgotten(Parts \ {"output"})
    /\ error' = "uncertain" /\ pc' = "answer"
    /\ UNCHANGED <<shapeVars, judged, answer>>

\* The pool may find no memory to take a buffer of the wavelet back.
Retire ==
    /\ pc = "retire"
    /\ fate' = Dropped({"idwt", "decoded", "resources"}, poisoned)
    /\ error' \in {error} \cup (IF fate["idwt"] = "held" THEN {Combine(error, "certain")} ELSE {})
    /\ pc' = "answer"
    /\ UNCHANGED <<shapeVars, running, poisoned, judged, answer>>

\* Mutant: a successful wait drops the output instead of handing it over.
MutKeptOutput ==
    IF error = "uncertain" THEN Forgotten({"output"}) ELSE Dropped({"output"}, poisoned)

\* The resident output goes to the caller, is forgotten or is dropped.
KeptOutput ==
    CASE error = "uncertain" -> Forgotten({"output"})
      [] error = "none" /\ answer = "none" ->
            [fate EXCEPT !["output"] = IF @ = "held" THEN "returned" ELSE @]
      [] OTHER -> Dropped({"output"}, poisoned)

Answer ==
    /\ pc = "answer" /\ pc' = "done"
    /\ fate' = KeptOutput
    /\ answer' = IF answer # "none" THEN answer ELSE IF error = "none" THEN "ok" ELSE error
    /\ UNCHANGED <<shapeVars, running, poisoned, judged, error>>

Next ==
    \/ DeviceFinishes \/ PeerPoisons \/ Poll \/ TryFinish \/ Complete
    \/ \E s \in Stages : NothingToRead(s) \/ ReadStatuses(s) \/ ReadFails(s)
    \/ CleanupStarved \/ ClassicStarved
    \/ ReleaseStore \/ FinishStore \/ StoreFails \/ Retire \/ Answer

Spec == Init /\ [][Next]_vars

-----------------------------------------------------------------------------
(* Properties                                                              *)

\* Whatever fails and whoever poisons the context, nothing the submission
\* owned returns to the driver, to a pool or to the caller while the device
\* may use it: releasing the store without waiting for it relies on a status
\* readback that did complete.
NothingFreedWhileRunning ==
    running => \A p \in Parts : fate[p] \notin {"freed", "returned"}

\* Success means that every status of every stage was read and is good: no
\* later step hides a failed code block.
SuccessIsValidated ==
    answer = "ok" =>
        \A s \in Stages : status[s] = "status" => judged[s] = "good"

\* Errors of several stages are folded into one: the doubt of a stage reaches
\* the caller whatever the stages after it report, so that no later certain
\* error, and no good last stage, makes the caller free what it lent.
DoubtIsReported ==
    answer \in {"ok", "certain"} => \A s \in Stages : judged[s] # "doubt"

\* At the end every part has an owner again or was given up for a reason: a
\* leak without a poisoned context or an uncertain error is a bug, and so is
\* a resident output that the caller of a successful wait did not get.
LeaksHaveAReason ==
    pc = "done" =>
        /\ \A p \in Parts :
              /\ fate[p] # "held"
              /\ fate[p] = "leaked" => poisoned \/ error = "uncertain"
        /\ answer = "ok" /\ resident => fate["output"] = "returned"

\* An error that completion_is_uncertain calls certain leaves no submitted
\* work behind: the caller may free the destination it lent.
CertainMeansComplete ==
    pc = "done" /\ answer \in {"ok", "certain"} => ~running
==============================================================================
