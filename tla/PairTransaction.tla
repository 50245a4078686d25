--------------------------- MODULE PairTransaction ---------------------------
(***************************************************************************)
(* The file transaction of xtask (codegen_commands/transaction.rs): two    *)
(* generated files are staged, the originals are renamed to backups, the   *)
(* staged files are renamed into place, the directories are synchronized   *)
(* and the backups are removed.  Every call on the file system is a step   *)
(* and may fail; the process may be killed and the machine may lose power  *)
(* between any two of them.  The next call may meet the sidecars a crash   *)
(* left, if its process id and nonce are those of the crashed process.     *)
(*                                                                         *)
(* disk is what the running system sees.  durable holds, for each entry,   *)
(* the states its names may show after a power loss: every state since the *)
(* last successful synchronization of their directory.  The names of one   *)
(* entry change in the order of the calls; the two entries are independent,*)
(* which covers one directory and two.  A call starts on a settled disk.   *)
(***************************************************************************)
EXTENDS Naturals

CONSTANT MaxCalls        \* bound: calls of the transaction

ASSUME CallsAssumption == MaxCalls \in Nat \ {0}

VARIABLES
    disk, durable,
    before,      \* the names when the call started
    had,         \* had_original
    pc, at,      \* the step and the entry it is about
    pushed,      \* entries staged so far
    fault,       \* a rollback or cleanup step failed
    result, calls

bookVars == <<before, calls>>
vars == <<disk, durable, before, had, pc, at, pushed, fault, result, calls>>

Entries == 1..2

\* A name shows nothing, the original, a whole or a torn generated file, what
\* an earlier process left, or something that is not a regular file.
Names(target, staged, backup) ==
    [target |-> target, staged |-> staged, backup |-> backup]

Init ==
    /\ \E t \in [Entries -> {"absent", "old", "other"}] :
          disk = [i \in Entries |-> Names(t[i], "absent", "absent")]
    /\ durable = [i \in Entries |-> {disk[i]}]
    /\ before = disk
    /\ had = [i \in Entries |-> FALSE]
    /\ pc = "returned" /\ at = 1 /\ pushed = 0 /\ fault = FALSE
    /\ result = "none" /\ calls = 0

\* One call on the file system that gives entry i the names s.
Set(i, s) ==
    /\ disk' = [disk EXCEPT ![i] = s]
    /\ durable' = [durable EXCEPT ![i] = @ \cup {s}]

Untouched == UNCHANGED <<disk, durable>>

Go(label, i) == pc' = label /\ at' = i

Return(how) == Go("returned", 1) /\ result' = how

-----------------------------------------------------------------------------
(* stage_generated_entries                                                 *)

\* What an earlier call left under the names of this one: its files are
\* foreign to this call, and a target is an original again.
Inherited(s, sameNames) ==
    LET sidecar(name) == IF sameNames /\ name # "absent" THEN "foreign" ELSE "absent"
    IN  Names(IF s.target = "new" THEN "old" ELSE s.target,
              sidecar(s.staged), sidecar(s.backup))

Begin ==
    /\ pc = "returned" /\ calls < MaxCalls
    /\ \E sameNames \in BOOLEAN :
          disk' = [i \in Entries |-> Inherited(disk[i], sameNames)]
    /\ durable' = [i \in Entries |-> {disk'[i]}]
    /\ before' = disk'
    /\ had' = [i \in Entries |-> FALSE]
    /\ Go("stage", 1)
    /\ pushed' = 0 /\ fault' = FALSE /\ result' = "none" /\ calls' = calls + 1

MutSidecarFree(i) == disk[i].staged = "absent"

\* ensure_path_absent for the backup, create_new for the staged file.
SidecarFree(i) == disk[i].backup = "absent" /\ disk[i].staged = "absent"

Create ==
    /\ pc = "stage" /\ SidecarFree(at)
    /\ Set(at, [disk[at] EXCEPT !.staged = "torn"])
    /\ pc' = "write"
    /\ UNCHANGED <<bookVars, had, at, pushed, fault, result>>

\* A sidecar exists, cannot be inspected or cannot be created.  (sidecar_path
\* fails for a target without a file name; both callers pass constant paths.)
CreateFails ==
    /\ pc = "stage"
    /\ Go("cleanup", 1)
    /\ Untouched /\ UNCHANGED <<bookVars, had, pushed, fault, result>>

\* write_all and sync_all.
Write ==
    /\ pc = "write"
    /\ Set(at, [disk[at] EXCEPT !.staged = "new"])
    /\ pushed' = at
    /\ IF at = 2 THEN Go("backup", 1) ELSE Go("stage", at + 1)
    /\ UNCHANGED <<bookVars, had, fault, result>>

WriteFails ==
    /\ pc = "write"
    /\ \/ Set(at, [disk[at] EXCEPT !.staged = "absent"]) /\ UNCHANGED fault
       \/ fault' = TRUE /\ Untouched
    /\ Go("cleanup", 1)
    /\ UNCHANGED <<bookVars, had, pushed, result>>

-----------------------------------------------------------------------------
(* write_generated_pair_transactionally                                    *)

NextBackup == IF at = 2 THEN Go("install", 1) ELSE Go("backup", at + 1)

MoveAside ==
    /\ pc = "backup" /\ disk[at].target = "old"
    /\ Set(at, [disk[at] EXCEPT !.target = "absent", !.backup = "old"])
    /\ had' = [had EXCEPT ![at] = TRUE]
    /\ NextBackup
    /\ UNCHANGED <<bookVars, pushed, fault, result>>

NoOriginal ==
    /\ pc = "backup" /\ disk[at].target = "absent"
    /\ NextBackup
    /\ Untouched /\ UNCHANGED <<bookVars, had, pushed, fault, result>>

\* Not a regular file, or the inspection or the rename fails.
BackupFails ==
    /\ pc = "backup"
    /\ Go("restore", at - 1)
    /\ Untouched /\ UNCHANGED <<bookVars, had, pushed, fault, result>>

Install ==
    /\ pc = "install"
    /\ Set(at, [disk[at] EXCEPT !.target = disk[at].staged, !.staged = "absent"])
    /\ IF at = 2 THEN Go("sync", 1) ELSE Go("install", at + 1)
    /\ UNCHANGED <<bookVars, had, pushed, fault, result>>

InstallFails ==
    /\ pc = "install"
    /\ Go("remove", at - 1)
    /\ Untouched /\ UNCHANGED <<bookVars, had, pushed, fault, result>>

MutSynced == UNCHANGED durable

\* sync_generated_directories: all directories, or some before one fails.
Synced == durable' = [i \in Entries |-> {disk[i]}]

SyncedPartly ==
    \E done \in {{}, {1}, {2}} :
        durable' = [i \in Entries |-> IF i \in done THEN {disk[i]} ELSE durable[i]]

Sync ==
    /\ pc = "sync"
    /\ Synced
    /\ Go("unbackup", 1)
    /\ UNCHANGED <<disk, bookVars, had, pushed, fault, result>>

SyncFails ==
    /\ pc = "sync"
    /\ SyncedPartly
    /\ Go("remove", 2)
    /\ UNCHANGED <<disk, bookVars, had, pushed, fault, result>>

\* The backups are removed whatever happens to one of them.
RemoveBackup ==
    /\ pc = "unbackup" /\ at \in Entries
    /\ \/ /\ had[at]
          /\ Set(at, [disk[at] EXCEPT !.backup = "absent"])
          /\ UNCHANGED fault
       \/ had[at] /\ fault' = TRUE /\ Untouched
       \/ ~had[at] /\ Untouched /\ UNCHANGED fault
    /\ Go("unbackup", at + 1)
    /\ UNCHANGED <<bookVars, had, pushed, result>>

BackupsRemoved ==
    /\ pc = "unbackup" /\ at \notin Entries
    /\ IF fault THEN Return("committed") ELSE Go("final", 1) /\ UNCHANGED result
    /\ Untouched /\ UNCHANGED <<bookVars, had, pushed, fault>>

MutFinalSync ==
    /\ pc = "final"
    /\ Return("ok")
    /\ UNCHANGED durable
    /\ UNCHANGED <<disk, bookVars, had, pushed, fault>>

FinalSync ==
    /\ pc = "final"
    /\ \/ Synced /\ Return("ok")
       \/ SyncedPartly /\ Return("committed")
    /\ UNCHANGED <<disk, bookVars, had, pushed, fault>>

-----------------------------------------------------------------------------
(* rollback_generated_pair_install, restore_originals, cleanup_staged_files *)

\* remove_file_if_present for the targets of the installed entries, last first.
RemoveTarget ==
    /\ pc = "remove" /\ at \in Entries
    /\ \/ Set(at, [disk[at] EXCEPT !.target = "absent"]) /\ UNCHANGED fault
       \/ fault' = TRUE /\ Untouched
    /\ Go("remove", at - 1)
    /\ UNCHANGED <<bookVars, had, pushed, result>>

TargetsRemoved ==
    /\ pc = "remove" /\ at \notin Entries
    /\ Go("restore", 2)
    /\ Untouched /\ UNCHANGED <<bookVars, had, pushed, fault, result>>

RestoreOriginal ==
    /\ pc = "restore" /\ at \in Entries
    /\ \/ /\ had[at]
          /\ Set(at, [disk[at] EXCEPT !.target = disk[at].backup, !.backup = "absent"])
          /\ UNCHANGED fault
       \/ had[at] /\ fault' = TRUE /\ Untouched
       \/ ~had[at] /\ Untouched /\ UNCHANGED fault
    /\ Go("restore", at - 1)
    /\ UNCHANGED <<bookVars, had, pushed, result>>

OriginalsRestored ==
    /\ pc = "restore" /\ at \notin Entries
    /\ Go("cleanup", 1)
    /\ Untouched /\ UNCHANGED <<bookVars, had, pushed, fault, result>>

\* cleanup_staged_files, and the return of the first error with what failed.
RemoveStaged ==
    /\ pc = "cleanup" /\ at <= pushed
    /\ \/ Set(at, [disk[at] EXCEPT !.staged = "absent"]) /\ UNCHANGED fault
       \/ fault' = TRUE /\ Untouched
    /\ Go("cleanup", at + 1)
    /\ UNCHANGED <<bookVars, had, pushed, result>>

StagedRemoved ==
    /\ pc = "cleanup" /\ at > pushed
    /\ Return("error")
    /\ Untouched /\ UNCHANGED <<bookVars, had, pushed, fault>>

-----------------------------------------------------------------------------
(* Crashes                                                                 *)

Kill ==
    /\ pc # "returned"
    /\ Return("killed")
    /\ Untouched /\ UNCHANGED <<bookVars, had, pushed, fault>>

PowerLoss ==
    /\ result # "lost"
    /\ \E s1 \in durable[1], s2 \in durable[2] :
          disk' = [i \in Entries |-> IF i = 1 THEN s1 ELSE s2]
    /\ durable' = [i \in Entries |-> {disk'[i]}]
    /\ Return("lost")
    /\ UNCHANGED <<bookVars, had, pushed, fault>>

Next ==
    \/ Begin \/ Create \/ CreateFails \/ Write \/ WriteFails
    \/ MoveAside \/ NoOriginal \/ BackupFails \/ Install \/ InstallFails
    \/ Sync \/ SyncFails \/ RemoveBackup \/ BackupsRemoved \/ FinalSync
    \/ RemoveTarget \/ TargetsRemoved \/ RestoreOriginal \/ OriginalsRestored
    \/ RemoveStaged \/ StagedRemoved \/ Kill \/ PowerLoss

Spec == Init /\ [][Next]_vars

-----------------------------------------------------------------------------
(* Properties                                                              *)

Installed == \A i \in Entries : disk[i].target = "new"

\* No original is lost before the whole pair is replaced: whichever call on
\* the file system fails, and whatever of the unsynchronized renames a power
\* loss undoes, each original is in its target or in its backup, or every
\* target is sure to hold its whole new file.
OriginalsKept ==
    \/ \A i \in Entries : before[i].target # "absent" =>
          \A s \in durable[i] \cup {disk[i]} : before[i].target \in {s.target, s.backup}
    \/ \A i \in Entries : \A s \in durable[i] \cup {disk[i]} : s.target = "new"

\* What the caller is told is what is on disk: Ok and the two errors that
\* say "both generated files were committed" mean both whole new files; any
\* other error without rollback failures means both targets and all sidecars
\* are as before the call.  And Ok is final: no power loss afterwards brings
\* back an original, a backup or a staged file.
AnswerIsTrue ==
    /\ result \in {"ok", "committed"} => Installed
    /\ result = "error" /\ ~fault => disk = before
    /\ result = "ok" =>
          \A i \in Entries : durable[i] = {Names("new", "absent", "absent")}

\* A sidecar this call did not create is neither overwritten nor removed: it
\* may hold the only copy of an original that a crashed call moved aside.
LeftoversUntouched ==
    \A i \in Entries :
        /\ before[i].staged # "absent" => disk[i].staged = before[i].staged
        /\ before[i].backup # "absent" => disk[i].backup = before[i].backup
==============================================================================
