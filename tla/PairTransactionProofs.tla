------------------------ MODULE PairTransactionProofs ------------------------
(***************************************************************************)
(* No original is lost, no leftover is touched and no answer is wrong,     *)
(* however many calls, of which any may be killed or cut short by a power  *)
(* loss, follow each other.  The invariant says for every step of a call   *)
(* where each original is, on disk and in every state that a power loss    *)
(* may bring back; AnswerInv adds the exact names on the way forward and   *)
(* on the way back.                                                        *)
(***************************************************************************)
EXTENDS PairTransaction, TLAPS

\* What a name may show, the names of an entry and the steps of a call.
Contents == {"absent", "old", "other", "new", "torn", "foreign"}
NameStates == [target : Contents, staged : Contents, backup : Contents]
Labels == {"stage", "write", "backup", "install", "sync", "unbackup", "final",
           "remove", "restore", "cleanup", "returned"}

\* The types of the variables that the invariant speaks of.
PairTypes ==
    /\ disk \in [Entries -> NameStates]
    /\ durable \in [Entries -> SUBSET NameStates]
    /\ before \in [Entries -> NameStates]
    /\ had \in [Entries -> BOOLEAN]
    /\ pc \in Labels
    /\ at \in 0..3
    /\ pushed \in 0..2

\* What entry i shows now or may show after a power loss.
Shown(i) == durable[i] \cup {disk[i]}

\* Names s still hold the original of entry i.
Kept(i, s) == before[i].target # "absent" => before[i].target \in {s.target, s.backup}

\* Every original is held, whatever a power loss brings back.
Safe == \A i \in Entries : \A s \in Shown(i) : Kept(i, s)

\* The whole pair is replaced for good.
Replaced == \A i \in Entries : \A s \in Shown(i) : s.target = "new"

\* The original of entry i, if there was one, is in its backup.
Aside(i) ==
    /\ before[i].target \in {"absent", "old"}
    /\ had[i] <=> before[i].target = "old"
    /\ had[i] => disk[i].backup = "old"

\* Entry i still shows its original, or nothing if there was none.
Original(i) == disk[i].target = before[i].target

\* Where each original is at each step of the call.
Located ==
    /\ pc \in {"stage", "write"} => at \in Entries /\ \A i \in Entries : Original(i) /\ ~had[i]
    /\ pc = "backup" =>
          /\ at \in Entries
          /\ \A i \in Entries : IF i < at THEN Aside(i) ELSE Original(i) /\ ~had[i]
    /\ pc \in {"install", "sync", "remove"} => \A i \in Entries : Aside(i)
    /\ pc = "install" => at \in Entries
    /\ pc = "cleanup" => at >= 1
    /\ pc = "restore" =>
          /\ at <= 2
          /\ \A i \in Entries : i <= at /\ had[i] =>
                before[i].target = "old" /\ disk[i].backup = "old"

\* Where the new files are.
Written ==
    /\ pc \in {"stage", "write"} => \A i \in Entries : i < at => disk[i].staged = "new"
    /\ pc = "backup" => \A i \in Entries : disk[i].staged = "new"
    /\ pc = "install" =>
          \A i \in Entries : IF i < at THEN disk[i].target = "new" ELSE disk[i].staged = "new"
    /\ pc = "sync" => \A i \in Entries : disk[i].target = "new"

\* No entry whose sidecars were there before has been staged.
Clear(i) == before[i].staged = "absent" /\ before[i].backup = "absent"

\* Leftovers are untouched, and the entries staged so far had none.
Staged ==
    /\ \A i \in Entries :
          \/ Clear(i)
          \/ \A s \in Shown(i) : s.staged = before[i].staged /\ s.backup = before[i].backup
    /\ \A i \in Entries : i <= pushed => Clear(i)
    /\ pc = "stage" => pushed = at - 1
    /\ pc = "write" => pushed = at - 1 /\ Clear(at)
    /\ pc \in {"backup", "install", "sync", "unbackup", "final", "remove", "restore"} =>
          pushed = 2

\* From the first whole synchronization on the new pair is durable; before it
\* every original is held.
Committed ==
    /\ pc \in {"unbackup", "final"} => Replaced
    /\ pc \notin {"unbackup", "final", "returned"} => Safe
    /\ pc = "returned" => Safe \/ Replaced

\* The inductive invariant.
PairInv == PairTypes /\ Located /\ Written /\ Staged /\ Committed

-----------------------------------------------------------------------------
\* Two names of an entry changed at once.
LEMMA Renamed ==
    ASSUME NEW s \in NameStates, NEW a \in Contents, NEW b \in Contents
    PROVE  /\ [s EXCEPT !.target = a, !.backup = b] \in NameStates
           /\ [s EXCEPT !.target = a, !.staged = b] \in NameStates
<1>1. [s EXCEPT !.target = a] \in NameStates
  BY DEF NameStates
<1> QED
  BY <1>1 DEF NameStates

\* If what a call on the file system leaves of its entry holds the original,
\* every original is still safe.
LEMMA StillSafe ==
    ASSUME PairTypes, Safe, before' = before,
           NEW i \in Entries, NEW s, Set(i, s), Kept(i, s)
    PROVE  Safe'
<1>1. \A j \in Entries :
          Shown(j)' \subseteq Shown(j) \cup (IF j = i THEN {s} ELSE {})
  BY DEF PairTypes, Set, Shown
<1>2. \A j \in Entries : \A u : Kept(j, u)' <=>
          (before[j].target # "absent" => before[j].target \in {u.target, u.backup})
  BY DEF Kept
<1> QED
  BY <1>1, <1>2 DEF Safe, Kept

\* A new call takes what is on disk as its originals.
LEMMA BeginPreserves ==
    ASSUME PairInv, Begin
    PROVE  PairInv'
<1>1. PairTypes'
  BY DEF PairInv, PairTypes, Located, Labels, Entries, Shown, Begin, Go,
    Inherited, Names, Contents, NameStates
<1>2. Located'
  BY DEF PairInv, PairTypes, Located, Labels, Aside, Original, Written,
    Entries, Shown, Begin, Go, Inherited, Names, Contents, NameStates
<1>3. Written'
  BY DEF PairInv, PairTypes, Labels, Written, Located, Entries, Shown, Begin,
    Go, Inherited, Names, Contents, NameStates
<1>4. Staged'
  BY DEF PairInv, PairTypes, Located, Labels, Staged, Clear, Entries, Shown,
    Begin, Go, Inherited, Names, Contents, NameStates
<1>5. Committed'
  BY DEF PairInv, PairTypes, Labels, Located, Aside, Original, Written,
    Committed, Safe, Replaced, Kept, Entries, Shown, Begin, Go, Inherited,
    Names, Contents, NameStates
<1> QED
  BY <1>1, <1>2, <1>3, <1>4, <1>5 DEF PairInv

\* A staged file is created only where no sidecar was.
LEMMA CreatePreserves ==
    ASSUME PairInv, Create
    PROVE  PairInv'
<1>1. PairTypes'
  BY DEF PairInv, PairTypes, Located, Labels, Entries, NameStates, Contents,
    Create, SidecarFree, bookVars, Set
<1>2. Located'
  BY DEF PairInv, PairTypes, Located, Labels, Aside, Original, Written,
    Entries, NameStates, Create, SidecarFree, bookVars, Set
<1>3. Written'
  BY DEF PairInv, PairTypes, Labels, Written, Located, Entries, NameStates,
    Create, SidecarFree, bookVars, Set
<1>4. Staged'
  BY DEF PairInv, PairTypes, Located, Labels, Staged, Clear, Entries,
    NameStates, Shown, Create, SidecarFree, bookVars, Set
<1>5. Committed'
  BY DEF PairInv, PairTypes, Labels, Located, Aside, Original, Written,
    Committed, Safe, Replaced, Kept, Entries, NameStates, Shown, Create,
    SidecarFree, bookVars, Set
<1> QED
  BY <1>1, <1>2, <1>3, <1>4, <1>5 DEF PairInv

\* A refused sidecar ends the call with nothing moved.
LEMMA CreateFailsPreserves ==
    ASSUME PairInv, CreateFails
    PROVE  PairInv'
  BY DEF PairInv, PairTypes, Labels, Located, Aside, Original, Written,
    Staged, Clear, Committed, Safe, Replaced, Kept, Entries, Shown,
    CreateFails, Untouched, Go, bookVars

\* The staged file is whole once it is written and synchronized.
LEMMA WritePreserves ==
    ASSUME PairInv, Write
    PROVE  PairInv'
<1>1. PairTypes'
  BY DEF PairInv, PairTypes, Located, Labels, Entries, NameStates, Contents,
    Write, Go, bookVars, Set
<1>2. Located'
  BY DEF PairInv, PairTypes, Located, Labels, Aside, Original, Written,
    Entries, NameStates, Write, Go, bookVars, Set
<1>3. Written'
  BY DEF PairInv, PairTypes, Labels, Written, Located, Entries, NameStates,
    Write, Go, bookVars, Set
<1>4. Staged'
  BY DEF PairInv, PairTypes, Located, Labels, Staged, Clear, Entries,
    NameStates, Shown, Write, Go, bookVars, Set
<1>5. Committed'
  BY DEF PairInv, PairTypes, Labels, Located, Aside, Original, Written,
    Committed, Safe, Replaced, Kept, Entries, NameStates, Shown, Write, Go,
    bookVars, Set
<1> QED
  BY <1>1, <1>2, <1>3, <1>4, <1>5 DEF PairInv

\* A failed write removes the file this call created, or leaves it torn.
LEMMA WriteFailsPreserves ==
    ASSUME PairInv, WriteFails
    PROVE  PairInv'
<1>1. PairTypes'
  BY DEF PairInv, PairTypes, Located, Labels, Entries, NameStates, Contents,
    WriteFails, Untouched, Go, bookVars, Set
<1>2. Located'
  BY DEF PairInv, PairTypes, Located, Labels, Aside, Original, Written,
    Entries, NameStates, WriteFails, Untouched, Go, bookVars, Set
<1>3. Written'
  BY DEF PairInv, PairTypes, Labels, Written, Located, Entries, NameStates,
    WriteFails, Untouched, Go, bookVars, Set
<1>4. Staged'
  BY DEF PairInv, PairTypes, Located, Labels, Staged, Clear, Entries,
    NameStates, Shown, WriteFails, Untouched, Go, bookVars, Set
<1>5. Committed'
  BY DEF PairInv, PairTypes, Labels, Located, Aside, Original, Written,
    Committed, Safe, Replaced, Kept, Entries, NameStates, Shown, WriteFails,
    Untouched, Go, bookVars, Set
<1> QED
  BY <1>1, <1>2, <1>3, <1>4, <1>5 DEF PairInv

\* The rename of an original moves it from its target to its backup at once.
LEMMA MoveAsidePreserves ==
    ASSUME PairInv, MoveAside
    PROVE  PairInv'
<1>1. PairTypes'
  <2>1. at \in Entries /\ disk[at] \in NameStates
    BY DEF PairInv, PairTypes, Located, MoveAside
  <2>2. {disk[at].staged, disk[at].backup, "absent", "old"} \subseteq Contents
    BY <2>1 DEF NameStates, Contents
  <2>3. [disk[at] EXCEPT !.target = "absent", !.backup = "old"] \in NameStates
    BY <2>1, <2>2, Renamed
  <2> QED
    BY <2>1, <2>3 DEF PairInv, PairTypes, Located, Labels, Entries, MoveAside,
      NextBackup, Go, bookVars, Set
<1>2. Located'
  BY DEF PairInv, PairTypes, Located, Labels, Aside, Original, Written,
    Entries, NameStates, MoveAside, NextBackup, Go, bookVars, Set
<1>3. Written'
  BY DEF PairInv, PairTypes, Labels, Written, Located, Entries, NameStates,
    MoveAside, NextBackup, Go, bookVars, Set
<1>4. Staged'
  BY DEF PairInv, PairTypes, Located, Labels, Staged, Clear, Entries,
    NameStates, Shown, MoveAside, NextBackup, Go, bookVars, Set
<1>5. Committed'
  <2>1. at \in Entries /\ Safe /\ Kept(at, [disk[at] EXCEPT !.target = "absent", !.backup = "old"])
    BY DEF PairInv, PairTypes, Labels, Located, Aside, Original, Written,
      Committed, Safe, Replaced, Kept, Entries, NameStates, Shown, MoveAside
  <2>2. before' = before /\ pc' \notin {"unbackup", "final"}
    BY DEF MoveAside, NextBackup, Go, bookVars
  <2>3. Set(at, [disk[at] EXCEPT !.target = "absent", !.backup = "old"])
    BY DEF MoveAside
  <2> QED
    BY <2>1, <2>2, <2>3, StillSafe DEF PairInv, Committed
<1> QED
  BY <1>1, <1>2, <1>3, <1>4, <1>5 DEF PairInv

\* An entry without a target has nothing to lose.
LEMMA NoOriginalPreserves ==
    ASSUME PairInv, NoOriginal
    PROVE  PairInv'
  BY DEF PairInv, PairTypes, Labels, Located, Aside, Original, Written,
    Staged, Clear, Committed, Safe, Replaced, Kept, Entries, Shown,
    NoOriginal, Untouched, NextBackup, Go, bookVars

\* A failed backup goes back over the entries before it.
LEMMA BackupFailsPreserves ==
    ASSUME PairInv, BackupFails
    PROVE  PairInv'
  BY DEF PairInv, PairTypes, Labels, Located, Aside, Original, Written,
    Staged, Clear, Committed, Safe, Replaced, Kept, Entries, Shown,
    BackupFails, Untouched, Go, bookVars

\* Installing replaces a target whose original is in its backup.
LEMMA InstallPreserves ==
    ASSUME PairInv, Install
    PROVE  PairInv'
<1>1. PairTypes'
  <2>1. at \in Entries /\ disk[at] \in NameStates
    BY DEF PairInv, PairTypes, Located, Install
  <2>2. {disk[at].staged, disk[at].backup, "absent", "old"} \subseteq Contents
    BY <2>1 DEF NameStates, Contents
  <2>3. [disk[at] EXCEPT !.target = disk[at].staged, !.staged = "absent"] \in NameStates
    BY <2>1, <2>2, Renamed
  <2> QED
    BY <2>1, <2>3 DEF PairInv, PairTypes, Located, Labels, Entries, Install,
      Go, bookVars, Set
<1>2. Located'
  BY DEF PairInv, PairTypes, Located, Labels, Aside, Original, Written,
    Entries, NameStates, Install, Go, bookVars, Set
<1>3. Written'
  BY DEF PairInv, PairTypes, Labels, Written, Located, Entries, NameStates,
    Install, Go, bookVars, Set
<1>4. Staged'
  BY DEF PairInv, PairTypes, Located, Labels, Staged, Clear, Entries,
    NameStates, Shown, Install, Go, bookVars, Set
<1>5. Committed'
  <2>1. at \in Entries /\ Safe /\ Kept(at, [disk[at] EXCEPT !.target = disk[at].staged, !.staged = "absent"])
    BY DEF PairInv, PairTypes, Labels, Located, Aside, Original, Written,
      Committed, Safe, Replaced, Kept, Entries, NameStates, Shown, Install
  <2>2. before' = before /\ pc' \notin {"unbackup", "final"}
    BY DEF Install, Go, bookVars
  <2>3. Set(at, [disk[at] EXCEPT !.target = disk[at].staged, !.staged = "absent"])
    BY DEF Install
  <2> QED
    BY <2>1, <2>2, <2>3, StillSafe DEF PairInv, Committed
<1> QED
  BY <1>1, <1>2, <1>3, <1>4, <1>5 DEF PairInv

\* A failed installation leaves every original in its backup.
LEMMA InstallFailsPreserves ==
    ASSUME PairInv, InstallFails
    PROVE  PairInv'
  BY DEF PairInv, PairTypes, Labels, Located, Aside, Original, Written,
    Staged, Clear, Committed, Safe, Replaced, Kept, Entries, Shown,
    InstallFails, Untouched, Go, bookVars

\* Once all directories are synchronized no power loss undoes the new pair.
LEMMA SyncPreserves ==
    ASSUME PairInv, Sync
    PROVE  PairInv'
<1>1. PairTypes'
  BY DEF PairInv, PairTypes, Located, Labels, Entries, Shown, Sync, Go,
    Synced, bookVars
<1>2. Located'
  BY DEF PairInv, PairTypes, Located, Labels, Aside, Original, Written,
    Entries, Shown, Sync, Go, Synced, bookVars
<1>3. Written'
  BY DEF PairInv, PairTypes, Labels, Written, Located, Entries, Shown, Sync,
    Go, Synced, bookVars
<1>4. Staged'
  BY DEF PairInv, PairTypes, Located, Labels, Staged, Clear, Entries, Shown,
    Sync, Go, Synced, bookVars
<1>5. Committed'
  BY DEF PairInv, PairTypes, Labels, Located, Aside, Original, Written,
    Committed, Safe, Replaced, Kept, Entries, Shown, Sync, Go, Synced,
    bookVars
<1> QED
  BY <1>1, <1>2, <1>3, <1>4, <1>5 DEF PairInv

\* A partial synchronization still shows every original.
LEMMA SyncFailsPreserves ==
    ASSUME PairInv, SyncFails
    PROVE  PairInv'
<1>1. PairTypes'
  BY DEF PairInv, PairTypes, Located, Labels, Entries, Shown, SyncFails, Go,
    SyncedPartly, bookVars
<1>2. Located'
  BY DEF PairInv, PairTypes, Located, Labels, Aside, Original, Written,
    Entries, Shown, SyncFails, Go, SyncedPartly, bookVars
<1>3. Written'
  BY DEF PairInv, PairTypes, Labels, Written, Located, Entries, Shown,
    SyncFails, Go, SyncedPartly, bookVars
<1>4. Staged'
  BY DEF PairInv, PairTypes, Located, Labels, Staged, Clear, Entries, Shown,
    SyncFails, Go, SyncedPartly, bookVars
<1>5. Committed'
  BY DEF PairInv, PairTypes, Labels, Located, Aside, Original, Written,
    Committed, Safe, Replaced, Kept, Entries, Shown, SyncFails, Go,
    SyncedPartly, bookVars
<1> QED
  BY <1>1, <1>2, <1>3, <1>4, <1>5 DEF PairInv

\* A backup is removed only after the new pair is durable.
LEMMA RemoveBackupPreserves ==
    ASSUME PairInv, RemoveBackup
    PROVE  PairInv'
<1>1. PairTypes'
  BY DEF PairInv, PairTypes, Located, Labels, Entries, NameStates, Contents,
    RemoveBackup, Untouched, Go, bookVars, Set
<1>2. Located'
  BY DEF PairInv, PairTypes, Located, Labels, Aside, Original, Written,
    Entries, NameStates, RemoveBackup, Untouched, Go, bookVars, Set
<1>3. Written'
  BY DEF PairInv, PairTypes, Labels, Written, Located, Entries, NameStates,
    RemoveBackup, Untouched, Go, bookVars, Set
<1>4. Staged'
  BY DEF PairInv, PairTypes, Located, Labels, Staged, Clear, Entries,
    NameStates, Shown, RemoveBackup, Untouched, Go, bookVars, Set
<1>5. Committed'
  BY DEF PairInv, PairTypes, Labels, Located, Aside, Original, Written,
    Committed, Safe, Replaced, Kept, Entries, NameStates, Shown, RemoveBackup,
    Untouched, Go, bookVars, Set
<1> QED
  BY <1>1, <1>2, <1>3, <1>4, <1>5 DEF PairInv

\* The end of the removal of the backups changes no name.
LEMMA BackupsRemovedPreserves ==
    ASSUME PairInv, BackupsRemoved
    PROVE  PairInv'
  BY DEF PairInv, PairTypes, Labels, Located, Aside, Original, Written,
    Staged, Clear, Committed, Safe, Replaced, Kept, Entries, Shown,
    BackupsRemoved, Untouched, Go, Return, bookVars

\* The last synchronization forgets only names with the new targets.
LEMMA FinalSyncPreserves ==
    ASSUME PairInv, FinalSync
    PROVE  PairInv'
<1>1. PairTypes'
  BY DEF PairInv, PairTypes, Located, Labels, Entries, Shown, FinalSync,
    Return, Synced, SyncedPartly, Go, bookVars
<1>2. Located'
  BY DEF PairInv, PairTypes, Located, Labels, Aside, Original, Written,
    Entries, Shown, FinalSync, Return, Synced, SyncedPartly, Go, bookVars
<1>3. Written'
  BY DEF PairInv, PairTypes, Labels, Written, Located, Entries, Shown,
    FinalSync, Return, Synced, SyncedPartly, Go, bookVars
<1>4. Staged'
  BY DEF PairInv, PairTypes, Located, Labels, Staged, Clear, Entries, Shown,
    FinalSync, Return, Synced, SyncedPartly, Go, bookVars
<1>5. Committed'
  BY DEF PairInv, PairTypes, Labels, Located, Aside, Original, Written,
    Committed, Safe, Replaced, Kept, Entries, Shown, FinalSync, Return,
    Synced, SyncedPartly, Go, bookVars
<1> QED
  BY <1>1, <1>2, <1>3, <1>4, <1>5 DEF PairInv

\* The rollback removes new targets, whose originals are in their backups.
LEMMA RemoveTargetPreserves ==
    ASSUME PairInv, RemoveTarget
    PROVE  PairInv'
<1>1. PairTypes'
  BY DEF PairInv, PairTypes, Located, Labels, Entries, NameStates, Contents,
    RemoveTarget, Untouched, Go, bookVars, Set
<1>2. Located'
  BY DEF PairInv, PairTypes, Located, Labels, Aside, Original, Written,
    Entries, NameStates, RemoveTarget, Untouched, Go, bookVars, Set
<1>3. Written'
  BY DEF PairInv, PairTypes, Labels, Written, Located, Entries, NameStates,
    RemoveTarget, Untouched, Go, bookVars, Set
<1>4. Staged'
  BY DEF PairInv, PairTypes, Located, Labels, Staged, Clear, Entries,
    NameStates, Shown, RemoveTarget, Untouched, Go, bookVars, Set
<1>5. Committed'
  BY DEF PairInv, PairTypes, Labels, Located, Aside, Original, Written,
    Committed, Safe, Replaced, Kept, Entries, NameStates, Shown, RemoveTarget,
    Untouched, Go, bookVars, Set
<1> QED
  BY <1>1, <1>2, <1>3, <1>4, <1>5 DEF PairInv

\* The end of the removal of the targets changes no name.
LEMMA TargetsRemovedPreserves ==
    ASSUME PairInv, TargetsRemoved
    PROVE  PairInv'
  BY DEF PairInv, PairTypes, Labels, Located, Aside, Original, Written,
    Staged, Clear, Committed, Safe, Replaced, Kept, Entries, Shown,
    TargetsRemoved, Untouched, Go, bookVars

\* The rollback moves an original from its backup to its target at once.
LEMMA RestoreOriginalPreserves ==
    ASSUME PairInv, RestoreOriginal
    PROVE  PairInv'
<1>1. PairTypes'
  <2>1. at \in Entries /\ disk[at] \in NameStates
    BY DEF PairInv, PairTypes, Located, RestoreOriginal
  <2>2. {disk[at].staged, disk[at].backup, "absent", "old"} \subseteq Contents
    BY <2>1 DEF NameStates, Contents
  <2>3. [disk[at] EXCEPT !.target = disk[at].backup, !.backup = "absent"] \in NameStates
    BY <2>1, <2>2, Renamed
  <2> QED
    BY <2>1, <2>3 DEF PairInv, PairTypes, Located, Labels, Entries,
      RestoreOriginal, Untouched, Go, bookVars, Set
<1>2. Located'
  BY DEF PairInv, PairTypes, Located, Labels, Aside, Original, Written,
    Entries, NameStates, RestoreOriginal, Untouched, Go, bookVars, Set
<1>3. Written'
  BY DEF PairInv, PairTypes, Labels, Written, Located, Entries, NameStates,
    RestoreOriginal, Untouched, Go, bookVars, Set
<1>4. Staged'
  BY DEF PairInv, PairTypes, Located, Labels, Staged, Clear, Entries,
    NameStates, Shown, RestoreOriginal, Untouched, Go, bookVars, Set
<1>5. Committed'
  <2>1. at \in Entries /\ Safe
    BY DEF PairInv, Committed, RestoreOriginal
  <2>2. before' = before /\ pc' \notin {"unbackup", "final"}
    BY DEF RestoreOriginal, Untouched, Go, bookVars
  <2>3. had[at] => Kept(at, [disk[at] EXCEPT !.target = disk[at].backup, !.backup = "absent"])
    BY <2>1 DEF PairInv, PairTypes, Located, Kept, Entries, NameStates,
      RestoreOriginal
  <2>4. CASE had[at] /\ Set(at, [disk[at] EXCEPT !.target = disk[at].backup, !.backup = "absent"])
    BY <2>1, <2>2, <2>3, <2>4, StillSafe DEF PairInv, Committed
  <2>5. CASE Untouched
    BY <2>1, <2>2, <2>5 DEF Untouched, Committed, Safe, Kept, Shown
  <2> QED
    BY <2>4, <2>5 DEF RestoreOriginal
<1> QED
  BY <1>1, <1>2, <1>3, <1>4, <1>5 DEF PairInv

\* The end of the restoration changes no name.
LEMMA OriginalsRestoredPreserves ==
    ASSUME PairInv, OriginalsRestored
    PROVE  PairInv'
  BY DEF PairInv, PairTypes, Labels, Located, Aside, Original, Written,
    Staged, Clear, Committed, Safe, Replaced, Kept, Entries, Shown,
    OriginalsRestored, Untouched, Go, bookVars

\* The cleanup removes only staged files this call created.
LEMMA RemoveStagedPreserves ==
    ASSUME PairInv, RemoveStaged
    PROVE  PairInv'
<1>1. PairTypes'
  BY DEF PairInv, PairTypes, Located, Labels, Entries, NameStates, Contents,
    RemoveStaged, Untouched, Go, bookVars, Set
<1>2. Located'
  BY DEF PairInv, PairTypes, Located, Labels, Aside, Original, Written,
    Entries, NameStates, RemoveStaged, Untouched, Go, bookVars, Set
<1>3. Written'
  BY DEF PairInv, PairTypes, Labels, Written, Located, Entries, NameStates,
    RemoveStaged, Untouched, Go, bookVars, Set
<1>4. Staged'
  BY DEF PairInv, PairTypes, Located, Labels, Staged, Clear, Entries,
    NameStates, Shown, RemoveStaged, Untouched, Go, bookVars, Set
<1>5. Committed'
  BY DEF PairInv, PairTypes, Labels, Located, Aside, Original, Written,
    Committed, Safe, Replaced, Kept, Entries, NameStates, Shown, RemoveStaged,
    Untouched, Go, bookVars, Set
<1> QED
  BY <1>1, <1>2, <1>3, <1>4, <1>5 DEF PairInv

\* The return of the error changes no name.
LEMMA StagedRemovedPreserves ==
    ASSUME PairInv, StagedRemoved
    PROVE  PairInv'
  BY DEF PairInv, PairTypes, Labels, Located, Aside, Original, Written,
    Staged, Clear, Committed, Safe, Replaced, Kept, Entries, Shown,
    StagedRemoved, Untouched, Return, Go, bookVars

\* A killed process leaves the names as they are.
LEMMA KillPreserves ==
    ASSUME PairInv, Kill
    PROVE  PairInv'
  BY DEF PairInv, PairTypes, Labels, Located, Aside, Original, Written,
    Staged, Clear, Committed, Safe, Replaced, Kept, Entries, Shown, Kill,
    Untouched, Return, Go, bookVars

\* A power loss brings back one of the states that the invariant covers.
LEMMA PowerLossPreserves ==
    ASSUME PairInv, PowerLoss
    PROVE  PairInv'
<1>1. PairTypes'
  BY DEF PairInv, PairTypes, Located, Labels, Entries, Shown, PowerLoss,
    Return, Go, bookVars
<1>2. Located'
  BY DEF PairInv, PairTypes, Located, Labels, Aside, Original, Written,
    Entries, Shown, PowerLoss, Return, Go, bookVars
<1>3. Written'
  BY DEF PairInv, PairTypes, Labels, Written, Located, Entries, Shown,
    PowerLoss, Return, Go, bookVars
<1>4. Staged'
  BY DEF PairInv, PairTypes, Located, Labels, Staged, Clear, Entries, Shown,
    PowerLoss, Return, Go, bookVars
<1>5. Committed'
  BY DEF PairInv, PairTypes, Labels, Located, Aside, Original, Written,
    Committed, Safe, Replaced, Kept, Entries, Shown, PowerLoss, Return, Go,
    bookVars
<1> QED
  BY <1>1, <1>2, <1>3, <1>4, <1>5 DEF PairInv

-----------------------------------------------------------------------------
\* Before the first call nothing is moved.
LEMMA InitPair == Init => PairInv
  BY DEF Init, Names, Entries, PairInv, PairTypes, NameStates, Contents, Labels,
    Located, Written, Staged, Clear, Committed, Safe, Kept, Shown

\* The invariant holds throughout, for any number of calls and crashes.
THEOREM PairInvariant == Spec => []PairInv
<1>1. PairInv /\ [Next]_vars => PairInv'
  <2> SUFFICES ASSUME PairInv, [Next]_vars PROVE PairInv'
    OBVIOUS
  <2>1. CASE UNCHANGED vars
    BY <2>1 DEF vars, PairInv, PairTypes, Located, Aside, Original, Written, Staged,
      Clear, Committed, Safe, Replaced, Kept, Shown
  <2>2. CASE Next
    BY <2>2, BeginPreserves, CreatePreserves, CreateFailsPreserves,
      WritePreserves, WriteFailsPreserves, MoveAsidePreserves,
      NoOriginalPreserves, BackupFailsPreserves, InstallPreserves,
      InstallFailsPreserves, SyncPreserves, SyncFailsPreserves,
      RemoveBackupPreserves, BackupsRemovedPreserves, FinalSyncPreserves,
      RemoveTargetPreserves, TargetsRemovedPreserves,
      RestoreOriginalPreserves, OriginalsRestoredPreserves,
      RemoveStagedPreserves, StagedRemovedPreserves, KillPreserves,
      PowerLossPreserves DEF Next
  <2> QED
    BY <2>1, <2>2
<1> QED
  BY <1>1, InitPair, PTL DEF Spec

\* No call of write_generated_pair_transactionally loses an original, for any
\* number of calls, failures, kills and power losses.
THEOREM OriginalsAreKept == Spec => []OriginalsKept
<1>1. PairInv => OriginalsKept
  BY DEF PairInv, PairTypes, Committed, Safe, Replaced, Kept, Shown, OriginalsKept
<1> QED
  BY <1>1, PairInvariant, PTL

\* No call overwrites or removes a sidecar that it did not create
\* (stage_generated_entries), for any number of calls and crashes.
THEOREM LeftoversStay == Spec => []LeftoversUntouched
<1>1. PairInv => LeftoversUntouched
  BY DEF PairInv, Staged, Clear, Shown, LeftoversUntouched
<1> QED
  BY <1>1, PairInvariant, PTL
-----------------------------------------------------------------------------
(* The answer                                                              *)

\* Entry i shows exactly these names.
Shows(i, target, staged, backup) ==
    disk[i].target = target /\ disk[i].staged = staged /\ disk[i].backup = backup

\* What the backup of entry i shows while its original is aside.
Spare(i) == IF had[i] THEN "old" ELSE "absent"

\* The names of entry i at each step of a call of which no step failed.
Forward(i) ==
    /\ pc \in {"stage", "write"} =>
          IF i < at THEN Shows(i, before[i].target, "new", "absent")
          ELSE IF i = at /\ pc = "write"
          THEN Shows(i, before[i].target, "torn", "absent")
          ELSE Shows(i, before[i].target, before[i].staged, before[i].backup)
    /\ pc = "backup" =>
          IF i < at THEN Shows(i, "absent", "new", Spare(i))
          ELSE Shows(i, before[i].target, "new", "absent")
    /\ pc = "install" =>
          IF i < at THEN Shows(i, "new", "absent", Spare(i))
          ELSE Shows(i, "absent", "new", Spare(i))
    /\ pc = "sync" => Shows(i, "new", "absent", Spare(i))
    /\ pc = "unbackup" =>
          /\ disk[i].target = "new" /\ disk[i].staged = "absent"
          /\ ~fault => disk[i].backup = IF i < at THEN "absent" ELSE Spare(i)
    /\ pc = "final" => Shows(i, "new", "absent", "absent")

\* The names of entry i at each step of a rollback of which no step failed.
Backward(i) ==
    /\ pc = "remove" =>
          /\ disk[i].backup = Spare(i) /\ before[i].target = Spare(i)
          /\ IF i <= at THEN disk[i].target = "new" /\ disk[i].staged = "absent"
             ELSE disk[i].target = "absent"
    /\ pc = "restore" =>
          IF i <= at
          THEN /\ disk[i].target = "absent" /\ disk[i].backup = Spare(i)
               /\ before[i].target = Spare(i)
          ELSE disk[i].target = before[i].target /\ disk[i].backup = "absent"
    /\ pc = "cleanup" =>
          /\ disk[i].target = before[i].target
          /\ disk[i].backup = before[i].backup
          /\ i < at \/ i > pushed => disk[i].staged = before[i].staged

\* What the call will be able to answer.
AnswerInv ==
    /\ fault \in BOOLEAN
    /\ pc # "returned" => result = "none"
    /\ pc \in {"stage", "write", "backup", "install", "sync", "final"} => ~fault
    /\ pc = "unbackup" => at >= 1
    /\ pc = "remove" => at <= 2
    /\ \A i \in Entries : Forward(i) /\ (~fault => Backward(i))
    /\ AnswerIsTrue

\* Names are equal if each of the three is.
LEMMA SameNames ==
    ASSUME NEW s \in NameStates, NEW u \in NameStates,
           s.target = u.target, s.staged = u.staged, s.backup = u.backup
    PROVE  s = u
  BY DEF NameStates

\* Every step of a call keeps the answer it will give true.
LEMMA AnswerPreserved ==
    ASSUME PairInv, AnswerInv, Next
    PROVE  AnswerInv'
<1>1. CASE Begin
  <2>1. /\ pc' = "stage" /\ at' = 1 /\ fault' = FALSE /\ result' = "none"
        /\ before' = disk'
    BY <1>1 DEF Begin, Go
  <2>2. \A i \in Entries : Forward(i)' /\ Backward(i)'
    BY <2>1 DEF Forward, Backward, Shows, Entries
  <2>3. AnswerIsTrue'
    BY <2>1 DEF AnswerIsTrue
  <2> QED
    BY <2>1, <2>2, <2>3 DEF AnswerInv
<1>2. CASE Create
  BY <1>2 DEF Create, SidecarFree, Set, bookVars, PairInv, PairTypes,
     NameStates, Located, Aside, Staged, Clear, AnswerInv, Forward, Backward,
     Shows, Spare, AnswerIsTrue, Installed, Entries
<1>3. CASE CreateFails
  BY <1>3 DEF CreateFails, Untouched, Go, bookVars, PairInv, PairTypes,
     NameStates, Located, Aside, Staged, Clear, AnswerInv, Forward, Backward,
     Shows, Spare, AnswerIsTrue, Installed, Entries
<1>4. CASE Write
  BY <1>4 DEF Write, Go, Set, bookVars, PairInv, PairTypes, NameStates,
     Located, Aside, Staged, Clear, AnswerInv, Forward, Backward, Shows,
     Spare, AnswerIsTrue, Installed, Entries
<1>5. CASE WriteFails
  <2>1. /\ pc = "write" /\ pc' = "cleanup" /\ at' = 1 /\ result' = result
        /\ before' = before /\ had' = had /\ pushed' = pushed
    BY <1>5 DEF WriteFails, Go, bookVars
  <2>2. CASE Set(at, [disk[at] EXCEPT !.staged = "absent"])
               /\ fault' = fault
    <3>1. /\ \A i \in Entries \ {at} : disk'[i] = disk[i]
          /\ disk'[at] = [disk[at] EXCEPT !.staged = "absent"]
      BY <2>1, <2>2 DEF PairInv, PairTypes, Set, Located, Entries
    <3>2. /\ disk'[at].target = disk[at].target
          /\ disk'[at].staged = "absent"
          /\ disk'[at].backup = disk[at].backup
      BY <2>1, <3>1 DEF PairInv, PairTypes, NameStates, Located, Entries
    <3>3. fault' = fault
      BY <2>2
    <3>4. ASSUME NEW i \in Entries, i = at
          PROVE  Forward(i)' /\ (~fault' => Backward(i)')
      BY <2>1, <3>2, <3>3, <3>4
         DEF AnswerInv, Forward, Backward, Shows, Spare, PairInv, PairTypes,
             Located, Staged, Clear, Entries
    <3>5. ASSUME NEW i \in Entries \ {at}
          PROVE  Forward(i)' /\ (~fault' => Backward(i)')
      BY <2>1, <3>1, <3>3
         DEF AnswerInv, Forward, Backward, Shows, Spare, PairInv, PairTypes,
             Located, Staged, Clear, Entries
    <3>6. AnswerIsTrue'
      BY <2>1 DEF AnswerInv, AnswerIsTrue
    <3> QED
      BY <2>1, <3>3, <3>4, <3>5, <3>6
         DEF AnswerInv, PairInv, PairTypes, Located, Entries
  <2>3. CASE Untouched /\ fault' = TRUE
    BY <2>1, <2>3
       DEF AnswerInv, Forward, Backward, Shows, Spare, AnswerIsTrue, Installed,
           Untouched, Entries
  <2> QED
    BY <1>5, <2>2, <2>3 DEF WriteFails
<1>6. CASE MoveAside
  BY <1>6 DEF MoveAside, NextBackup, Set, Go, bookVars, PairInv, PairTypes,
     NameStates, Located, Aside, Staged, Clear, AnswerInv, Forward, Backward,
     Shows, Spare, AnswerIsTrue, Installed, Entries
<1>7. CASE NoOriginal
  BY <1>7 DEF NoOriginal, Untouched, NextBackup, Go, bookVars, PairInv,
     PairTypes, NameStates, Located, Aside, Staged, Clear, AnswerInv, Forward,
     Backward, Shows, Spare, AnswerIsTrue, Installed, Entries
<1>8. CASE BackupFails
  BY <1>8 DEF BackupFails, Untouched, Go, bookVars, PairInv, PairTypes,
     NameStates, Located, Aside, Staged, Clear, AnswerInv, Forward, Backward,
     Shows, Spare, AnswerIsTrue, Installed, Entries
<1>9. CASE Install
  BY <1>9 DEF Install, Go, Set, bookVars, PairInv, PairTypes, NameStates,
     Located, Aside, Staged, Clear, AnswerInv, Forward, Backward, Shows,
     Spare, AnswerIsTrue, Installed, Entries
<1>10. CASE InstallFails
  BY <1>10 DEF InstallFails, Untouched, Go, bookVars, PairInv, PairTypes,
     NameStates, Located, Aside, Staged, Clear, AnswerInv, Forward, Backward,
     Shows, Spare, AnswerIsTrue, Installed, Entries
<1>11. CASE Sync
  BY <1>11 DEF Sync, Go, Synced, bookVars, PairInv, PairTypes, NameStates,
     Located, Aside, Staged, Clear, AnswerInv, Forward, Backward, Shows,
     Spare, AnswerIsTrue, Installed, Entries
<1>12. CASE SyncFails
  BY <1>12 DEF SyncFails, Go, SyncedPartly, bookVars, PairInv, PairTypes,
     NameStates, Located, Aside, Staged, Clear, AnswerInv, Forward, Backward,
     Shows, Spare, AnswerIsTrue, Installed, Entries
<1>13. CASE RemoveBackup
  <2>1. /\ pc = "unbackup" /\ pc' = "unbackup" /\ at' = at + 1 /\ result' = result
        /\ before' = before /\ had' = had /\ pushed' = pushed
        /\ at \in Entries
    BY <1>13 DEF RemoveBackup, Go, bookVars
  <2>2. CASE Set(at, [disk[at] EXCEPT !.backup = "absent"])
               /\ fault' = fault /\ had[at]
    <3>1. /\ \A i \in Entries \ {at} : disk'[i] = disk[i]
          /\ disk'[at] = [disk[at] EXCEPT !.backup = "absent"]
      BY <2>1, <2>2 DEF PairInv, PairTypes, Set, Located, Entries
    <3>2. /\ disk'[at].target = disk[at].target
          /\ disk'[at].staged = disk[at].staged
          /\ disk'[at].backup = "absent"
      BY <2>1, <3>1 DEF PairInv, PairTypes, NameStates, Located, Entries
    <3>3. fault' = fault /\ had[at]
      BY <2>2
    <3>4. ASSUME NEW i \in Entries, i = at
          PROVE  Forward(i)' /\ (~fault' => Backward(i)')
      BY <2>1, <3>2, <3>3, <3>4
         DEF AnswerInv, Forward, Backward, Shows, Spare, PairInv, PairTypes,
             Located, Staged, Clear, Entries
    <3>5. ASSUME NEW i \in Entries \ {at}
          PROVE  Forward(i)' /\ (~fault' => Backward(i)')
      BY <2>1, <3>1, <3>3
         DEF AnswerInv, Forward, Backward, Shows, Spare, PairInv, PairTypes,
             Located, Staged, Clear, Entries
    <3>6. AnswerIsTrue'
      BY <2>1 DEF AnswerInv, AnswerIsTrue
    <3> QED
      BY <2>1, <3>3, <3>4, <3>5, <3>6
         DEF AnswerInv, PairInv, PairTypes, Located, Entries
  <2>3. CASE Untouched /\ fault' = TRUE
    BY <2>1, <2>3
       DEF AnswerInv, Forward, Backward, Shows, Spare, AnswerIsTrue, Installed,
           Untouched, Entries
  <2>4. CASE ~had[at] /\ Untouched /\ fault' = fault
    BY <2>1, <2>4
       DEF AnswerInv, Forward, Backward, Shows, Spare, AnswerIsTrue, Installed,
           Untouched, Entries, PairInv, PairTypes, Located, Staged, Clear
  <2> QED
    BY <1>13, <2>2, <2>3, <2>4 DEF RemoveBackup
<1>14. CASE BackupsRemoved
  BY <1>14 DEF BackupsRemoved, Untouched, Go, Return, bookVars, PairInv,
     PairTypes, NameStates, Located, Aside, Staged, Clear, AnswerInv, Forward,
     Backward, Shows, Spare, AnswerIsTrue, Installed, Entries
<1>15. CASE FinalSync
  <2>1. /\ pc = "final" /\ pc' = "returned" /\ UNCHANGED <<disk, before, had, fault>>
    BY <1>15 DEF FinalSync, Return, Go, bookVars
  <2>2. \A i \in Entries : disk[i] = Names("new", "absent", "absent")
    BY <2>1, SameNames
       DEF AnswerInv, Forward, Shows, PairInv, PairTypes, Names, NameStates,
           Contents
  <2>3. CASE Synced /\ result' = "ok"
    BY <2>1, <2>2, <2>3 DEF AnswerInv, Forward, Backward, AnswerIsTrue, Installed, Shows, Synced
  <2>4. CASE result' = "committed"
    BY <2>1, <2>4 DEF AnswerInv, Forward, Backward, AnswerIsTrue, Installed, Shows
  <2> QED
    BY <1>15, <2>3, <2>4 DEF FinalSync, Return
<1>16. CASE RemoveTarget
  <2>1. /\ pc = "remove" /\ pc' = "remove" /\ at' = at - 1 /\ result' = result
        /\ before' = before /\ had' = had /\ pushed' = pushed
        /\ at \in Entries
    BY <1>16 DEF RemoveTarget, Go, bookVars
  <2>2. CASE Set(at, [disk[at] EXCEPT !.target = "absent"])
               /\ fault' = fault
    <3>1. /\ \A i \in Entries \ {at} : disk'[i] = disk[i]
          /\ disk'[at] = [disk[at] EXCEPT !.target = "absent"]
      BY <2>1, <2>2 DEF PairInv, PairTypes, Set, Located, Entries
    <3>2. /\ disk'[at].target = "absent"
          /\ disk'[at].staged = disk[at].staged
          /\ disk'[at].backup = disk[at].backup
      BY <2>1, <3>1 DEF PairInv, PairTypes, NameStates, Located, Entries
    <3>3. fault' = fault
      BY <2>2
    <3>4. ASSUME NEW i \in Entries, i = at
          PROVE  Forward(i)' /\ (~fault' => Backward(i)')
      BY <2>1, <3>2, <3>3, <3>4
         DEF AnswerInv, Forward, Backward, Shows, Spare, PairInv, PairTypes,
             Located, Staged, Clear, Entries
    <3>5. ASSUME NEW i \in Entries \ {at}
          PROVE  Forward(i)' /\ (~fault' => Backward(i)')
      BY <2>1, <3>1, <3>3
         DEF AnswerInv, Forward, Backward, Shows, Spare, PairInv, PairTypes,
             Located, Staged, Clear, Entries
    <3>6. AnswerIsTrue'
      BY <2>1 DEF AnswerInv, AnswerIsTrue
    <3> QED
      BY <2>1, <3>3, <3>4, <3>5, <3>6
         DEF AnswerInv, PairInv, PairTypes, Located, Entries
  <2>3. CASE Untouched /\ fault' = TRUE
    BY <2>1, <2>3
       DEF AnswerInv, Forward, Backward, Shows, Spare, AnswerIsTrue, Installed,
           Untouched, Entries
  <2> QED
    BY <1>16, <2>2, <2>3 DEF RemoveTarget
<1>17. CASE TargetsRemoved
  BY <1>17 DEF TargetsRemoved, Untouched, Go, bookVars, PairInv, PairTypes,
     NameStates, Located, Aside, Staged, Clear, AnswerInv, Forward, Backward,
     Shows, Spare, AnswerIsTrue, Installed, Entries
<1>18. CASE RestoreOriginal
  <2>1. /\ pc = "restore" /\ pc' = "restore" /\ at' = at - 1 /\ result' = result
        /\ before' = before /\ had' = had /\ pushed' = pushed
        /\ at \in Entries
    BY <1>18 DEF RestoreOriginal, Go, bookVars
  <2>2. CASE Set(at, [disk[at] EXCEPT !.target = disk[at].backup, !.backup = "absent"])
               /\ fault' = fault /\ had[at]
    <3>1. /\ \A i \in Entries \ {at} : disk'[i] = disk[i]
          /\ disk'[at] = [disk[at] EXCEPT !.target = disk[at].backup, !.backup = "absent"]
      BY <2>1, <2>2 DEF PairInv, PairTypes, Set, Located, Entries
    <3>2. /\ disk'[at].target = disk[at].backup
          /\ disk'[at].staged = disk[at].staged
          /\ disk'[at].backup = "absent"
      BY <2>1, <3>1 DEF PairInv, PairTypes, NameStates, Located, Entries
    <3>3. fault' = fault /\ had[at]
      BY <2>2
    <3>4. ASSUME NEW i \in Entries, i = at
          PROVE  Forward(i)' /\ (~fault' => Backward(i)')
      BY <2>1, <3>2, <3>3, <3>4
         DEF AnswerInv, Forward, Backward, Shows, Spare, PairInv, PairTypes,
             Located, Staged, Clear, Entries
    <3>5. ASSUME NEW i \in Entries \ {at}
          PROVE  Forward(i)' /\ (~fault' => Backward(i)')
      BY <2>1, <3>1, <3>3
         DEF AnswerInv, Forward, Backward, Shows, Spare, PairInv, PairTypes,
             Located, Staged, Clear, Entries
    <3>6. AnswerIsTrue'
      BY <2>1 DEF AnswerInv, AnswerIsTrue
    <3> QED
      BY <2>1, <3>3, <3>4, <3>5, <3>6
         DEF AnswerInv, PairInv, PairTypes, Located, Entries
  <2>3. CASE Untouched /\ fault' = TRUE
    BY <2>1, <2>3
       DEF AnswerInv, Forward, Backward, Shows, Spare, AnswerIsTrue, Installed,
           Untouched, Entries
  <2>4. CASE ~had[at] /\ Untouched /\ fault' = fault
    BY <2>1, <2>4
       DEF AnswerInv, Forward, Backward, Shows, Spare, AnswerIsTrue, Installed,
           Untouched, Entries, PairInv, PairTypes, Located, Staged, Clear
  <2> QED
    BY <1>18, <2>2, <2>3, <2>4 DEF RestoreOriginal
<1>19. CASE OriginalsRestored
  BY <1>19 DEF OriginalsRestored, Untouched, Go, bookVars, PairInv, PairTypes,
     NameStates, Located, Aside, Staged, Clear, AnswerInv, Forward, Backward,
     Shows, Spare, AnswerIsTrue, Installed, Entries
<1>20. CASE RemoveStaged
  <2>1. /\ pc = "cleanup" /\ pc' = "cleanup" /\ at' = at + 1 /\ result' = result
        /\ before' = before /\ had' = had /\ pushed' = pushed
        /\ at <= pushed
    BY <1>20 DEF RemoveStaged, Go, bookVars
  <2>2. CASE Set(at, [disk[at] EXCEPT !.staged = "absent"])
               /\ fault' = fault
    <3>1. /\ \A i \in Entries \ {at} : disk'[i] = disk[i]
          /\ disk'[at] = [disk[at] EXCEPT !.staged = "absent"]
      BY <2>1, <2>2 DEF PairInv, PairTypes, Set, Located, Entries
    <3>2. /\ disk'[at].target = disk[at].target
          /\ disk'[at].staged = "absent"
          /\ disk'[at].backup = disk[at].backup
      BY <2>1, <3>1 DEF PairInv, PairTypes, NameStates, Located, Entries
    <3>3. fault' = fault
      BY <2>2
    <3>4. ASSUME NEW i \in Entries, i = at
          PROVE  Forward(i)' /\ (~fault' => Backward(i)')
      BY <2>1, <3>2, <3>3, <3>4
         DEF AnswerInv, Forward, Backward, Shows, Spare, PairInv, PairTypes,
             Located, Staged, Clear, Entries
    <3>5. ASSUME NEW i \in Entries \ {at}
          PROVE  Forward(i)' /\ (~fault' => Backward(i)')
      BY <2>1, <3>1, <3>3
         DEF AnswerInv, Forward, Backward, Shows, Spare, PairInv, PairTypes,
             Located, Staged, Clear, Entries
    <3>6. AnswerIsTrue'
      BY <2>1 DEF AnswerInv, AnswerIsTrue
    <3> QED
      BY <2>1, <3>3, <3>4, <3>5, <3>6
         DEF AnswerInv, PairInv, PairTypes, Located, Entries
  <2>3. CASE Untouched /\ fault' = TRUE
    BY <2>1, <2>3
       DEF AnswerInv, Forward, Backward, Shows, Spare, AnswerIsTrue, Installed,
           Untouched, Entries
  <2> QED
    BY <1>20, <2>2, <2>3 DEF RemoveStaged
<1>21. CASE StagedRemoved
  BY <1>21 DEF StagedRemoved, Untouched, Return, Go, bookVars, PairInv,
     PairTypes, NameStates, Located, Aside, Staged, Clear, AnswerInv, Forward,
     Backward, Shows, Spare, AnswerIsTrue, Installed, Entries
<1>22. CASE Kill
  BY <1>22 DEF Kill, Untouched, Return, Go, bookVars, PairInv, PairTypes,
     NameStates, Located, Aside, Staged, Clear, AnswerInv, Forward, Backward,
     Shows, Spare, AnswerIsTrue, Installed, Entries
<1>23. CASE PowerLoss
  BY <1>23 DEF PowerLoss, Return, Go, bookVars, PairInv, PairTypes,
     NameStates, Located, Aside, Staged, Clear, AnswerInv, Forward, Backward,
     Shows, Spare, AnswerIsTrue, Installed, Entries
<1> QED
  BY <1>1, <1>2, <1>3, <1>4, <1>5, <1>6, <1>7, <1>8, <1>9, <1>10, <1>11,
     <1>12, <1>13, <1>14, <1>15, <1>16, <1>17, <1>18, <1>19, <1>20, <1>21,
     <1>22, <1>23 DEF Next

\* What a call tells its caller is what it left on disk, after any number of
\* calls, failures and crashes.
THEOREM AnswersAreTrue == Spec => []AnswerIsTrue
<1>1. Init => AnswerInv
  BY DEF Init, Names, AnswerInv, Forward, Backward, AnswerIsTrue
<1>2. PairInv /\ AnswerInv /\ [Next]_vars => AnswerInv'
  <2>1. SUFFICES ASSUME PairInv, AnswerInv, [Next]_vars PROVE AnswerInv'
    OBVIOUS
  <2>2. CASE UNCHANGED vars
    BY <2>1, <2>2
       DEF vars, AnswerInv, Forward, Backward, Shows, Spare, AnswerIsTrue,
           Installed
  <2> QED
    BY <2>1, <2>2, AnswerPreserved
<1>3. AnswerInv => AnswerIsTrue
  BY DEF AnswerInv
<1> QED
  BY <1>1, <1>2, <1>3, PairInvariant, PTL DEF Spec
==============================================================================
