------------------------------ MODULE HostLedger ------------------------------
(***************************************************************************)
(* The host-memory ledger of CUDA JPEG sessions                            *)
(* (j2k-jpeg-cuda/src/session/host_ledger.rs and session/packet_cache.rs), *)
(* composed with the context-wide authority of module HostBudget: one      *)
(* external owner for each session that is bound to the context.           *)
(*                                                                         *)
(* Clones of a session share its ledger.  The allocation gate covers every *)
(* operation that changes it, and the locks of the plan cache and of the   *)
(* owner are only taken under the gate, so one holder per session is       *)
(* enough.  Steps end where another session or the pinned pool can act:    *)
(* at each call of the authority.                                          *)
(*                                                                         *)
(* Allocation closures keep what they were told plus what they allocate    *)
(* within the cap, as HostPhaseBudget makes them do (batch.rs,             *)
(* owned_decode/plan.rs) and as the plan cache does by evicting; they drop *)
(* no lease.  They may fail and they may panic.  A lease of no bytes takes *)
(* part in no total and is left out.                                       *)
(***************************************************************************)
EXTENDS HostBudget

CONSTANTS              \* besides those of HostBudget; an owner is a session
    Threads,           \* the threads that use the sessions
    Leases,            \* the HostOwnerLeases that can exist
    NoThread, NoSession, NoLease

ASSUME LedgerAssumption ==
    /\ IsFiniteSet(Threads) /\ IsFiniteSet(Leases)
    /\ 0..Cap \subseteq Bytes
    /\ NoThread \notin Threads /\ NoSession \notin Owners
    /\ NoLease \notin Leases

VARIABLES
    active,          \* SharedHostLedger.active_bytes
    cacheRetained,   \* SharedHostLedger.cache_retained_bytes
    poisoned,        \* SharedHostLedger.poisoned
    gate,            \* who holds SharedHostLedger.allocation_gate
    broken,          \* a panic unlocked the gate
    cache,           \* what the plan cache of the session really retains
    gone,            \* the last clone of the session was dropped
    holder,          \* the session each lease belongs to
    size,            \* HostOwnerLease.bytes
    pc, op, at, job, request   \* each thread's call

budgetVars == <<auth, registered, bytes, open, reserved, excluded, working,
                pin, context>>
ledgerVars == <<active, cacheRetained, poisoned, gate, broken, cache, gone>>
leaseVars == <<holder, size>>
callVars == <<pc, op, at, job, request>>
sessionVars == <<auth, registered, bytes, open, reserved, excluded, working,
                 pin, context, active, cacheRetained, poisoned, gate, broken,
                 cache, gone, holder, size, pc, op, at, job, request>>

Operations == {"resolve", "allocate", "existing", "bind"}

SessionInit ==
    /\ Init
    /\ active = [s \in Owners |-> 0]
    /\ cacheRetained = [s \in Owners |-> 0]
    /\ poisoned = [s \in Owners |-> "no"]
    /\ gate = [s \in Owners |-> NoThread]
    /\ broken = [s \in Owners |-> "no"]
    /\ cache = [s \in Owners |-> 0]
    /\ gone = [s \in Owners |-> "no"]
    /\ holder = [l \in Leases |-> NoSession]
    /\ size = [l \in Leases |-> 0]
    /\ pc = [t \in Threads |-> "idle"]
    /\ op = [t \in Threads |-> "none"]
    /\ at = [t \in Threads |-> NoSession]
    /\ job = [t \in Threads |-> NoLease]
    /\ request = [t \in Threads |-> 0]

Bound(s) == s \in registered

Goto(t, where) == pc' = [pc EXCEPT ![t] = where]

\* The call is over.
Return(t) ==
    /\ Goto(t, "idle")
    /\ op' = [op EXCEPT ![t] = "none"]
    /\ at' = [at EXCEPT ![t] = NoSession]
    /\ job' = [job EXCEPT ![t] = NoLease]
    /\ request' = [request EXCEPT ![t] = 0]

\* It returns and drops the gate's guard.
Leave(t) == gate' = [gate EXCEPT ![at[t]] = NoThread] /\ Return(t)

\* SharedHostLedger::poison; the value it stores in active_bytes is read by
\* nobody who looks at the flag.
Poison(s) == poisoned' = [poisoned EXCEPT ![s] = "yes"]

-----------------------------------------------------------------------------
(* lock_allocations                                                        *)

\* The flag is read before the gate is waited for.
Enter(t, s, what) ==
    /\ pc[t] = "idle" /\ gone[s] = "no" /\ poisoned[s] = "no"
    /\ Goto(t, "gate")
    /\ op' = [op EXCEPT ![t] = what]
    /\ at' = [at EXCEPT ![t] = s]
    /\ UNCHANGED <<budgetVars, ledgerVars, leaseVars, job, request>>

\* Drop of a lease.
EnterDrop(t, l) ==
    /\ pc[t] = "idle" /\ holder[l] # NoSession
    /\ \A u \in Threads : job[u] # l
    /\ IF poisoned[holder[l]] = "no"
       THEN /\ Goto(t, "gate")
            /\ op' = [op EXCEPT ![t] = "drop"]
            /\ at' = [at EXCEPT ![t] = holder[l]]
            /\ job' = [job EXCEPT ![t] = l]
            /\ UNCHANGED leaseVars
       ELSE /\ holder' = [holder EXCEPT ![l] = NoSession]
            /\ size' = [size EXCEPT ![l] = 0]
            /\ UNCHANGED <<pc, op, at, job>>
    /\ UNCHANGED <<budgetVars, ledgerVars, request>>

LockAllocations(t) ==
    /\ pc[t] = "gate" /\ gate[at[t]] = NoThread /\ broken[at[t]] = "no"
    /\ gate' = [gate EXCEPT ![at[t]] = t]
    /\ Goto(t, "in")
    /\ UNCHANGED <<budgetVars, active, cacheRetained, poisoned, broken, cache,
                   gone, leaseVars, op, at, job, request>>

\* A holder panicked.  A lease that is being dropped is gone all the same.
LockBroken(t) ==
    /\ pc[t] = "gate" /\ broken[at[t]] = "yes"
    /\ Poison(at[t])
    /\ holder' = [l \in Leases |-> IF l = job[t] THEN NoSession ELSE holder[l]]
    /\ size' = [l \in Leases |-> IF l = job[t] THEN 0 ELSE size[l]]
    /\ Return(t)
    /\ UNCHANGED <<budgetVars, active, cacheRetained, gate, broken, cache,
                   gone>>

-----------------------------------------------------------------------------
(* transact_cache and allocate_host_owner, up to their commit              *)

\* What the transaction offers for replacement: the cache, or nothing.
Replaced(t) == IF op[t] = "resolve" THEN cache[at[t]] ELSE 0

\* reserve_replacement, if the session is bound; it may be refused.
BeginTransaction(t) ==
    LET s == at[t] IN
    /\ pc[t] = "in" /\ op[t] \in {"resolve", "allocate"}
    /\ IF Bound(s) /\ (auth.poisoned \/ Replaced(t) > bytes[s])
       THEN Leave(t) /\ UNCHANGED budgetVars
       ELSE /\ Goto(t, "work")
            /\ UNCHANGED <<gate, op, at, job, request>>
            /\ IF Bound(s) THEN ReserveReplacement(s, Replaced(t))
               ELSE UNCHANGED budgetVars
    /\ UNCHANGED <<active, cacheRetained, poisoned, broken, cache, gone,
                   leaseVars>>

\* Mutant: the closure is not told of the leases in flight.
MutUnboundLive(t) == IF op[t] = "resolve" THEN 0 ELSE cache[at[t]]

\* The live bytes the closure is told of when no context is bound.
UnboundLive(t) ==
    IF op[t] = "resolve" THEN active[at[t]]
    ELSE cache[at[t]] + active[at[t]]

\* The closure: the plan cache now retains n, or n bytes were allocated.
Work(t, n) ==
    LET s == at[t] IN
    /\ pc[t] = "work" /\ (op[t] = "allocate" => n > 0)
    /\ IF Bound(s) THEN Allocate(s, n)
       ELSE UnboundLive(t) + n <= Cap /\ UNCHANGED budgetVars
    /\ cache' = IF op[t] = "resolve" THEN [cache EXCEPT ![s] = n] ELSE cache
    /\ request' = IF op[t] = "resolve" THEN request
                  ELSE [request EXCEPT ![t] = n]
    /\ Goto(t, IF op[t] = "allocate" /\ ~Bound(s) THEN "admit" ELSE "commit")
    /\ UNCHANGED <<active, cacheRetained, poisoned, gate, broken, gone,
                   leaseVars, op, at, job>>

\* The allocation fails: the transaction is committed as it began.
WorkFails(t) ==
    /\ pc[t] = "work" /\ op[t] = "allocate"
    /\ IF Bound(at[t])
       THEN Commit(at[t], cache[at[t]] + active[at[t]])
       ELSE UNCHANGED budgetVars
    /\ Leave(t)
    /\ UNCHANGED <<active, cacheRetained, poisoned, broken, cache, gone,
                   leaseVars>>

\* The closure panics: the reservation is dropped while unwinding, then the
\* guards, which leave their mutexes poisoned.
Panic(t) ==
    /\ pc[t] = "work"
    /\ IF Bound(at[t]) THEN DropReservation(at[t])
       ELSE UNCHANGED budgetVars
    /\ broken' = [broken EXCEPT ![at[t]] = "yes"]
    /\ Leave(t)
    /\ UNCHANGED <<active, cacheRetained, poisoned, cache, gone, leaseVars>>

Granted(l, s, n) ==
    /\ holder' = [holder EXCEPT ![l] = s]
    /\ size' = [size EXCEPT ![l] = n]

\* Mutant: the cache's new total is committed without the active leases.
MutCommitCache(t) ==
    LET s == at[t] IN
    /\ pc[t] = "commit" /\ op[t] = "resolve"
    /\ IF Bound(s) THEN Commit(s, cache[s]) ELSE UNCHANGED budgetVars
    /\ cacheRetained' = [cacheRetained EXCEPT ![s] = cache[s]]
    /\ \/ Leave(t)
       \/ /\ Bound(s) => bytes'[s] = cache[s] + active[s]
          /\ Goto(t, "admit") /\ UNCHANGED <<gate, op, at, job, request>>
    /\ UNCHANGED <<active, poisoned, broken, cache, gone, leaseVars>>

\* transact_cache stores what the cache retains even when the commit was
\* refused.  A resolve goes on to lease the packet it found, if any.
CommitCache(t) ==
    LET s == at[t] IN
    /\ pc[t] = "commit" /\ op[t] = "resolve"
    /\ IF Bound(s) THEN Commit(s, cache[s] + active[s])
       ELSE UNCHANGED budgetVars
    /\ cacheRetained' = [cacheRetained EXCEPT ![s] = cache[s]]
    /\ \/ Leave(t)
       \/ /\ Bound(s) => bytes'[s] = cache[s] + active[s]
          /\ Goto(t, "admit") /\ UNCHANGED <<gate, op, at, job, request>>
    /\ UNCHANGED <<active, poisoned, broken, cache, gone, leaseVars>>

CommitOwner(t, l) ==
    LET s == at[t]
        n == cache[s] + active[s] + request[t] IN
    /\ pc[t] = "commit" /\ op[t] = "allocate" /\ holder[l] = NoSession
    /\ Commit(s, n)
    /\ IF bytes'[s] = n
       THEN /\ active' = [active EXCEPT ![s] = @ + request[t]]
            /\ cacheRetained' = [cacheRetained EXCEPT ![s] = cache[s]]
            /\ Granted(l, s, request[t])
       ELSE UNCHANGED <<active, cacheRetained, leaseVars>>
    /\ Leave(t)
    /\ UNCHANGED <<poisoned, broken, cache, gone>>

-----------------------------------------------------------------------------
(* reserve, bind_context, the drop of a lease and of a session             *)

PinnedRetained(s) == IF Bound(s) THEN auth.pinned ELSE 0

\* The first half of reserve reads the pinned bytes and tests the aggregate.
AdmitLease(t, n) ==
    LET s == at[t] IN
    /\ n > 0
    /\ \/ pc[t] = "in" /\ op[t] = "existing"
       \/ pc[t] = "admit" /\ op[t] = "resolve"
       \/ pc[t] = "admit" /\ op[t] = "allocate" /\ n = request[t]
    /\ IF cache[s] + PinnedRetained(s) + active[s] + n <= Cap
       THEN /\ Goto(t, "reserve")
            /\ request' = [request EXCEPT ![t] = n]
            /\ UNCHANGED <<gate, op, at, job>>
       ELSE Leave(t)
    /\ UNCHANGED <<budgetVars, active, cacheRetained, poisoned, broken, cache,
                   gone, leaseVars>>

\* The second half: the authority decides, then the books follow.
Reserve(t, l) ==
    LET s == at[t]
        n == cache[s] + active[s] + request[t] IN
    /\ pc[t] = "reserve" /\ holder[l] = NoSession
    /\ IF Bound(s) THEN Reconcile(s, n) ELSE UNCHANGED budgetVars
    /\ IF Bound(s) => ReconcileOk(auth, bytes[s], n)
       THEN /\ active' = [active EXCEPT ![s] = @ + request[t]]
            /\ cacheRetained' = [cacheRetained EXCEPT ![s] = cache[s]]
            /\ Granted(l, s, request[t])
       ELSE UNCHANGED <<active, cacheRetained, leaseVars>>
    /\ Leave(t)
    /\ UNCHANGED <<poisoned, broken, cache, gone>>

\* bind_context registers what the session holds already; a refusal leaves
\* it unbound.
BindContext(t) ==
    LET s == at[t] IN
    /\ pc[t] = "in" /\ op[t] = "bind"
    /\ IF Bound(s) THEN UNCHANGED budgetVars
       ELSE RegisterExternalOwner(s, cacheRetained[s] + active[s])
    /\ Leave(t)
    /\ UNCHANGED <<active, cacheRetained, poisoned, broken, cache, gone,
                   leaseVars>>

\* Mutant: the last lease does not fit the books (an off-by-one test).
MutDropLease(t) ==
    LET s == at[t]
        n == cacheRetained[s] + active[s] - size[job[t]] IN
    /\ pc[t] = "in" /\ op[t] = "drop"
    /\ IF active[s] > size[job[t]]
       THEN /\ IF Bound(s) THEN Reconcile(s, n)
               ELSE UNCHANGED budgetVars
            /\ active' = [active EXCEPT ![s] = @ - size[job[t]]]
            /\ UNCHANGED poisoned
       ELSE Poison(s) /\ UNCHANGED <<budgetVars, active>>
    /\ holder' = [holder EXCEPT ![job[t]] = NoSession]
    /\ size' = [size EXCEPT ![job[t]] = 0]
    /\ Leave(t)
    /\ UNCHANGED <<cacheRetained, broken, cache, gone>>

\* Drop of a lease under the gate; it poisons the ledger if the books do not
\* hold the lease or the authority refuses.
DropLease(t) ==
    LET s == at[t]
        n == cacheRetained[s] + active[s] - size[job[t]]
        ok == /\ active[s] >= size[job[t]]
              /\ Bound(s) => ReconcileOk(auth, bytes[s], n) IN
    /\ pc[t] = "in" /\ op[t] = "drop"
    /\ IF active[s] >= size[job[t]] /\ Bound(s)
       THEN Reconcile(s, n) ELSE UNCHANGED budgetVars
    /\ IF ok THEN /\ active' = [active EXCEPT ![s] = @ - size[job[t]]]
                  /\ UNCHANGED poisoned
             ELSE Poison(s) /\ UNCHANGED active
    /\ holder' = [holder EXCEPT ![job[t]] = NoSession]
    /\ size' = [size EXCEPT ![job[t]] = 0]
    /\ Leave(t)
    /\ UNCHANGED <<cacheRetained, broken, cache, gone>>

\* The last clone goes, and the plan cache with it.  Leases keep the ledger
\* alive, and with it the charge for that cache.
DropClones(s) ==
    /\ gone[s] = "no"
    /\ \A t \in Threads : at[t] = s => op[t] = "drop"
    /\ cache' = [cache EXCEPT ![s] = 0]
    /\ gone' = [gone EXCEPT ![s] = "yes"]
    /\ UNCHANGED <<budgetVars, active, cacheRetained, poisoned, gate, broken,
                   leaseVars, callVars>>

\* Mutant: the owner is forgotten without giving its charge back.
MutDropLedger(s) ==
    /\ gone[s] = "yes"
    /\ \A l \in Leases : holder[l] # s
    /\ registered' = registered \ {s}
    /\ bytes' = [bytes EXCEPT ![s] = 0]
    /\ active' = [active EXCEPT ![s] = 0]
    /\ cacheRetained' = [cacheRetained EXCEPT ![s] = 0]
    /\ poisoned' = [poisoned EXCEPT ![s] = "no"]
    /\ broken' = [broken EXCEPT ![s] = "no"]
    /\ gone' = [gone EXCEPT ![s] = "no"]
    /\ UNCHANGED <<auth, open, reserved, excluded, working, pin, context,
                   gate, cache, leaseVars, callVars>>

\* The last lease is gone too: the owner is dropped with the ledger and a new
\* session may take its place.
DropLedger(s) ==
    /\ gone[s] = "yes"
    /\ \A l \in Leases : holder[l] # s
    /\ IF Bound(s) THEN DropOwner(s) ELSE UNCHANGED budgetVars
    /\ active' = [active EXCEPT ![s] = 0]
    /\ cacheRetained' = [cacheRetained EXCEPT ![s] = 0]
    /\ poisoned' = [poisoned EXCEPT ![s] = "no"]
    /\ broken' = [broken EXCEPT ![s] = "no"]
    /\ gone' = [gone EXCEPT ![s] = "no"]
    /\ UNCHANGED <<gate, cache, leaseVars, callVars>>

\* The pinned upload pool of the context, as PinnedStaging has it.
PinnedStep ==
    /\ \E b \in Blocks :
          \/ \E n \in Bytes \ {0} : ReservePinned(b, n)
          \/ ReleasePinned(b)
    /\ UNCHANGED <<ledgerVars, leaseVars, callVars>>

SessionNext ==
    \/ \E t \in Threads :
          \/ \E s \in Owners, what \in Operations : Enter(t, s, what)
          \/ \E l \in Leases : EnterDrop(t, l) \/ CommitOwner(t, l)
                               \/ Reserve(t, l)
          \/ LockAllocations(t) \/ LockBroken(t)
          \/ BeginTransaction(t) \/ WorkFails(t) \/ Panic(t)
          \/ \E n \in 0..Cap : Work(t, n) \/ AdmitLease(t, n)
          \/ CommitCache(t) \/ BindContext(t) \/ DropLease(t)
    \/ \E s \in Owners : DropClones(s) \/ DropLedger(s)
    \/ PinnedStep

SessionSpec == SessionInit /\ [][SessionNext]_sessionVars

-----------------------------------------------------------------------------
Leased(s) ==
    Total([l \in Leases |-> IF holder[l] = s THEN size[l] ELSE 0], Cap)

\* Between two calls the three sets of books of a session say the same: the
\* ledger knows every live lease and what the cache retains, and a bound
\* session is charged exactly that, through refused growth, failed
\* allocations and a late binding.
BooksAgree ==
    \A s \in Owners : gate[s] = NoThread /\ broken[s] = "no" =>
        /\ active[s] = Leased(s)
        /\ gone[s] = "no" => cacheRetained[s] = cache[s]
        /\ Bound(s) => bytes[s] = cacheRetained[s] + active[s]

\* What a transaction has allocated and not yet leased.
Unleased(s) ==
    Total([t \in Threads |->
              IF at[t] = s /\ op[t] = "allocate" THEN request[t] ELSE 0], Cap)

Held(s) == cache[s] + Leased(s) + Unleased(s)

\* The memory that bound sessions really hold, counted in caches, leases and
\* allocations not yet registered, fits the cap together with the pinned
\* blocks at every moment, also after a panic has left a ledger poisoned
\* (independent_sessions_on_one_context_cannot_race_past_the_host_cap).
HeldWithinCap ==
    /\ auth.pinned + Total([s \in Owners |-> IF Bound(s) THEN Held(s) ELSE 0],
                           2 * Cap) <= Cap
    /\ \A s \in Owners : Held(s) <= Cap

\* A ledger poisons itself only because a closure panicked; its own
\* accounting never gives it a reason to.
PoisonedOnlyByPanic ==
    \A s \in Owners : poisoned[s] = "yes" => broken[s] = "yes"

\* Sessions are well-behaved clients of the authority.
ImplementsBudget == Spec
=============================================================================
